-------------------------- MODULE ToolBuildWindows --------------------------
(***************************************************************************)
(* From the lines of a file to the occurrences of its windows: line          *)
(* normalisation (tool_build/normalize.rs, anchors.rs), the window filters   *)
(* and the fingerprint index (tool_build/scan.rs) and the merging of          *)
(* overlapping windows (tool_build/merge.rs).                                *)
(*                                                                         *)
(* A raw line is what the tokenizer makes of it, [tokens, import]: tokens is *)
(* a sequence of records [role, name], empty for a blank or comment line.    *)
(* A fingerprint is the window's text itself: BLAKE3 is taken to be          *)
(* injective on the windows of a scan.                                       *)
(***************************************************************************)
EXTENDS ToolBuildWalk

CONSTANT GENERIC_ANCHORS      \* standard-library names that anchor nothing

AnchorRoles == {"call", "macro", "member"}

domain_anchor(token) == token.role \in AnchorRoles /\ token.name \notin GENERIC_ANCHORS

\* The distinct domain names among some tokens.
DomainNames(tokens) == {t.name : t \in {u \in tokens : domain_anchor(u)}}

-----------------------------------------------------------------------------
(* Normalisation: lines without tokens vanish, the others keep their number. *)

normalized_lines(contents) ==
    LET line(i) == [line_number |-> i, joined |-> contents[i].tokens,
                    is_import |-> contents[i].import]
        lines[i \in 0 .. Len(contents)] ==
            IF i = 0 THEN <<>>
            ELSE IF contents[i].tokens = <<>> THEN lines[i - 1]
            ELSE Append(lines[i - 1], line(i))
    IN  lines[Len(contents)]

TokenCount(lines) == FoldLeft(LAMBDA n, l : n + Len(l.joined), 0, lines)

AnchorCount(lines) ==
    FoldLeft(LAMBDA n, l : n + Len(SelectSeq(l.joined, domain_anchor)), 0, lines)

ImportCount(lines) == Len(SelectSeq(lines, LAMBDA l : l.is_import))

DistinctTokens(lines) == UNION {Range(lines[i].joined) : i \in 1 .. Len(lines)}

\* The text of some lines, which is what a fingerprint identifies.
window_key(lines) == [i \in 1 .. Len(lines) |-> lines[i].joined]

-----------------------------------------------------------------------------
(* Which windows are recorded, and the index one file adds to.              *)

WindowPasses(window, lang, options) ==
    LET is_config == lang \in ConfigLanguages
        waive_structure == is_config \/ lang = "shell"
        floor == options.base.min_normalized_tokens
        min_tokens == IF ~options.compat_v1 /\ is_config THEN floor + floor \div 2 ELSE floor
    IN  /\ TokenCount(window) >= min_tokens
        /\ options.compat_v1 \/
             /\ ImportCount(window) * 100 <= options.max_import_fraction_x100 * Len(window)
             /\ waive_structure \/
                  /\ AnchorCount(window) >= options.min_anchor_tokens
                  /\ Cardinality(DistinctTokens(window)) >= options.min_distinct_tokens

\* An index maps a key to the sequence of its occurrences.
EmptyIndex == [k \in {} |-> <<>>]

OccsOf(index, key) == IF key \in DOMAIN index THEN index[key] ELSE <<>>

push(index, key, occ) ==
    [k \in DOMAIN index \cup {key} |-> IF k = key THEN Append(OccsOf(index, k), occ)
                                      ELSE index[k]]

WindowAt(normalized, s, window_lines) == SubSeq(normalized, s, s + window_lines - 1)

ScanOccurrence(normalized, s, repo_idx, file_idx, window_lines) ==
    [repo_idx |-> repo_idx, file_idx |-> file_idx, norm_start |-> s,
     start_line |-> normalized[s].line_number,
     end_line |-> normalized[s + window_lines - 1].line_number,
     token_count |-> TokenCount(WindowAt(normalized, s, window_lines))]

\* The window slides over one file; each one that passes is pushed behind the
\* occurrences its key has.
scan_windows(index, normalized, repo_idx, file_idx, lang, window_lines, options) ==
    LET window(s) == WindowAt(normalized, s, window_lines)
        last == Len(normalized) - window_lines + 1
        scanned[s \in 0 .. last] ==
            IF s = 0 THEN index
            ELSE IF ~WindowPasses(window(s), lang, options) THEN scanned[s - 1]
            ELSE push(scanned[s - 1], window_key(window(s)),
                      ScanOccurrence(normalized, s, repo_idx, file_idx, window_lines))
    IN  IF Len(normalized) < window_lines THEN index ELSE scanned[last]

rebase_file_indexes(occs, offset) ==
    [n \in 1 .. Len(occs) |-> [occs[n] EXCEPT !.file_idx = @ + offset]]

\* One shard's index appended to the cross-repo one.
extend_from(index, shard_index, offset) ==
    [k \in DOMAIN index \cup DOMAIN shard_index |->
        OccsOf(index, k) \o rebase_file_indexes(OccsOf(shard_index, k), offset)]

-----------------------------------------------------------------------------
(* Survivors and their merging.                                            *)

DistinctRepos(occs) == {occs[n].repo_idx : n \in 1 .. Len(occs)}

Survivors(index, window_lines, options) ==
    LET lasts(k) ==
            /\ Len(index[k]) >= Max({options.base.min_occurrences, 2})
            /\ Cardinality(DistinctRepos(index[k])) >= Max({options.base.min_repo_count, 1})
    IN  {[key |-> k, occs |-> index[k], norm_len |-> window_lines, member_keys |-> <<>>] :
            k \in {j \in DOMAIN index : lasts(j)}}

\* The order (repo, file, norm_start).
OccBefore(a, b) ==
    \/ a.repo_idx < b.repo_idx
    \/ /\ a.repo_idx = b.repo_idx
       /\ \/ a.file_idx < b.file_idx
          \/ a.file_idx = b.file_idx /\ a.norm_start < b.norm_start

InOccOrder(occs) ==
    LET sorts_to(i) == Cardinality({j \in DOMAIN occs :
                           \/ OccBefore(occs[j], occs[i])
                           \/ ~OccBefore(occs[i], occs[j]) /\ j <= i})
    IN  [n \in DOMAIN occs |-> occs[CHOOSE i \in DOMAIN occs : sorts_to(i) = n]]

SortOccs(proto) == [proto EXCEPT !.occs = InOccOrder(@)]

positions(proto, shift) ==
    [n \in 1 .. Len(proto.occs) |->
        <<proto.occs[n].repo_idx, proto.occs[n].file_idx, proto.occs[n].norm_start + shift>>]

\* A bug of the chain test: only the first occurrence is compared.
ShiftedAtHead(survivors, proto, shift) ==
    {q \in survivors : /\ Len(q.occs) = Len(proto.occs)
                       /\ positions(q, 0)[1] = positions(proto, shift)[1]}

\* The window cluster whose occurrences are all of proto's, shift lines on.
ShiftedBy(survivors, proto, shift) ==
    {q \in survivors : positions(q, 0) = positions(proto, shift)}

\* Chains of clusters that follow each other at one line's distance become one
\* cluster over the whole span; its ends come from the first and the last.
merge_overlapping(survivors, window_lines) ==
    LET heads == {p \in survivors : ShiftedBy(survivors, p, -1) = {}}
        length(p) == CHOOSE n \in 1 .. Cardinality(survivors) :
                        /\ \A k \in 1 .. n - 1 : ShiftedBy(survivors, p, k) # {}
                        /\ ShiftedBy(survivors, p, n) = {}
        link(p, k) == CHOOSE q \in ShiftedBy(survivors, p, k) : TRUE
        chained(p) ==
            LET n == length(p)
                tail == link(p, n - 1)
            IN  [key |-> p.key,
                 occs |-> [i \in 1 .. Len(p.occs) |->
                            [p.occs[i] EXCEPT !.end_line = tail.occs[i].end_line]],
                 norm_len |-> window_lines + n - 1,
                 member_keys |-> [k \in 1 .. n |-> link(p, k - 1).key]]
    IN  {IF length(p) = 1 THEN p ELSE chained(p) : p \in heads}

ProtoClusters(index, window_lines, options) ==
    LET survivors == Survivors(index, window_lines, options)
    IN  IF options.merge_overlaps
        THEN merge_overlapping({SortOccs(p) : p \in survivors}, window_lines)
        ELSE survivors
=============================================================================
