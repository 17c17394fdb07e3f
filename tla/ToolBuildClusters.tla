-------------------------- MODULE ToolBuildClusters --------------------------
(***************************************************************************)
(* The report rows of a tool-build scan: ranking, category, representative   *)
(* occurrences and coverage of a cluster (tool_build/scan.rs, enrich.rs) and  *)
(* the pattern families over the ranked clusters (tool_build/families.rs).   *)
(*                                                                         *)
(* Scores are computed without the saturation at 2^64, which no repository   *)
(* reaches; insight, label and names are wording and are left out.           *)
(***************************************************************************)
EXTENDS ToolBuildWindows

CONSTANTS
    KEPT_TOTAL,     \* compact occurrence list: 64 on the v2 path
    KEPT_V1         \* and 12 on the v1 path

ASSUME KeptAssumption == KEPT_TOTAL \in Nat /\ KEPT_V1 \in Nat

REPO_SPREAD_BONUS_PCT == 25
MAX_REPO_SPREAD_STEPS == 8
NO_ANCHOR_PCT == 25
ANCHOR_STEP_PCT == 25

SumOver(f(_), S) == MapThenSumSet(f, S)

SpanLines(span) == span[2] - span[1] + 1

\* Sorted, coalesced spans: those that overlap or touch become one.
merge_spans(spans) ==
    LET ordered == SetToSortSeq(spans, LAMBDA a, b : a[1] < b[1] \/ (a[1] = b[1] /\ a[2] < b[2]))
        absorb(merged, span) ==
            IF merged # <<>> /\ span[1] <= merged[Len(merged)][2] + 1
            THEN [merged EXCEPT ![Len(merged)][2] = Max({@, span[2]})]
            ELSE Append(merged, span)
    IN  FoldLeft(absorb, <<>>, ordered)

-----------------------------------------------------------------------------
(* One cluster.                                                            *)

v1_score(occurrence_count, token_total, file_count, total_lines) ==
    occurrence_count * token_total + file_count * 100 + total_lines

cluster_score(occurrence_count, repo_count, token_total, anchors) ==
    LET base == (token_total \div occurrence_count) * (occurrence_count - 1)
        repo_pct == 100 + REPO_SPREAD_BONUS_PCT * Min({repo_count - 1, MAX_REPO_SPREAD_STEPS})
        anchor_pct == Min({NO_ANCHOR_PCT + ANCHOR_STEP_PCT * anchors, 100})
    IN  (base * repo_pct * anchor_pct) \div 10000

CategoryOf(options, scaffold, config, test, total) ==
    IF options.compat_v1 THEN "tool-candidate"
    ELSE IF scaffold * 100 >= options.scaffold_fraction_threshold_x100 * total
         THEN "managed-scaffold"
    ELSE IF config * 100 >= options.scaffold_fraction_threshold_x100 * total
         THEN "config-pattern"
    ELSE IF test * 100 >= options.test_fraction_threshold_x100 * total
         THEN "test-pattern"
    ELSE "tool-candidate"

\* The indexes of the occurrences a report lists: the first of every
\* repository, then second ones in scan order while there is room.
KeptOccurrences(occs, options) ==
    LET ordinal(n) == Cardinality({i \in 1 .. n : occs[i].repo_idx = occs[n].repo_idx})
        nth(k) == {n \in 1 .. Len(occs) : ordinal(n) = k}
        room == KEPT_TOTAL - Cardinality(nth(1))
        earlier(n) == Cardinality({i \in nth(2) : i < n})
    IN  IF options.compat_v1
        THEN 1 .. Min({Len(occs), KEPT_V1})
        ELSE nth(1) \cup {n \in nth(2) : earlier(n) < room}

file_coverage(occs, files) ==
    LET entries == {<<files[occs[n].file_idx].repo_id, files[occs[n].file_idx].rel>> :
                        n \in 1 .. Len(occs)}
        spans(e) == {<<occs[n].start_line, occs[n].end_line>> :
                        n \in {i \in 1 .. Len(occs) :
                            <<files[occs[i].file_idx].repo_id, files[occs[i].file_idx].rel>> = e}}
    IN  [e \in entries |-> merge_spans(spans(e))]

\* The language most occurrences have, the first in the alphabet on a tie.
Dominant(langs) ==
    LET count(l) == Cardinality({n \in DOMAIN langs : langs[n] = l})
        rank(l) == CHOOSE i \in DOMAIN Languages : Languages[i] = l
        most == {l \in Range(langs) : \A o \in Range(langs) : count(o) <= count(l)}
    IN  CHOOSE l \in most : \A o \in most : rank(l) <= rank(o)

\* A report row. recon is the text read back from disk, as normalised lines;
\* files is the file table, whose entries carry repo_id, rel, lang and class.
build_cluster(proto, recon, files, options, window_lines) ==
    LET occs == proto.occs
        N == 1 .. Len(occs)
        merged == proto.member_keys # <<>>
        file(n) == files[occs[n].file_idx]
        total == Len(occs)
        of_class(c) == Cardinality({n \in N : file(n).class = c})
        repos == {file(n).repo_id : n \in N}
        file_count == Cardinality({IF options.compat_v1 THEN <<file(n).rel>>
                                   ELSE <<file(n).repo_id, file(n).rel>> : n \in N})
        lines(n) == IF options.compat_v1 THEN window_lines
                    ELSE SpanLines(<<occs[n].start_line, occs[n].end_line>>)
        tokens(n) == IF merged THEN TokenCount(recon) ELSE occs[n].token_count
        total_lines == SumOver(lines, N)
        token_total == SumOver(tokens, N)
        signature == DomainNames(DistinctTokens(recon))
        category == CategoryOf(options, of_class("scaffold"), of_class("config"),
                               of_class("test"), total)
        score == IF options.compat_v1
                 THEN v1_score(total, token_total, file_count, total_lines)
                 ELSE cluster_score(total, Cardinality(repos), token_total,
                                    Cardinality(signature))
    IN  [fingerprint |-> window_key(recon),
         score |-> IF category = "test-pattern" THEN score \div 4 ELSE score,
         occurrence_count |-> total,
         repo_count |-> Cardinality(repos),
         file_count |-> file_count,
         total_lines |-> total_lines,
         language |-> Dominant([n \in N |-> file(n).lang]),
         category |-> category,
         signature |-> signature,
         member_keys |-> proto.member_keys,
         occurrences |-> {[repo_id |-> file(n).repo_id, path |-> file(n).rel,
                           start_line |-> occs[n].start_line,
                           end_line |-> occs[n].end_line] :
                              n \in KeptOccurrences(occs, options)},
         first_lines |-> SpanLines(<<occs[1].start_line, occs[1].end_line>>),
         coverage |-> IF options.compat_v1 THEN [e \in {} |-> <<>>]
                      ELSE file_coverage(occs, files)]

anticipated_loc_saved(cluster) == Max({cluster.total_lines - cluster.first_lines, 0})

\* Ranking: score, then occurrences, then the id, which is a hash: which of
\* two clusters that tie on the first two is kept is left open.
RankedAbove(a, b) ==
    \/ a.score > b.score
    \/ a.score = b.score /\ a.occurrence_count > b.occurrence_count

\* The possible results of sorting the clusters and truncating the list.
Truncations(clusters, options) ==
    LET room == Min({Cardinality(clusters), Max({options.base.max_clusters, 1})})
    IN  {S \in kSubset(room, clusters) :
            \A a \in S, b \in clusters \ S : ~RankedAbove(b, a)}

-----------------------------------------------------------------------------
(* Families, over a sequence of clusters.                                  *)

JACCARD_FLOOR_X100 == 60
MIN_SIGNATURE == 2

Similar(a, b) ==
    LET common == Cardinality(a.signature \cap b.signature)
    IN  /\ a.language = b.language /\ a.category = b.category
        /\ Cardinality(a.signature) >= MIN_SIGNATURE
        /\ Cardinality(b.signature) >= MIN_SIGNATURE
        /\ common * 100 >= JACCARD_FLOOR_X100 * Cardinality(a.signature \cup b.signature)

\* A parent never lies above its child, so the walk up ends at a root.
find(parent, node) ==
    LET root[i \in DOMAIN parent] == IF parent[i] = i THEN i ELSE root[parent[i]]
    IN  root[node]

\* The larger root is hung below the smaller one.
union(parent, a, b) ==
    LET root_a == find(parent, a)
        root_b == find(parent, b)
    IN  [parent EXCEPT ![Max({root_a, root_b})] = Min({root_a, root_b})]

\* Every pair of similar clusters is joined, pairs taken in index order.
Grouping(clusters) ==
    LET N == 1 .. Len(clusters)
        pairs == SetToSortSeq({p \in N \X N : p[1] < p[2]},
                              LAMBDA p, q : p[1] < q[1] \/ (p[1] = q[1] /\ p[2] < q[2]))
        join(parent, p) == IF Similar(clusters[p[1]], clusters[p[2]])
                           THEN union(parent, p[1], p[2])
                           ELSE parent
    IN  FoldLeft(join, [i \in N |-> i], pairs)

\* Spans, files and lines saved over the union of the members' coverage; the
\* largest span is the copy a shared tool keeps.
union_totals(members) ==
    LET entries == UNION {DOMAIN m.coverage : m \in members}
        spans(e) == merge_spans(UNION {IF e \in DOMAIN m.coverage THEN Range(m.coverage[e])
                                       ELSE {} : m \in members})
        lines(e) == FoldLeft(LAMBDA n, s : n + SpanLines(s), 0, spans(e))
        count(e) == Len(spans(e))
        largest == Max({0} \cup UNION {{SpanLines(s) : s \in Range(spans(e))} : e \in entries})
    IN  [occurrence_total |-> SumOver(count, entries),
         file_total |-> Cardinality(entries),
         anticipated_loc_saved_total |-> Max({SumOver(lines, entries) - largest, 0})]

build_family(members) ==
    LET with_coverage == \A m \in members : DOMAIN m.coverage # {}
        occurrences(m) == m.occurrence_count
        files(m) == m.file_count
        score(m) == m.score
    IN  [members |-> members,
         repo_ids |-> UNION {{o.repo_id : o \in m.occurrences} \cup
                             {e[1] : e \in DOMAIN m.coverage} : m \in members},
         totals |-> IF with_coverage THEN union_totals(members)
                    ELSE [occurrence_total |-> SumOver(occurrences, members),
                          file_total |-> SumOver(files, members),
                          anticipated_loc_saved_total |->
                              SumOver(anticipated_loc_saved, members)],
         score_total |-> SumOver(score, members)]

group_pattern_families(clusters) ==
    LET parent == Grouping(clusters)
        group(i) == {clusters[j] : j \in {k \in DOMAIN parent : find(parent, k) = i}}
    IN  {build_family(group(i)) : i \in {k \in DOMAIN parent : parent[k] = k}}
=============================================================================
