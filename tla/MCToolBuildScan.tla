--------------------------- MODULE MCToolBuildScan ---------------------------
(***************************************************************************)
(* Three repositories: one git lists, with a source file and a file in a      *)
(* generated zone, and two that the walker goes through, one of them with a   *)
(* test file; and further checkouts, which manifests name beside them.        *)
(* Windows are two lines.                                                   *)
(***************************************************************************)
EXTENDS ToolBuildScan

tok(role, name) == [role |-> role, name |-> name]
id == tok("id", "")

line(tokens) == [tokens |-> tokens, import |-> FALSE]
fetch == line(<<tok("call", "fetch"), tok("call", "retry")>>)
store == line(<<id, tok("member", "store")>>)
reply == line(<<tok("macro", "reply"), id>>)
blank == line(<<>>)

MCGeneric == {"iter", "retry"}

file(rel, lang, marks, junk) ==
    [rel |-> rel, lang |-> lang, marks |-> marks, listed |-> TRUE, junk_v1 |-> FALSE,
     junk_v2 |-> junk, bytes |-> 1]

core == <<"srv", "a-split", "core">>
web == <<"srv", "b-split", "kit">>
ops == <<"srv", "z-split", "kit">>
mirror == <<"opt", "core">>
copy == <<"opt", "kit">>
other == <<"srv", "z-split", "tools", "kit">>

tree(clone_of, git, root_commits, zones, files) ==
    [clone_of |-> clone_of, git |-> git, root_commits |-> root_commits, zones |-> zones,
     files |-> files]
source == file(<<"src", "w.rs">>, "rust", {}, FALSE)

\* Core is there twice, and of the first kit there is a copy without its history.
MCRepositories ==
    core :> tree("core", TRUE, {"c0"}, {<<"gen", "**">>},
                 <<file(<<"gen", "a.rs">>, "rust", {}, FALSE),
                   file(<<"src", "a.rs">>, "rust", {}, TRUE)>>)
    @@ mirror :> tree("core", FALSE, {"c0", "c1"}, {}, <<source>>)
    @@ web :> tree("web", FALSE, {"w0"}, {}, <<source>>)
    @@ copy :> tree("web", FALSE, {}, {}, <<source>>)
    @@ ops :> tree("ops", FALSE, {"o0"}, {},
                   <<file(<<"tests", "t.rs">>, "rust", {"test"}, FALSE)>>)
    @@ other :> tree("other", FALSE, {"k0"}, {}, <<source>>)

link == <<"home", "web">>
MCCanonical == [p \in DOMAIN MCRepositories |-> p] @@ link :> web
MCSplitNames == {"a-split", "b-split", "z-split"}
MCLowercase ==
    [n \in {"core", "kit", "web", "copy", "gone", "mirror"} |-> n] @@ "Core" :> "core"
MCAlphabet == <<"a-split", "b-split", "copy", "core", "kit", "mirror", "web", "z-split">>

entry(path, name, slug) == [path |-> path, name |-> name, slug |-> slug, github |-> <<>>]
named(name) == entry(<<>>, name, <<>>)
manifest(dir, entries) == [dir |-> dir, text |-> "good", entries |-> entries]
illegible(dir, text) == [dir |-> dir, text |-> text, entries |-> <<>>]

srv == <<"srv">>
kit_manifest == manifest(<<"srv", "b-split">>, <<named("kit")>>)

base == [window_lines |-> 2, min_normalized_tokens |-> 4, min_occurrences |-> 2,
         max_file_bytes |-> 1, max_clusters |-> 2, min_repo_count |-> 1]

MCSystemDefault == system_options(base, 1, 3, 4)

command_of(kind, manifests) ==
    [kind |-> kind, base |-> base, merge_overlaps |-> TRUE, manifests |-> manifests,
     parents |-> {srv}, root |-> [id |-> "web", checkout |-> web]]
system(manifests, merge) ==
    [command_of("scan_system", manifests) EXCEPT !.base.min_repo_count = 2,
                                                 !.merge_overlaps = merge]

MCCommands ==
    {command_of("scan", <<>>),
     command_of("scan_family",
        <<manifest(<<"srv", "a-split">>,
                   <<entry(core, "core", <<>>), entry(link, "", <<>>),
                     entry(<<"opt", "gone">>, "gone", <<>>)>>)>>),
     command_of("scan_family",
        <<manifest(<<"srv", "b-split">>, <<entry(web, "web", <<>>), named("kit")>>)>>),
     system(
        <<illegible(<<"opt", "b-split">>, "unreadable"),
          manifest(<<"srv", "a-split">>, <<entry(<<>>, "core", <<"us", "Core">>)>>),
          illegible(<<"srv", "b-split", "kit">>, "malformed"),
          manifest(<<"srv", "b-split">>,
                   <<named("kit"), entry(mirror, "mirror", <<"them", "core">>),
                     [entry(copy, "copy", <<>>) EXCEPT !.github = <<"them", "kit">>]>>),
          manifest(<<"srv", "z-split">>, <<named("kit"), named("gone")>>)>>, TRUE),
     system(
        <<kit_manifest, manifest(<<"srv", "z-split">>, <<named("kit")>>),
          manifest(<<"srv", "z-split", "tools">>, <<named("kit")>>)>>, FALSE),
     system(
        <<manifest(<<"srv", "a-split">>,
                   <<named("core"), entry(mirror, "mirror", <<>>),
                     entry(mirror, "mirror", <<"them", "core">>)>>)>>, TRUE),
     system(
        <<kit_manifest, illegible(<<"srv", "z-split">>, "unreadable")>>, TRUE)}

MCUnlistable == {{}, {web}}

\* The checkouts beside the first three hold what web holds.
files(in_gen, in_core, in_web, in_ops) ==
    <<core, 1>> :> in_gen @@ <<core, 2>> :> in_core @@ <<ops, 1>> :> in_ops
    @@ [f \in {<<c, 1>> : c \in {web, mirror, copy, other}} |-> in_web]

MCInitialDisks ==
    {files(<<fetch, store>>, <<fetch, store, reply>>, <<fetch, blank, store, reply>>,
           <<reply, fetch>>),
     files(<<fetch, store>>, <<fetch, store, reply>>, <<fetch, blank, store>>,
           <<store, reply>>),
     files(<<reply>>, <<fetch, store, fetch, store>>, <<store, fetch, store>>,
           Binary)}

MCRevisions == {<<fetch, store, store>>}
=============================================================================
