--------------------------- MODULE MCPlanningRound ---------------------------
(***************************************************************************)
(* Three checkouts.  In the first, app uses api, api uses core, the root is no *)
(* package, and app also names itself in its dev-dependencies.  In the second *)
(* the root is a package that uses core, and core, in the directory c, a      *)
(* macro crate inside it.  In the third the root package has a name after     *)
(* core's, and what is core's counts as the root's.                         *)
(***************************************************************************)
EXTENDS PlanningRound

root == <<"Cargo.toml">>
lock == <<"Cargo.lock">>
readme == <<"docs", "plan.md">>
tool == <<"tools", "retry.txt">>
core == <<"c">>
api == <<"crates", "api">>
app == <<"app">>
macros == core \o <<"macros">>
util == core \o <<"src", "util.rs">>
core_test == core \o <<"tests", "retry.rs">>
api_lib == api \o <<"src", "lib.rs">>
app_main == app \o <<"src", "main.rs">>
root_lib == <<"src", "lib.rs">>
macros_lib == macros \o <<"src", "lib.rs">>

MCPathOrder ==
    <<AgentsFile, lock, root, OwnerMap, GeneratedZones, ProofLanes, TestMap, manifest_of(app),
      app_main, manifest_of(core), manifest_of(macros), macros_lib, util, core_test,
      manifest_of(api), api_lib, readme, root_lib, tool>>

MCRustNames == {"util.rs", "retry.rs", "lib.rs", "main.rs"}
MCNameOrder == <<"api", "app", "base", "core", "macros", "root">>

plain(name) == [key |-> name, package |-> name]
renamed(name) == [key |-> "the_" \o name, package |-> name]

member(name, deps, dev, macro) ==
    [members |-> NoMembers, package |-> name, proc_macro |-> macro, dependencies |-> deps,
     dev_dependencies |-> dev, build_dependencies |-> {}]
workspace(members, name, deps) ==
    [members |-> members, package |-> name, proc_macro |-> FALSE, dependencies |-> deps,
     dev_dependencies |-> {}, build_dependencies |-> {}]

rule(path, form, len, value) == [path |-> path, form |-> form, len |-> len, value |-> value]
tested(lane, command) == [lane |-> lane, command |-> command]

owners == {rule(<<"crates">>, "dir", 7, "core_team"), rule(api, "glob", 13, "api_team"),
           rule(core, "glob", 4, "core_team"), rule(<<"agent">>, "dir", 6, "ops")}
tests == {rule(core, "dir", 2, tested("check", <<"just check">>)),
          rule(<<"agent">>, "exact", 5, tested("check", <<"just score">>)),
          rule(app, "dir", 4, tested("app", <<"just app">>))}
zones == {rule(util, "exact", 13, FALSE), rule(<<"app">>, "glob", 6, TRUE)}
lanes == [l \in {"check"} |-> [required |-> {}, blocks_merge |-> TRUE]]

on_disk(contents) == contents @@ [p \in ToSet(MCPathOrder) |-> Gone]

virtual ==
    on_disk(root :> workspace(<<core, api, app>>, NoPackage, {})
            @@ manifest_of(core) :> member("core", {}, {}, FALSE)
            @@ manifest_of(api) :> member("api", {plain("core")}, {}, FALSE)
            @@ manifest_of(app) :> member("app", {plain("api"), renamed("core")},
                                          {plain("app")}, FALSE)
            @@ util :> {"retry"} @@ core_test :> {} @@ api_lib :> {"serve"}
            @@ app_main :> {} @@ lock :> {} @@ readme :> {} @@ tool :> {}
            @@ OwnerMap :> owners @@ TestMap :> tests @@ GeneratedZones :> zones
            @@ ProofLanes :> lanes @@ AgentsFile :> {})

rooted ==
    on_disk(root :> workspace(<< <<>>, core, macros>>, "base", {plain("core")})
            @@ manifest_of(core) :> member("core", {plain("macros")}, {}, FALSE)
            @@ manifest_of(macros) :> member("macros", {}, {}, TRUE)
            @@ root_lib :> {"run"} @@ util :> {"retry"} @@ macros_lib :> {"derive"}
            @@ lock :> {} @@ tool :> {} @@ TestMap :> tests)

lettered ==
    on_disk(root :> workspace(<< <<>>, core>>, "root", {plain("core")})
            @@ manifest_of(core) :> member("core", {}, {}, FALSE)
            @@ root_lib :> {"run"} @@ util :> {"retry"})

MCInitialDisks == {virtual, rooted, lettered}

revision(path, to) == [path |-> path, to |-> to]

MCRevisions ==
    {revision(util, {"retry", "backoff"}), revision(util, {}), revision(core_test, {"helper"}),
     revision(macros_lib, {"derive", "attr"}), revision(api_lib, {}),
     revision(manifest_of(api), member("api", {}, {}, FALSE)),
     revision(manifest_of(core), Gone),
     revision(tool, {"text"}), revision(readme, {"text"}), revision(lock, {"text"}),
     revision(TestMap, Broken), revision(OwnerMap, {})}

MCLexicalMatches == {core_test, tool, util}
MCOptions == {[trust_tier |-> "InternalBranch", release_lane |-> FALSE]}
=============================================================================
