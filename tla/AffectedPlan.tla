----------------------------- MODULE AffectedPlan -----------------------------
(***************************************************************************)
(* The affected-package planner of jeryu-rustjet: what one changed path does *)
(* to the plan (classifier/mod.rs), and the plan made of all of them          *)
(* (classifier/derive.rs, sccache.rs).                                       *)
(***************************************************************************)
EXTENDS Workspace

CONSTANTS
    MarkdownNames,  \* the file names that end in .md, .markdown or .rst
    TestNames       \* the file names that end in _test.rs or _tests.rs

ASSUME MarkdownHasAName == "." \notin MarkdownNames

\* The whole workspace, where a command names no package.
AllPackages == "--workspace"

TrustTiers == {"ReleaseHermetic", "ProtectedInternal", "InternalBranch",
               "AgentAuthored", "ForkPullRequest", "PublicUntrusted"}

-----------------------------------------------------------------------------
(* Path classes.  Letter case is left out.                                  *)

is_markdown(path) ==
    \/ path # <<>> /\ Last(path) \in MarkdownNames
    \/ Len(path) > 1 /\ path[1] = "docs"

\* A crypto directory counts below another one only, a security directory
\* anywhere.
is_security_sensitive(path) ==
    \/ \E i \in 1 .. Len(path) - 1 : path[i] = "security" \/ (path[i] = "crypto" /\ i > 1)
    \/ Len(path) > 1 /\ path[1] \in {".github", "agent"}
    \/ Len(path) > 2 /\ IsPrefix(<<"ops", "ci">>, path)

is_test_path(inside) ==
    \/ \E i \in 1 .. Len(inside) - 1 : inside[i] = "tests"
    \/ inside # <<>> /\ Last(inside) \in TestNames

is_native(inside) ==
    \/ Len(inside) > 1 /\ inside[1] = "native"
    \/ Len(inside) > 2 /\ IsPrefix(<<"vendor", "native">>, inside)

-----------------------------------------------------------------------------
(* What a path does to the plan: the packages it marks, the reason it marks   *)
(* them with, and whether the plan fails closed.                             *)

impact(packages, reason, closed) ==
    [packages |-> packages, reason |-> reason, closed |-> closed]

with_reverse(packages, k) == {k} \cup transitive_reverse_dependencies_of(packages, k)
with_direct(packages, k) == {k} \cup direct_reverse_dependencies_of(packages, k)

\* A path inside a package.
classify_inside(packages, disk, k, inside) ==
    LET wide(reason) == impact(with_reverse(packages, k), reason, FALSE)
    IN  IF inside = <<"Cargo.toml">> THEN wide("ManifestChange")
        ELSE IF inside = <<"build.rs">> THEN wide("BuildScriptChange")
        ELSE IF is_native(inside) THEN wide("NativeDependencyChange")
        ELSE IF packages[k].is_proc_macro /\ is_rust(inside) THEN wide("ProcMacroChange")
        ELSE IF is_test_path(inside) THEN impact({k}, "TestOnlyChange", FALSE)
        ELSE IF detect(disk, packages[k], inside) THEN wide("PublicApiChange")
        ELSE IF is_rust(inside)
             THEN impact(with_direct(packages, k), "PrivateImplementationChange", FALSE)
        ELSE impact({k}, "PrivateImplementationChange", FALSE)

classify(packages, disk, path) ==
    LET k == package_for_path(packages, path)
    IN  IF path = <<"Cargo.lock">>
        THEN impact(DOMAIN packages, "CargoLockChange", FALSE)
        ELSE IF is_security_sensitive(path)
             THEN impact(DOMAIN packages, "SecuritySensitiveChange", TRUE)
        ELSE IF is_markdown(path) THEN impact({}, "DocumentationOnly", FALSE)
        ELSE IF k = NoPackage
             THEN impact(DOMAIN packages, "UnknownPathFailClosed", TRUE)
        ELSE classify_inside(packages, disk, k, path_inside_package(packages[k], path))

\* The marks of the paths seen so far; without a path everything is marked.
no_marks == [packages |-> {}, reasons |-> {}, closed |-> FALSE]
marks_of_nothing(packages) ==
    [packages |-> DOMAIN packages, reasons |-> {"UnknownPathFailClosed"}, closed |-> TRUE]

add(marks, change) ==
    [packages |-> marks.packages \cup change.packages,
     reasons |-> marks.reasons \cup {change.reason},
     closed |-> marks.closed \/ change.closed]

-----------------------------------------------------------------------------
(* The plan.                                                               *)

proof_lanes_for(reasons) ==
    {"changed-fast"}
        \cup (IF "PublicApiChange" \in reasons THEN {"public-api"} ELSE {})
        \cup (IF reasons \cap {"BuildScriptChange", "ProcMacroChange", "CargoLockChange",
                               "NativeDependencyChange", "ManifestChange",
                               "UnknownPathFailClosed"} # {}
              THEN {"invalidation"} ELSE {})
        \cup (IF "SecuritySensitiveChange" \in reasons THEN {"security"} ELSE {})

runner_class_for(options, reasons, closed) ==
    IF options.release_lane \/ options.trust_tier = "ReleaseHermetic" THEN "ReleaseHermetic"
    ELSE IF options.trust_tier \in {"ForkPullRequest", "PublicUntrusted"} THEN "MicroVmRust"
    ELSE IF options.trust_tier = "AgentAuthored" THEN "AgentGuard"
    ELSE IF \/ closed
            \/ reasons \cap {"SecuritySensitiveChange", "CargoLockChange",
                             "BuildScriptChange", "NativeDependencyChange"} # {}
         THEN "NativeRustClean"
    ELSE "NativeRustHot"

\* SccachePolicy::default() lets agents write to the quarantine.
sccache_mode(options) ==
    IF options.release_lane \/ options.trust_tier = "ReleaseHermetic" THEN "disabled"
    ELSE IF options.trust_tier \in {"ProtectedInternal", "InternalBranch"}
         THEN "read-write-project"
    ELSE IF options.trust_tier = "AgentAuthored" THEN "quarantine-write"
    ELSE "read-only"

\* The lanes of the commands, and the packages the test command names.
commands_for(packages, reasons) ==
    [lanes |-> {"check", "nextest"}
                   \cup (IF "PublicApiChange" \in reasons THEN {"semver"} ELSE {})
                   \cup (IF "CargoLockChange" \in reasons THEN {"dependency-audit"} ELSE {}),
     tests |-> IF packages = {} THEN {AllPackages} ELSE packages]

docs_only_plan(options) ==
    [packages |-> {}, reasons |-> {"DocumentationOnly"}, proof_lanes |-> {"docs"},
     commands |-> [lanes |-> {"docs"}, tests |-> {}],
     runner_class |-> "NativeRustHot", sccache_mode |-> sccache_mode(options),
     fail_closed |-> FALSE]

plan_of(marks, options) ==
    IF marks.packages = {} /\ "DocumentationOnly" \in marks.reasons
    THEN docs_only_plan(options)
    ELSE [packages |-> marks.packages, reasons |-> marks.reasons,
          proof_lanes |-> proof_lanes_for(marks.reasons),
          commands |-> commands_for(marks.packages, marks.reasons),
          runner_class |-> runner_class_for(options, marks.reasons, marks.closed),
          sccache_mode |-> sccache_mode(options),
          fail_closed |-> marks.closed]

=============================================================================
