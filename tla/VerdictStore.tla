---------------------------- MODULE VerdictStore ----------------------------
(***************************************************************************)
(* MemoryVerdictStore: the live-verdict projection the daemon polls.  Its  *)
(* state is one Vec of rows behind one mutex, so each operation is one     *)
(* step.  Definitions carry the prefix Store where modules that extend     *)
(* this one have their own Init, Next and Spec.                            *)
(***************************************************************************)
EXTENDS Verdicts, Sequences

CONSTANTS
  None,       \* Rust's None, for superseded_at
  NoVerdict   \* what load_latest answers for a pull request with no live row

ASSUME NoneAssumption == None \notin Nat /\ NoVerdict \notin Verdict

VARIABLE rows   \* Vec<Row>, in insertion order

Row == [body : Verdict, superseded_at : Times \union {None}]

RowsTypeOK == rows \in Seq(Row)

Live(i) == rows[i].superseded_at = None

SavedIds == {rows[i].body.id : i \in DOMAIN rows}

LiveRows(pr) == {i \in DOMAIN rows : Live(i) /\ rows[i].body.pr = pr}

-----------------------------------------------------------------------------
(* Operations *)

StoreInit == rows = <<>>

\* A bug of save(): the rows it replaces stay live.
SaveKeepingLive(v) ==
  IF v.id \in SavedIds
    THEN UNCHANGED rows
    ELSE rows' = Append(rows, [body |-> v, superseded_at |-> None])

\* A bug of save(): it does not ask whether the id is known.
SaveAlways(v) ==
  rows' = Append([i \in DOMAIN rows |->
                    IF i \in LiveRows(v.pr)
                      THEN [rows[i] EXCEPT !.superseded_at = v.created]
                      ELSE rows[i]],
                 [body |-> v, superseded_at |-> None])

\* save(): nothing when the id is known; otherwise every live row of the same
\* pull request is stamped with the new verdict's creation time, whichever of
\* the two was judged later, and the new row goes at the end.
Save(v) ==
  IF v.id \in SavedIds
    THEN UNCHANGED rows
    ELSE rows' = Append([i \in DOMAIN rows |->
                           IF i \in LiveRows(v.pr)
                             THEN [rows[i] EXCEPT !.superseded_at = v.created]
                             ELSE rows[i]],
                        [body |-> v, superseded_at |-> None])

\* A bug of supersede(): a superseded row is stamped anew.
SupersedeAgain(id, now) ==
  rows' = [i \in DOMAIN rows |->
             IF rows[i].body.id = id
               THEN [rows[i] EXCEPT !.superseded_at = now]
               ELSE rows[i]]

\* supersede(): stamps the row of that id, unless it is already superseded or
\* unknown.
SupersedeRow(id, now) ==
  rows' = [i \in DOMAIN rows |->
             IF rows[i].body.id = id /\ Live(i)
               THEN [rows[i] EXCEPT !.superseded_at = now]
               ELSE rows[i]]

\* load_latest(): max_by(created_at) over the live rows of the pull request;
\* max_by keeps the last of equal elements.
LoadLatest(pr) ==
  IF LiveRows(pr) = {}
    THEN NoVerdict
    ELSE LET latest == CHOOSE i \in LiveRows(pr) : \A j \in LiveRows(pr) :
                         \/ rows[j].body.created < rows[i].body.created
                         \/ rows[j].body.created = rows[i].body.created /\ j <= i
         IN rows[latest].body

\* list_active(): live, not yet expired, not a rejection (sorted by creation
\* time for the caller; the callers treat the answer as a set).
ListActive(now) ==
  {rows[i].body : i \in {j \in DOMAIN rows :
                           /\ Live(j)
                           /\ rows[j].body.expires > now
                           /\ rows[j].body.decision # "Reject"}}

-----------------------------------------------------------------------------
(* The store on its own, called with any verdict and any id *)

StoreNext ==
  \/ \E pr \in PRs, head \in Heads, policy \in Policies, decision \in GateDecisions, now \in Times :
       Save(MintVerdict(pr, head, policy, decision, now))
  \/ \E id \in VerdictId, now \in Times : SupersedeRow(id, now)

StoreSpec == StoreInit /\ [][StoreNext]_rows

-----------------------------------------------------------------------------
(* Properties *)

\* save() never lets one verdict id own two rows.
UniqueIds ==
  \A i, j \in DOMAIN rows : rows[i].body.id = rows[j].body.id => i = j

\* A pull request has at most one live row, whatever order verdicts are saved
\* and withdrawn in: list_active cannot hand the daemon two verdicts for it.
OneLiveRow ==
  \A i, j \in DOMAIN rows :
    Live(i) /\ Live(j) /\ rows[i].body.pr = rows[j].body.pr => i = j

\* Rows are only added; a row's verdict is never rewritten; and a superseded
\* row stays superseded with the stamp it first got, so that no later save or
\* supersede brings a replaced verdict back.
RowsAreForever ==
  [][\A i \in DOMAIN rows :
       /\ i \in DOMAIN rows'
       /\ rows'[i].body = rows[i].body
       /\ ~Live(i) => rows'[i] = rows[i]]_rows

\* The rows implement the register: load_latest is its current verdict, the
\* ids in the Vec are its spent ids, and every operation is one of its steps.
Register == INSTANCE VerdictRegister
              WITH current <- [pr \in PRs |-> LoadLatest(pr)],
                   known <- SavedIds

ImplementsRegister == Register!Spec
=============================================================================
