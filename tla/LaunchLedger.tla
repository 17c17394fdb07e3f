---------------------------- MODULE LaunchLedger ----------------------------
(***************************************************************************)
(* MemoryLedger: the append-only launch ledger.  One Vec behind one mutex, *)
(* so an append is one step.  Components that write to it instantiate this *)
(* module with the entries they write.                                     *)
(***************************************************************************)
EXTENDS Naturals, Sequences

CONSTANT Entry   \* records with at least the fields id and algo

VARIABLE entries

LedgerTypeOK == entries \in Seq(Entry)

EntryIds == {entries[i].id : i \in DOMAIN entries}

\* validate_signature(): anything but ed25519 is an error to the caller.
Refused(entry) == entry.algo # "ed25519"

LedgerInit == entries = <<>>

\* A bug of append(): INSERT OR REPLACE.
AppendReplacing(entry) ==
  IF Refused(entry)
    THEN UNCHANGED entries
    ELSE IF entry.id \in EntryIds
      THEN entries' = [i \in DOMAIN entries |->
                         IF entries[i].id = entry.id THEN entry ELSE entries[i]]
      ELSE entries' = Append(entries, entry)

\* append(): an error leaves the ledger alone, and so does an id it has.
AppendEntry(entry) ==
  IF Refused(entry) \/ entry.id \in EntryIds
    THEN UNCHANGED entries
    ELSE entries' = Append(entries, entry)

LedgerNext == \E entry \in Entry : AppendEntry(entry)

LedgerSpec == LedgerInit /\ [][LedgerNext]_entries

-----------------------------------------------------------------------------
(* Properties *)

\* The audit trail names every event once, and every entry of it is signed.
OncePerId ==
  /\ \A i, j \in DOMAIN entries : entries[i].id = entries[j].id => i = j
  /\ \A i \in DOMAIN entries : ~Refused(entries[i])

\* No entry is changed, moved or taken away.
Kept == \A i \in DOMAIN entries : i \in DOMAIN entries' /\ entries'[i] = entries[i]

\* The ledger only grows, at its end.
AppendOnly == [][Kept]_entries
=============================================================================
