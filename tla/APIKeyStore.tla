---------------------------- MODULE APIKeyStore -----------------------------
(***************************************************************************)
(* internal/auth/auth.go: the table of API keys.  GetKey looks a key up    *)
(* under the read lock, gives that lock up, and writes its copy of the     *)
(* entry back, with a new LastUsed, under the write lock; AddKey and       *)
(* DeleteKey may run in between.                                           *)
(*                                                                         *)
(* Each critical section is one step: the read lock that GetKey takes      *)
(* again at its end, for the deferred release, reads nothing.  LastUsed is *)
(* left out, nobody reads it.                                              *)
(***************************************************************************)
CONSTANTS
    Procs,       \* the goroutines that serve requests
    APIKeys,     \* the strings that clients present
    Roles,       \* RoleAdmin, RoleUser, RoleReadOnly
    NoEntry,     \* the key is not in the table
    Configured,  \* cfg.Auth.APIKeys: the entry of each key, or NoEntry
    NoCopy,      \* a goroutine outside GetKey
    Unknown      \* a key whose entry a GetKey under way may still overwrite

Entry == [role : Roles, active : BOOLEAN]
Copy == [key : APIKeys, entry : Entry]

ASSUME StoreAssumption ==
    /\ Configured \in [APIKeys -> Entry \cup {NoEntry}]
    /\ NoEntry \notin Entry
    /\ Unknown \notin Entry \cup {NoEntry}
    /\ NoCopy \notin Copy

VARIABLES
    keys,     \* keys[k]: the table
    copy,     \* copy[p]: what p's GetKey is about to write back
    settled   \* settled[k]: history, what the last change of k left for good

store == <<keys, copy, settled>>

StoreTypeOK ==
    /\ keys \in [APIKeys -> Entry \cup {NoEntry}]
    /\ copy \in [Procs -> Copy \cup {NoCopy}]
    /\ settled \in [APIKeys -> Entry \cup {NoEntry, Unknown}]

\* NewAPIKeyStore
StoreInit ==
    /\ keys = Configured
    /\ copy = [p \in Procs |-> NoCopy]
    /\ settled = Configured

\* The entries of k that are about to be written back.
InHand(k) ==
    {copy[p].entry : p \in {q \in Procs : copy[q] # NoCopy /\ copy[q].key = k}}

\* A change of k's entry.  It is for good unless a GetKey has read another one.
Put(k, entry) ==
    /\ keys' = [keys EXCEPT ![k] = entry]
    /\ settled' = [settled EXCEPT ![k] =
                      IF InHand(k) \subseteq {entry} THEN entry ELSE Unknown]
    /\ UNCHANGED copy

\* Mutant of AddKey: a key that is in the table keeps its entry.
AddMissing(k, entry) ==
    IF keys[k] = NoEntry
    THEN Put(k, entry)
    ELSE settled' = [settled EXCEPT ![k] = entry] /\ UNCHANGED <<keys, copy>>

AddKey(k, entry) == entry \in Entry /\ Put(k, entry)

DeleteKey(k) == Put(k, NoEntry)

Active(entry) == entry # NoEntry /\ entry.active

\* Mutant of Find: an inactive key is found as well.
FindInactive(p, k) ==
    /\ keys[k] # NoEntry
    /\ copy' = [copy EXCEPT ![p] = [key |-> k, entry |-> keys[k]]]
    /\ UNCHANGED <<keys, settled>>

\* GetKey's first critical section, for a key that is active.
Find(p, k) ==
    /\ Active(keys[k])
    /\ copy' = [copy EXCEPT ![p] = [key |-> k, entry |-> keys[k]]]
    /\ UNCHANGED <<keys, settled>>

\* GetKey's second critical section.
WriteBack(p) ==
    /\ copy[p] # NoCopy
    /\ keys' = [keys EXCEPT ![copy[p].key] = copy[p].entry]
    /\ copy' = [copy EXCEPT ![p] = NoCopy]
    /\ UNCHANGED settled

\* An entry that was set while no GetKey held another one stays until the next
\* change of the key: in particular a deleted key does not come back.
Settled ==
    \A k \in APIKeys : settled[k] # Unknown =>
        keys[k] = settled[k] /\ InHand(k) \subseteq {settled[k]}
=============================================================================
