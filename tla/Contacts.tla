------------------------------ MODULE Contacts ------------------------------
(***************************************************************************)
(* The contact list of a linked account: syncStorageContacts() of          *)
(* daemon/main.cpp fetches the phone's list (daemon/StorageServiceSync.cpp)*)
(* and saves it contact by contact (Storage::saveSyncedContact()), on the  *)
(* main thread periodically and on the dispatch worker when the phone sent *)
(* a new key; composed with Migration, because gendb may open, and         *)
(* migrate, the database while the daemon writes to it.                    *)
(*                                                                         *)
(* External: the phone's list, in which a number and an ACI occur once,    *)
(* and the key that decrypts it.  What a contact holds besides its two     *)
(* identifiers is left out.                                                *)
(***************************************************************************)
EXTENDS Migration

CONSTANTS
    Daemon,        \* which of Openers is the daemon
    PhoneLists     \* the lists the phone may have

ASSUME ContactsAssumption ==
    /\ Daemon \in Openers
    /\ PhoneLists \subseteq SUBSET Contacts
    /\ \A list \in PhoneLists : \A r, s \in list : Clash(r, s) => r = s

Threads == {"main", "worker"}

VARIABLES
    phone,         \* the list at the storage service
    asked,         \* a sync is in the dispatch queue
    pc,            \* where each thread is in syncStorageContacts()
    todo,          \* the contacts it has fetched and not tried yet
    contact,       \* the one it is saving
    existingId     \* the row that one was found in, 0 for none

syncVars == <<pc, todo, contact, existingId>>
vars == <<migVars, phone, asked, syncVars>>

Everywhere(x) == [t \in Threads |-> x]

Init ==
    /\ MigrationInit
    /\ phone \in PhoneLists
    /\ asked = FALSE
    /\ pc = Everywhere("idle")
    /\ todo = Everywhere({})
    /\ contact = Everywhere(Unset)
    /\ existingId = Everywhere(0)

-----------------------------------------------------------------------------
(* The phone                                                               *)

PhoneChanges ==
    /\ phone' \in PhoneLists \ {phone}
    /\ UNCHANGED <<migVars, asked, syncVars>>

\* onPush(): SyncMessage.Keys brings the key; a sync goes in the queue.
KeysMessage ==
    /\ opc[Daemon] = "open"
    /\ ~asked
    /\ asked' = TRUE
    /\ UNCHANGED <<migVars, phone, syncVars>>

-----------------------------------------------------------------------------
(* syncStorageContacts()                                                   *)

\* fetchStorageContacts(): the records that could be decrypted and parsed.
Fetched(t, list) ==
    /\ pc[t] = "idle"
    /\ list \subseteq phone
    /\ pc' = [pc EXCEPT ![t] = "next"]
    /\ todo' = [todo EXCEPT ![t] = list]
    /\ UNCHANGED <<migVars, phone, contact, existingId>>

\* setupAccount(), or the main loop after storageSyncIntervalSec.  A sync
\* that has no key, whose key does not decrypt the manifest, or whose requests
\* fail changes nothing.
SyncMain(list) ==
    /\ opc[Daemon] = "open"
    /\ Fetched("main", list)
    /\ UNCHANGED asked

SyncWorker(list) ==
    /\ asked
    /\ asked' = FALSE
    /\ Fetched("worker", list)

SyncWorkerThrows ==
    /\ asked
    /\ pc["worker"] = "idle"
    /\ asked' = FALSE
    /\ UNCHANGED <<migVars, phone, syncVars>>

-----------------------------------------------------------------------------
(* saveSyncedContact()                                                     *)

RowsWith(field, value) ==
    {i \in DOMAIN table : value /= Unset /\ table[i][field] = value}

\* The row with the contact's number, else the one with its ACI, else none.
Matches(c) ==
    LET byNumber == RowsWith("num", c.num)
        byAci == RowsWith("aci", c.aci) IN
    CASE byNumber /= {} -> byNumber
      [] byNumber = {} /\ byAci /= {} -> byAci
      [] OTHER -> {0}

Becomes(t, place, list, c, id) ==
    /\ pc' = [pc EXCEPT ![t] = place]
    /\ todo' = [todo EXCEPT ![t] = list]
    /\ contact' = [contact EXCEPT ![t] = c]
    /\ existingId' = [existingId EXCEPT ![t] = id]

\* The loop takes the next contact, in any order, and looks for it, both
\* SELECTs in one step.  Without the table they throw: the contact is
\* skipped, here and in Save, and the loop goes on.
Find(t) ==
    /\ pc[t] = "next"
    /\ \E c \in todo[t] :
         IF shape = "new"
         THEN \E i \in Matches(c) : Becomes(t, "save", todo[t] \ {c}, c, i)
         ELSE Becomes(t, "next", todo[t] \ {c}, Unset, 0)
    /\ UNCHANGED <<migVars, phone, asked>>

SyncDone(t) ==
    /\ pc[t] = "next"
    /\ todo[t] = {}
    /\ Becomes(t, "idle", {}, Unset, 0)
    /\ UNCHANGED <<migVars, phone, asked>>

\* UPDATE of the row with that id, if there is one, or INSERT.
Written(t) ==
    IF existingId[t] = 0 THEN Append(table, contact[t])
    ELSE [i \in DOMAIN table |->
            IF i = existingId[t] THEN contact[t] ELSE table[i]]

\* Plausible bug: one contact that cannot be saved ends the whole sync.
SaveAborts(t) ==
    /\ pc[t] = "save"
    /\ Len(Written(t)) <= MaxRows
    /\ IF shape = "new" /\ (index = "table" => Unique(Written(t)))
       THEN /\ table' = Written(t)
            /\ torn' = (torn \/ Wedged(Written(t)))
            /\ Becomes(t, "next", todo[t], Unset, 0)
       ELSE /\ Becomes(t, "idle", {}, Unset, 0)
            /\ UNCHANGED <<table, torn>>
    /\ UNCHANGED <<shape, aside, index, column, opc, kills, phone, asked>>

\* A statement the unique indexes refuse changes nothing.
Save(t) ==
    /\ pc[t] = "save"
    /\ Len(Written(t)) <= MaxRows
    /\ IF shape = "new" /\ (index = "table" => Unique(Written(t)))
       THEN table' = Written(t) /\ torn' = (torn \/ Wedged(Written(t)))
       ELSE UNCHANGED <<table, torn>>
    /\ Becomes(t, "next", todo[t], Unset, 0)
    /\ UNCHANGED <<shape, aside, index, column, opc, kills, phone, asked>>

Sync(t) == Find(t) \/ Save(t) \/ SyncDone(t)

-----------------------------------------------------------------------------
\* A process that ends takes its threads and its queue with it.
Ends(o) ==
    /\ Close(o) \/ Kill(o)
    /\ IF o = Daemon
       THEN /\ pc' = Everywhere("idle") /\ todo' = Everywhere({})
            /\ contact' = Everywhere(Unset) /\ existingId' = Everywhere(0)
            /\ asked' = FALSE
       ELSE UNCHANGED <<syncVars, asked>>
    /\ UNCHANGED <<phone>>

Opening(o) == OpenStep(o) /\ UNCHANGED <<phone, asked, syncVars>>

\* Nothing is claimed of a torn database: the model ends there.
Next ==
    \/ /\ ~torn
       /\ \/ \E o \in Openers : Opening(o) \/ Ends(o)
          \/ PhoneChanges \/ KeysMessage
          \/ \E list \in SUBSET phone : SyncMain(list) \/ SyncWorker(list)
          \/ SyncWorkerThrows
          \/ \E t \in Threads : Sync(t)
    \/ torn /\ UNCHANGED vars

Spec == Init /\ [][Next]_vars

\* A process goes on, and opens the database again; and not every periodic
\* sync fails, or misses a record.
FairSpec ==
    /\ Spec
    /\ \A o \in Openers : WF_vars(Opening(o))
    /\ WF_vars(SyncWorkerThrows)
    /\ \A t \in Threads : WF_vars(Sync(t))
    /\ SF_vars(SyncMain(phone))

-----------------------------------------------------------------------------
(* Correctness                                                             *)

\* The variables stay in their domains.
TypeOK ==
    /\ MigrationTypeOK
    /\ phone \in PhoneLists
    /\ asked \in BOOLEAN
    /\ pc \in [Threads -> {"idle", "next", "save"}]
    /\ todo \in [Threads -> SUBSET Contacts]
    /\ contact \in [Threads -> Contacts \cup {Unset}]
    /\ existingId \in [Threads -> 0..MaxRows]

\* The number is in one row and the ACI in another: neither UPDATE nor INSERT
\* can bring the two together.
Blocked(c) ==
    \E i \in RowsWith("num", c.num), j \in RowsWith("aci", c.aci) : i /= j

\* "One bad row ... shouldn't lose every contact after it in this batch"
\* (main.cpp:417-421), and "a contact added/changed on the real primary device
\* afterward would never be picked up" (Config.h:86-90) without the periodic
\* sync: a contact that stays in the phone's list is cached as it is there
\* again and again once the daemon stays up, whatever other contacts, other
\* threads and gendb do, unless the two identifiers are in two rows or the
\* migration was left half way.
ContactsArrive ==
    \A c \in UNION PhoneLists :
      <>[](c \in phone /\ opc[Daemon] = "open") =>
        []<>(c \in ToSet(table) \/ Blocked(c) \/ torn)
=============================================================================
