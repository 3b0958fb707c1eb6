------------------------- MODULE ConfigReloadProofs -------------------------
(***************************************************************************)
(* Proofs about ConfigReload, for any accounts, gendb processes and bounds. *)
(*                                                                         *)
(* VersionStandsForConfig speaks of the accounts that run, but a           *)
(* configuration is read from its row long before setupAccount() puts it   *)
(* to use, and the row may change in between: the inductive invariant says *)
(* the same of the configurations reloadConfig() holds (NotNewer), and     *)
(* that whatever was read came from a row that is still there.             *)
(***************************************************************************)
EXTENDS ConfigReload, TLAPS

\* What was read from the row of a is older than the row, or the same.
NotNewer(a, r) ==
    /\ r.version <= row[a].version
    /\ r.version = row[a].version => r.value = row[a].value

RunningFromRow ==
    \A a \in Names \ unlinked : Runs(a) => Exists(a) /\ NotNewer(a, running[a])

LoadedFromRow ==
    \A a \in Names \ unlinked : a \in loaded => Exists(a) /\ NotNewer(a, config[a])

\* The second loop works on what the first part of reloadConfig() loaded.
AppliesLoaded ==
    /\ daemon = "apply" => todo \subseteq loaded
    /\ daemon = "setup" => todo \subseteq loaded /\ current \in loaded

\* A name without a row has no version either.
EmptyRow == \A a \in Names : ~Exists(a) => row[a].version = 0

FromRows == RunningFromRow /\ LoadedFromRow /\ AppliesLoaded /\ EmptyRow

IInv == TypeOK /\ FromRows

\* NoRow and NoAccount are in their types.
LEMMA EmptyRecords == NoRow \in Rows /\ NoAccount \in Accounts
  BY ReloadAssumption
     DEF NoRow, NoAccount, Rows, Accounts, Ids, Versions, Values

\* The initial state is typed.
LEMMA TypeInit == ASSUME Names /= {} PROVE Init => TypeOK
<1> DEFINE anyone == CHOOSE a \in Names : TRUE
<1>1. anyone \in Names
  OBVIOUS
<1>2. Init => /\ cmd = [e \in Editors |-> [pc |-> "idle", name |-> anyone, row |-> NoRow]]
              /\ current = anyone
  BY DEF Init, Idle
<1>3. 0 \in Ids
  BY ReloadAssumption DEF Ids
<1> HIDE DEF anyone
<1> SUFFICES ASSUME Init PROVE TypeOK
  OBVIOUS
<1>4. /\ row \in [Names -> Rows] /\ config \in [Names -> Accounts]
      /\ running \in [Names -> Accounts] /\ unlinked \subseteq Names
  BY <1>3, EmptyRecords DEF Init
<1>5. cmd \in [Editors -> [pc : {"idle", "loaded", "signal", "linking"},
                           name : Names, row : Rows]]
  BY <1>1, <1>2, EmptyRecords
<1> QED
  BY <1>1, <1>2, <1>3, <1>4, <1>5 DEF Init, TypeOK

\* saveAccount() leaves a row.
LEMMA SaveAccountType ==
    ASSUME TypeOK, NEW a \in Names, NEW i \in Ids, SaveAccount(a, i)
    PROVE  row' \in [Names -> Rows]
<1>1. row \in [Names -> Rows]
  BY DEF TypeOK
<1>2. ASSUME NEW r \in Rows PROVE [r EXCEPT !.id = i] \in Rows
  BY DEF Rows
<1>3. [id |-> i, enabled |-> TRUE, version |-> 0, value |-> Default] \in Rows
  BY ReloadAssumption DEF Rows, Values, Versions
<1>4. CASE Exists(a)
  <2>1. row' = [row EXCEPT ![a] = [row[a] EXCEPT !.id = i]]
    BY <1>1, <1>4 DEF SaveAccount
  <2> QED
    BY <1>1, <1>2, <2>1
<1>5. CASE ~Exists(a)
  <2>1. row' = [row EXCEPT ![a] =
                    [id |-> i, enabled |-> TRUE, version |-> 0, value |-> Default]]
    BY <1>1, <1>5 DEF SaveAccount
  <2> QED
    BY <1>1, <1>3, <2>1
<1> QED
  BY <1>4, <1>5

\* So does saveAccountConfig().
LEMMA SaveAccountConfigType ==
    ASSUME row \in [Names -> Rows], NEW a \in Names, NEW v \in Values,
           NEW b \in BOOLEAN, row[a].version < MaxVersion
    PROVE  [row EXCEPT ![a].enabled = b, ![a].value = v, ![a].version = @ + 1]
               \in [Names -> Rows]
<1>1. row[a].version + 1 \in Versions
  BY ReloadAssumption DEF Rows, Versions
<1>2. ASSUME NEW r \in Rows, NEW w \in Versions
      PROVE  [r EXCEPT !.enabled = b, !.value = v, !.version = w] \in Rows
  BY DEF Rows
<1>3. [row[a] EXCEPT !.enabled = b, !.value = v, !.version = row[a].version + 1] \in Rows
  BY <1>1, <1>2
<1> QED
  BY <1>3

\* gendb's commands keep the variables in their domains.
LEMMA OperatorType == ASSUME TypeOK, Operator PROVE TypeOK'
<1> USE ReloadAssumption, EmptyRecords DEF TypeOK
<1>1. ASSUME NEW e \in Editors, NEW a \in Names, CmdLoad(e, a) PROVE TypeOK'
  BY <1>1 DEF CmdLoad, dbVars, daemonVars, loadVars
<1>2. ASSUME NEW e \in Editors, NEW a \in Names, CmdLink(e, a) PROVE TypeOK'
  BY <1>2 DEF CmdLink, dbVars, daemonVars, loadVars
<1>3. ASSUME NEW e \in Editors, NEW a \in Names, CmdUnlink(e, a) PROVE TypeOK'
  BY <1>3 DEF CmdUnlink, daemonVars, loadVars, Ids
<1>4. ASSUME NEW e \in Editors, NEW v \in Values, NEW b \in BOOLEAN,
             CmdSave(e, [cmd[e].row EXCEPT !.value = v, !.enabled = b])
      PROVE  TypeOK'
  <2> DEFINE a == cmd[e].name
             r == [cmd[e].row EXCEPT !.value = v, !.enabled = b]
  <2>1. a \in Names /\ cmd[e].row \in Rows
    OBVIOUS
  <2>2. r.value = v /\ r.enabled = b
    BY <2>1 DEF Rows
  <2>3. CASE Exists(a)
    <3>3. /\ row[a].version < MaxVersion
          /\ row' = [row EXCEPT ![a].enabled = b, ![a].value = v, ![a].version = @ + 1]
      BY <1>4, <2>2, <2>3 DEF CmdSave, SaveAccountConfig
    <3>1. row' \in [Names -> Rows]
      BY <2>1, <3>3, SaveAccountConfigType
    <3>2. cmd' = [cmd EXCEPT ![e].pc = "signal"]
      BY <1>4, <2>3 DEF CmdSave
    <3> QED
      BY <1>4, <3>1, <3>2 DEF CmdSave, daemonVars, loadVars
  <2>4. CASE ~Exists(a)
    BY <1>4, <2>1, <2>4 DEF CmdSave, Idle, daemonVars, loadVars
  <2> QED
    BY <2>3, <2>4
<1>5. ASSUME NEW e \in Editors, CmdSignal(e) PROVE TypeOK'
  BY <1>5 DEF CmdSignal, Idle, dbVars, daemonVars, loadVars
<1>6. ASSUME NEW e \in Editors, CmdLinked(e) PROVE TypeOK'
  <2>1. cmd[e].name \in Names /\ nLinks + 1 \in Ids
    BY <1>6 DEF CmdLinked, Ids
  <2>2. row' \in [Names -> Rows]
    BY <1>6, <2>1, SaveAccountType DEF CmdLinked
  <2> QED
    BY <1>6, <2>1, <2>2 DEF CmdLinked, Idle, daemonVars, loadVars
<1>7. ASSUME NEW e \in Editors, CmdLinkFails(e) PROVE TypeOK'
  BY <1>7 DEF CmdLinkFails, Idle, dbVars, daemonVars, loadVars
<1> QED
  BY <1>1, <1>2, <1>3, <1>4, <1>5, <1>6, <1>7 DEF Operator, Save

\* reloadConfig() keeps the variables in their domains.
LEMMA ReloadType == ASSUME TypeOK, Reload PROVE TypeOK'
<1> USE ReloadAssumption, EmptyRecords DEF TypeOK, dbVars, loadVars
<1>1. CASE ReloadOnSignal BY <1>1 DEF ReloadOnSignal
<1>2. CASE ReloadOnPoll BY <1>2 DEF ReloadOnPoll
<1>3. CASE LoadList BY <1>3 DEF LoadList
<1>4. CASE LoadFails BY <1>4 DEF LoadFails
<1>5. CASE LoadDone BY <1>5 DEF LoadDone
<1>6. CASE RemoveDone BY <1>6 DEF RemoveDone
<1>7. CASE ApplyDone BY <1>7 DEF ApplyDone
<1>8. CASE SetupSucceeds
  <2>1. [config[current] EXCEPT !.id = row[current].id] \in Accounts
    BY DEF Accounts, Rows
  <2> QED
    BY <1>8, <2>1 DEF SetupSucceeds
<1>9. CASE SetupFails BY <1>9 DEF SetupFails
<1>10. CASE SetupCrashes BY <1>10 DEF SetupCrashes
<1>11. ASSUME NEW a \in Names, LoadRow(a) PROVE TypeOK'
  <2>1. [id |-> 0, version |-> row[a].version, value |-> row[a].value] \in Accounts
    BY DEF Accounts, Rows, Ids
  <2> QED
    BY <1>11, <2>1 DEF LoadRow
<1>12. ASSUME NEW a \in Names, Remove(a) PROVE TypeOK'
  BY <1>12 DEF Remove, TornDown
<1>13. ASSUME NEW a \in Names, Apply(a) PROVE TypeOK'
  <2>1. CASE UNCHANGED <<daemon, current, running>>
    BY <1>13, <2>1 DEF Apply
  <2>2. CASE daemon' = "setup" /\ current' = a /\ TornDown(a)
    BY <1>13, <2>2 DEF Apply, TornDown
  <2> QED
    BY <1>13, <2>1, <2>2 DEF Apply
<1> QED
  BY <1>1, <1>2, <1>3, <1>4, <1>5, <1>6, <1>7, <1>8, <1>9, <1>10, <1>11, <1>12, <1>13
     DEF Reload

\* Every step keeps the variables in their domains.
LEMMA TypeStep == ASSUME TypeOK, [Next]_vars PROVE TypeOK'
<1>1. ASSUME NEW a \in Names, KeysReceived(a) PROVE TypeOK'
  <2>1. running[a].id \in Ids
    BY DEF TypeOK, Accounts
  <2>2. row' \in [Names -> Rows]
    BY <1>1, <2>1, SaveAccountType DEF KeysReceived
  <2> QED
    BY <1>1, <2>2 DEF KeysReceived, TypeOK, daemonVars, loadVars
<1>2. CASE Terminate
  BY <1>2, EmptyRecords DEF Terminate, TypeOK, dbVars, loadVars
<1>3. CASE Restart
  BY <1>3 DEF Restart, TypeOK, dbVars, loadVars
<1>4. CASE UNCHANGED vars
  BY <1>4 DEF vars, TypeOK, dbVars, daemonVars, loadVars
<1> QED
  BY <1>1, <1>2, <1>3, <1>4, OperatorType, ReloadType DEF Next

\* The variables stay in their domains, whatever is linked and unlinked.
THEOREM ReloadTypeOK == ASSUME Names /= {} PROVE Spec => []TypeOK
<1>1. Init => TypeOK
  BY TypeInit
<1>2. TypeOK /\ [Next]_vars => TypeOK'
  BY TypeStep
<1> QED
  BY <1>1, <1>2, PTL DEF Spec

-----------------------------------------------------------------------------
\* What a step may do to the row of a: it stays, and its configuration is
\* the same unless its version grew.
RowMoves(a) ==
    /\ row'[a].version >= row[a].version
    /\ Exists(a) => Exists(a)'
    /\ Exists(a) /\ row'[a].version = row[a].version => row'[a].value = row[a].value
    /\ ~Exists(a)' => row'[a].version = 0

\* saveAccount() of an identity moves the rows as RowMoves() says.
LEMMA SaveAccountMoves ==
    ASSUME TypeOK, EmptyRow, NEW b \in Names, NEW i \in Ids \ {0}, SaveAccount(b, i)
    PROVE  \A a \in Names : RowMoves(a)
<1> SUFFICES ASSUME NEW a \in Names PROVE RowMoves(a)
  OBVIOUS
<1>1. row[a].version \in Int
  BY ReloadAssumption DEF TypeOK, Rows, Versions
<1>2. CASE a /= b
  BY <1>1, <1>2 DEF SaveAccount, TypeOK, RowMoves, EmptyRow, Exists
<1>3. CASE a = b /\ Exists(b)
  <2>1. row'[a] = [row[a] EXCEPT !.id = i]
    BY <1>3 DEF SaveAccount, TypeOK
  <2>2. row'[a].version = row[a].version /\ row'[a].value = row[a].value /\ row'[a].id = i
    BY <2>1 DEF TypeOK, Rows
  <2> QED
    BY <1>1, <1>3, <2>2 DEF RowMoves, Exists
<1>4. CASE a = b /\ ~Exists(b)
  <2>1. row'[a] = [id |-> i, enabled |-> TRUE, version |-> 0, value |-> Default]
    BY <1>4 DEF SaveAccount, TypeOK
  <2> QED
    BY <1>1, <1>4, <2>1 DEF RowMoves, Exists, EmptyRow
<1> QED
  BY <1>2, <1>3, <1>4

\* saveAccountConfig() moves the rows as RowMoves() says.
LEMMA SaveAccountConfigMoves ==
    ASSUME TypeOK, EmptyRow, NEW b \in Names, Exists(b), NEW r, SaveAccountConfig(b, r)
    PROVE  \A a \in Names : RowMoves(a)
<1> SUFFICES ASSUME NEW a \in Names PROVE RowMoves(a)
  OBVIOUS
<1>1. row[a].version \in Int
  BY ReloadAssumption DEF TypeOK, Rows, Versions
<1>2. CASE a /= b
  BY <1>1, <1>2 DEF SaveAccountConfig, TypeOK, RowMoves, EmptyRow, Exists
<1>3. CASE a = b
  <2>1. row'[a].version = row[a].version + 1 /\ row'[a].id = row[a].id
    BY <1>3 DEF SaveAccountConfig, TypeOK, Rows
  <2> QED
    BY <1>1, <1>3, <2>1 DEF RowMoves, Exists
<1> QED
  BY <1>2, <1>3

\* Rows that a step leaves alone move as RowMoves() says.
LEMMA SameRowMoves ==
    ASSUME TypeOK, EmptyRow, UNCHANGED row PROVE \A a \in Names : RowMoves(a)
<1>1. \A a \in Names : row[a].version \in Int
  BY ReloadAssumption DEF TypeOK, Rows, Versions
<1> QED
  BY <1>1 DEF RowMoves, EmptyRow, Exists

\* Every step moves the rows as RowMoves() says, but for those that were
\* unlinked; those it leaves empty have version 0.
LEMMA RowsMove ==
    ASSUME IInv, [Next]_vars
    PROVE  EmptyRow' /\ \A a \in Names \ unlinked' : RowMoves(a)
<1> USE DEF IInv, FromRows
<1>0. ASSUME \A a \in Names : RowMoves(a)
      PROVE  EmptyRow' /\ \A a \in Names \ unlinked' : RowMoves(a)
  BY <1>0 DEF RowMoves, EmptyRow
<1>1. ASSUME NEW e \in Editors, NEW r, CmdSave(e, r) PROVE \A a \in Names : RowMoves(a)
  <2>1. cmd[e].name \in Names
    BY DEF TypeOK
  <2>2. CASE Exists(cmd[e].name)
    BY <1>1, <2>1, <2>2, SaveAccountConfigMoves DEF CmdSave
  <2>3. CASE ~Exists(cmd[e].name)
    BY <1>1, <2>3, SameRowMoves DEF CmdSave
  <2> QED
    BY <2>2, <2>3
<1>2. ASSUME NEW e \in Editors, CmdLinked(e) PROVE \A a \in Names : RowMoves(a)
  <2>1. cmd[e].name \in Names /\ nLinks + 1 \in Ids \ {0}
    BY <1>2, ReloadAssumption DEF CmdLinked, Ids, TypeOK
  <2> QED
    BY <1>2, <2>1, SaveAccountMoves DEF CmdLinked
<1>3. ASSUME NEW b \in Names, KeysReceived(b) PROVE \A a \in Names : RowMoves(a)
  <2>1. running[b].id \in Ids \ {0}
    BY <1>3 DEF KeysReceived, Runs, TypeOK, Accounts
  <2> QED
    BY <1>3, <2>1, SaveAccountMoves DEF KeysReceived
<1>4. CASE UNCHANGED row
  BY <1>0, <1>4, SameRowMoves
<1>5. ASSUME NEW e \in Editors, NEW b \in Names, CmdLoad(e, b) \/ CmdLink(e, b)
      PROVE  UNCHANGED row
  BY <1>5 DEF CmdLoad, CmdLink, dbVars
<1>6. ASSUME NEW e \in Editors, CmdSignal(e) \/ CmdLinkFails(e) PROVE UNCHANGED row
  BY <1>6 DEF CmdSignal, CmdLinkFails, dbVars
<1>7. CASE Reload
  BY <1>4, <1>7 DEF Reload, ReloadOnSignal, ReloadOnPoll, LoadList, LoadFails, LoadDone,
     RemoveDone, ApplyDone, SetupSucceeds, SetupFails, SetupCrashes, LoadRow, Remove,
     Apply, dbVars
<1>8. CASE Terminate \/ Restart
  BY <1>4, <1>8 DEF Terminate, Restart, dbVars
<1>9. CASE UNCHANGED vars
  BY <1>4, <1>9 DEF vars, dbVars
<1>10. ASSUME NEW e \in Editors, NEW b \in Names, CmdUnlink(e, b)
      PROVE  EmptyRow' /\ \A a \in Names \ unlinked' : RowMoves(a)
  <2>1. /\ row' = [row EXCEPT ![b] = NoRow]
        /\ unlinked' = unlinked \cup {b}
    BY <1>10 DEF CmdUnlink
  <2>2. EmptyRow'
    BY <2>1 DEF EmptyRow, NoRow, Exists, TypeOK
  <2>3. ASSUME NEW a \in Names \ unlinked' PROVE RowMoves(a)
    <3>1. a /= b /\ row[a].version \in Int
      BY <2>1, ReloadAssumption DEF TypeOK, Rows, Versions
    <3> QED
      BY <2>1, <3>1 DEF TypeOK, RowMoves, EmptyRow, Exists
  <2> QED
    BY <2>2, <2>3
<1>11. CASE Operator
  BY <1>0, <1>1, <1>2, <1>4, <1>5, <1>6, <1>10, <1>11 DEF Operator, Save
<1> QED
  BY <1>0, <1>3, <1>7, <1>8, <1>9, <1>11 DEF Next

-----------------------------------------------------------------------------
\* What was not newer than its row before a step is not newer after it.
LEMMA NotNewerKept ==
    ASSUME TypeOK, TypeOK', NEW a \in Names, NEW r \in Accounts, RowMoves(a),
           Exists(a), NotNewer(a, r)
    PROVE  Exists(a)' /\ (NotNewer(a, r))'
<1>1. row[a].version \in Int /\ row'[a].version \in Int /\ r.version \in Int
  BY ReloadAssumption DEF TypeOK, Rows, Accounts, Versions
<1> QED
  BY <1>1 DEF RowMoves, NotNewer, Exists

\* A step that leaves the daemon's accounts and configurations alone.
LEMMA DaemonSame ==
    ASSUME IInv, TypeOK', \A a \in Names \ unlinked' : RowMoves(a),
           unlinked \subseteq unlinked', UNCHANGED <<loaded, config, running>>
    PROVE  RunningFromRow' /\ LoadedFromRow'
<1>1. ASSUME NEW a \in Names \ unlinked', Runs(a)' PROVE Exists(a)' /\ (NotNewer(a, running[a]))'
  <2>1. Runs(a) /\ running[a] \in Accounts
    BY <1>1 DEF Runs, IInv, TypeOK
  <2>2. Exists(a)' /\ row'[a].version \in Int
    BY <2>1, NotNewerKept DEF IInv, FromRows, RunningFromRow, TypeOK, Rows, Versions
  <2> QED
    BY <2>1, <2>2, NotNewerKept DEF IInv, FromRows, RunningFromRow, NotNewer
<1>2. ASSUME NEW a \in Names \ unlinked', a \in loaded'
      PROVE  Exists(a)' /\ (NotNewer(a, config[a]))'
  <2>1. a \in loaded /\ config[a] \in Accounts
    BY <1>2 DEF IInv, TypeOK
  <2> QED
    BY <2>1, NotNewerKept DEF IInv, FromRows, LoadedFromRow, NotNewer
<1> QED
  BY <1>1, <1>2 DEF RunningFromRow, LoadedFromRow

\* Every step keeps what the daemon holds no newer than the rows.
LEMMA FromRowsStep ==
    ASSUME IInv, TypeOK', [Next]_vars PROVE FromRows'
<1>1. \A a \in Names \ unlinked' : RowMoves(a)
  BY RowsMove
<1>2. EmptyRow'
  BY RowsMove
<1> USE DEF AppliesLoaded
<1>3. ASSUME UNCHANGED daemonVars, unlinked \subseteq unlinked' PROVE FromRows'
  <2>1. RunningFromRow' /\ LoadedFromRow'
    BY <1>1, <1>3, DaemonSame DEF daemonVars, loadVars
  <2> QED
    BY <1>2, <1>3, <2>1 DEF FromRows, IInv, daemonVars, loadVars
<1>4. ASSUME UNCHANGED <<unlinked, loadVars, running>>, AppliesLoaded' PROVE FromRows'
  BY <1>1, <1>2, <1>4, DaemonSame DEF FromRows, loadVars
<1>5. CASE Reload
  <2>1. CASE ReloadOnSignal \/ ReloadOnPoll \/ LoadFails \/ LoadDone
    BY <1>4, <2>1 DEF ReloadOnSignal, ReloadOnPoll, LoadFails, LoadDone, dbVars
  <2>2. CASE RemoveDone
    BY <1>4, <2>2 DEF RemoveDone, loadVars, dbVars
  <2>3. CASE SetupFails
    BY <1>4, <2>3 DEF SetupFails, IInv, FromRows, loadVars, dbVars
  <2>4. CASE LoadList
    BY <1>2, <2>4 DEF LoadList, IInv, FromRows, RunningFromRow, LoadedFromRow, Runs,
                      Exists, NotNewer, dbVars
  <2>5. CASE SetupCrashes
    BY <1>2, <2>5 DEF SetupCrashes, FromRows, RunningFromRow, LoadedFromRow, Runs,
                      NoAccount
  <2>11. CASE ApplyDone
    BY <1>2, <2>11 DEF ApplyDone, IInv, FromRows, RunningFromRow, LoadedFromRow, Runs,
                       Exists, NotNewer, dbVars
  <2>6. CASE SetupSucceeds
    <3>1. /\ running' = [running EXCEPT ![current] =
                             [config[current] EXCEPT !.id = row[current].id]]
          /\ row' = row /\ loaded' = loaded /\ config' = config /\ unlinked' = unlinked
          /\ daemon' = "apply" /\ todo' = todo /\ current \in loaded
      BY <2>6 DEF SetupSucceeds, dbVars, loadVars, IInv, FromRows
    <3>2. ASSUME NEW a \in Names \ unlinked', Runs(a)'
          PROVE  Exists(a)' /\ (NotNewer(a, running[a]))'
      <4>1. CASE a /= current
        BY <3>1, <3>2, <4>1 DEF IInv, FromRows, TypeOK, RunningFromRow, Runs, Exists,
                                NotNewer
      <4>2. CASE a = current
        <5>1. /\ running'[a].version = config[a].version
              /\ running'[a].value = config[a].value
          BY <3>1, <4>2 DEF IInv, TypeOK, Accounts
        <5>2. Exists(a) /\ NotNewer(a, config[a])
          BY <3>1, <4>2 DEF IInv, FromRows, LoadedFromRow
        <5> QED
          BY <3>1, <5>1, <5>2 DEF NotNewer, Exists
      <4> QED
        BY <4>1, <4>2
    <3>3. LoadedFromRow'
      BY <3>1 DEF IInv, FromRows, LoadedFromRow, Exists, NotNewer
    <3> QED
      BY <1>2, <2>6, <3>1, <3>2, <3>3 DEF FromRows, RunningFromRow, IInv, SetupSucceeds
  <2>7. ASSUME NEW b \in Names, LoadRow(b) PROVE FromRows'
    <3>1. RunningFromRow'
      BY <2>7 DEF LoadRow, IInv, FromRows, RunningFromRow, Runs, Exists, NotNewer, dbVars
    <3>2. CASE ~(Exists(b) /\ row[b].value \in Valid)
      BY <1>2, <2>7, <3>1, <3>2 DEF LoadRow, IInv, FromRows, LoadedFromRow, Exists,
                                    NotNewer, dbVars
    <3>3. CASE Exists(b) /\ row[b].value \in Valid
      <4>1. /\ loaded' = loaded \cup {b} /\ row' = row /\ unlinked' = unlinked
            /\ config' = [config EXCEPT ![b] = [id |-> 0, version |-> row[b].version,
                                                value |-> row[b].value]]
        BY <2>7, <3>3 DEF LoadRow, dbVars
      <4>2. ASSUME NEW a \in Names \ unlinked', a \in loaded'
            PROVE  Exists(a)' /\ (NotNewer(a, config[a]))'
        <5>1. CASE a /= b
          BY <4>1, <4>2, <5>1 DEF IInv, FromRows, TypeOK, LoadedFromRow, Exists, NotNewer
        <5>2. CASE a = b
          <6>1. row[b].version \in Int
            BY ReloadAssumption DEF IInv, TypeOK, Rows, Versions
          <6>2. /\ config'[b].version = row'[b].version
                /\ config'[b].value = row'[b].value
            BY <4>1 DEF IInv, TypeOK
          <6> QED
            BY <3>3, <4>1, <5>2, <6>1, <6>2 DEF Exists, NotNewer
        <5> QED
          BY <5>1, <5>2
      <4> QED
        BY <1>2, <2>7, <3>1, <4>2 DEF FromRows, LoadedFromRow, LoadRow
    <3> QED
      BY <3>2, <3>3
  <2>8. ASSUME NEW b \in Names, UNCHANGED <<row, unlinked, loaded, config>>,
               running' = running \/ TornDown(b), AppliesLoaded'
        PROVE  FromRows'
    <3>1. LoadedFromRow'
      BY <2>8 DEF IInv, FromRows, LoadedFromRow, Exists, NotNewer
    <3>2. \A a \in Names : Runs(a)' => Runs(a) /\ running'[a] = running[a]
      BY <2>8 DEF TornDown, Runs, NoAccount, IInv, TypeOK
    <3>3. RunningFromRow'
      BY <2>8, <3>2 DEF IInv, FromRows, RunningFromRow, Exists, NotNewer
    <3> QED
      BY <1>2, <2>8, <3>1, <3>3 DEF FromRows
  <2>9. ASSUME NEW b \in Names, Remove(b) PROVE FromRows'
    <3>1. UNCHANGED <<row, unlinked, loaded, config>> /\ TornDown(b) /\ AppliesLoaded'
      BY <2>9 DEF Remove, dbVars, loadVars
    <3> QED
      BY <2>8, <3>1
  <2>10. ASSUME NEW b \in Names, Apply(b) PROVE FromRows'
    <3>1. UNCHANGED <<row, unlinked, loaded, config>>
      BY <2>10 DEF Apply, dbVars, loadVars
    <3>2. running' = running \/ TornDown(b)
      BY <2>10 DEF Apply
    <3>3. AppliesLoaded'
      BY <2>10, <3>1 DEF Apply, IInv, FromRows
    <3> QED
      BY <2>8, <3>1, <3>2, <3>3
  <2> QED
    BY <1>5, <2>1, <2>2, <2>3, <2>4, <2>5, <2>6, <2>7, <2>9, <2>10, <2>11
       DEF Reload
<1>6. CASE Operator
  BY <1>3, <1>6 DEF Operator, Save, CmdLoad, CmdLink, CmdUnlink, CmdSave, CmdSignal,
                    CmdLinked, CmdLinkFails, dbVars
<1>7. ASSUME NEW b \in Names, KeysReceived(b) PROVE FromRows'
  BY <1>3, <1>7 DEF KeysReceived
<1>8. CASE Terminate
  BY <1>2, <1>8 DEF Terminate, IInv, FromRows, RunningFromRow, LoadedFromRow,
                    Runs, Exists, NotNewer, dbVars, loadVars, NoAccount
<1>9. CASE Restart
  BY <1>4, <1>9 DEF Restart, dbVars
<1>10. CASE UNCHANGED vars
  BY <1>3, <1>10 DEF vars, dbVars
<1> QED
  BY <1>5, <1>6, <1>7, <1>8, <1>9, <1>10 DEF Next

\* The inductive invariant holds.
LEMMA ReloadInvariant == ASSUME Names /= {} PROVE Spec => []IInv
<1>1. Init => IInv
  <2>1. Init => FromRows
    BY DEF Init, FromRows, RunningFromRow, LoadedFromRow, AppliesLoaded, EmptyRow,
           Runs, NoAccount, NoRow
  <2> QED
    BY <2>1, TypeInit DEF IInv
<1>2. IInv /\ [Next]_vars => IInv'
  BY TypeStep, FromRowsStep DEF IInv
<1> QED
  BY <1>1, <1>2, PTL DEF Spec

\* An account that runs the version of its row runs the configuration of its
\* row: comparing config_version is enough for reloadConfig(), however gendb
\* processes and the daemon interleave.
THEOREM VersionTheorem ==
    ASSUME Names /= {} PROVE Spec => []VersionStandsForConfig
<1>1. IInv => VersionStandsForConfig
  BY DEF IInv, FromRows, RunningFromRow, NotNewer, VersionStandsForConfig
<1> QED
  BY <1>1, ReloadInvariant, PTL

\* No step of gendb or the daemon takes a version back, but an unlink.
THEOREM VersionsGrowTheorem ==
    ASSUME Names /= {} PROVE Spec => VersionsGrow
<1>1. IInv /\ [Next]_vars => [\A a \in Names \ unlinked' : row'[a].version >= row[a].version]_vars
  BY RowsMove DEF RowMoves
<1> QED
  BY <1>1, ReloadInvariant, PTL DEF Spec, VersionsGrow
=============================================================================
