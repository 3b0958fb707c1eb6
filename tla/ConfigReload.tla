---------------------------- MODULE ConfigReload ----------------------------
(***************************************************************************)
(* How a change made with signal2sip-gendb reaches the running daemon: the *)
(* account rows of the shared database, gendb's commands (each a process   *)
(* of its own), and the daemon's reloadConfig(), triggered by SIGHUP or by *)
(* the periodic poll, which sets accounts up and tears them down.          *)
(*                                                                         *)
(* A row has an identity (who the account is at Signal: 0 when there is no *)
(* row), the enabled flag, config_version and the SIP configuration.  The  *)
(* configuration is one value; Invalid is one that accountConfigFromRecord *)
(* refuses.  SQL statements are atomic, and nothing else is.               *)
(***************************************************************************)
EXTENDS Integers, FiniteSets

CONSTANTS
    Names,         \* account names
    Editors,       \* gendb processes
    Default,       \* the configuration of a row just inserted
    Valid,         \* configurations that pass accountConfigFromRecord()
    Invalid,       \* one that does not
    MaxVersion,    \* bound: config_version
    MaxLinks       \* bound: identities ever linked or registered

ASSUME ReloadAssumption ==
    /\ IsFiniteSet(Names) /\ IsFiniteSet(Editors)
    /\ Default \in Valid /\ Invalid \notin Valid
    /\ MaxVersion \in Nat /\ MaxLinks \in Nat

Values == Valid \cup {Invalid}
Versions == 0..MaxVersion
Ids == 0..MaxLinks

Rows == [id : Ids, enabled : BOOLEAN, version : Versions, value : Values]
NoRow == [id |-> 0, enabled |-> FALSE, version |-> 0, value |-> Default]

\* What the daemon knows of an account: AccountState::account and ::config.
Accounts == [id : Ids, version : Versions, value : Values]

NoAccount == [id |-> 0, version |-> 0, value |-> Default]

VARIABLES
    row,           \* the account table
    nLinks,        \* identities handed out so far
    unlinked,      \* history: the names that were unlinked at some time
    cmd,           \* the gendb processes: where they are, and what they loaded
    reload,        \* g_reloadRequested
    daemon,        \* where the daemon is
    booting,       \* still in main()'s startup
    todo,          \* names the current loop has yet to visit
    loaded,        \* newByName: the names in it, and their configuration
    config,
    current,       \* the name setupAccount() is working on
    running        \* g_accounts

dbVars == <<row, nLinks, unlinked>>
loadVars == <<loaded, config>>
daemonVars == <<daemon, booting, todo, loadVars, current, running>>
vars == <<dbVars, cmd, reload, daemonVars>>

Idle(name) == [pc |-> "idle", name |-> name, row |-> NoRow]

Init ==
    /\ row = [a \in Names |-> NoRow]
    /\ nLinks = 0
    /\ unlinked = {}
    /\ cmd = [e \in Editors |-> Idle(CHOOSE a \in Names : TRUE)]
    /\ reload = FALSE
    /\ daemon = "list"
    /\ booting = TRUE
    /\ todo = {} /\ loaded = {}
    /\ config = [a \in Names |-> NoAccount]
    /\ current = CHOOSE a \in Names : TRUE
    /\ running = [a \in Names |-> NoAccount]

Exists(a) == row[a].id /= 0
Runs(a) == running[a].id /= 0

-----------------------------------------------------------------------------
(* Storage: the statements that write an account row                       *)

\* Plausible bug: the daemon writes its copy of the configuration as well.
SaveAccountWhole(a, identity) ==
    row' = [row EXCEPT ![a] =
        [id |-> identity, enabled |-> TRUE, version |-> row[a].version,
         value |-> IF Runs(a) THEN running[a].value ELSE Default]]

\* saveAccount(): insert a row with the schema's defaults, or overwrite the
\* identity columns of the one there is.
SaveAccount(a, identity) ==
    row' = [row EXCEPT ![a] =
        IF Exists(a) THEN [@ EXCEPT !.id = identity]
        ELSE [id |-> identity, enabled |-> TRUE, version |-> 0, value |-> Default]]

\* Plausible bug: enable and disable write back the version they loaded.
SaveAccountConfigLoaded(a, r) ==
    row' = [row EXCEPT ![a].enabled = r.enabled, ![a].value = r.value,
                       ![a].version = IF r.enabled = row[a].enabled
                                      THEN @ + 1 ELSE r.version]

\* saveAccountConfig(): write every configuration column, bump the version
\* that is in the row.
SaveAccountConfig(a, r) ==
    row' = [row EXCEPT ![a].enabled = r.enabled, ![a].value = r.value,
                       ![a].version = @ + 1]

-----------------------------------------------------------------------------
(* gendb                                                                   *)

\* config set, enable, disable: load the account.
CmdLoad(e, a) ==
    /\ cmd[e].pc = "idle"
    /\ Exists(a)
    /\ cmd' = [cmd EXCEPT ![e] = [pc |-> "loaded", name |-> a, row |-> row[a]]]
    /\ UNCHANGED <<dbVars, reload, daemonVars>>

\* ... and save it with one column changed.  The row may be gone.
CmdSave(e, r) ==
    /\ cmd[e].pc = "loaded"
    /\ \/ r.value = cmd[e].row.value
       \/ r.enabled = cmd[e].row.enabled
    /\ LET a == cmd[e].name IN
       IF Exists(a)
       THEN /\ row[a].version < MaxVersion
            /\ SaveAccountConfig(a, r)
            /\ cmd' = [cmd EXCEPT ![e].pc = "signal"]
       ELSE /\ cmd' = [cmd EXCEPT ![e] = Idle(a)]
            /\ UNCHANGED row
    /\ UNCHANGED <<nLinks, unlinked, reload, daemonVars>>

\* signalDaemonBestEffort(): the SIGHUP arrives, or there is no pidfile.
CmdSignal(e) ==
    /\ cmd[e].pc = "signal"
    /\ cmd' = [cmd EXCEPT ![e] = Idle(cmd[e].name)]
    /\ reload' \in {reload, TRUE}
    /\ UNCHANGED <<dbVars, daemonVars>>

\* link, verify: the name must be free ...
CmdLink(e, a) ==
    /\ cmd[e].pc = "idle"
    /\ ~Exists(a)
    /\ cmd' = [cmd EXCEPT ![e] = [pc |-> "linking", name |-> a, row |-> NoRow]]
    /\ UNCHANGED <<dbVars, reload, daemonVars>>

\* ... and minutes later, when the server has accepted the device, it is
\* saved.  The daemon is not signalled.
CmdLinked(e) ==
    /\ cmd[e].pc = "linking"
    /\ nLinks < MaxLinks
    /\ nLinks' = nLinks + 1
    /\ SaveAccount(cmd[e].name, nLinks + 1)
    /\ cmd' = [cmd EXCEPT ![e] = Idle(cmd[e].name)]
    /\ UNCHANGED <<unlinked, reload, daemonVars>>

\* Linking fails, is rejected or times out.
CmdLinkFails(e) ==
    /\ cmd[e].pc = "linking"
    /\ cmd' = [cmd EXCEPT ![e] = Idle(cmd[e].name)]
    /\ UNCHANGED <<dbVars, reload, daemonVars>>

\* unlink, delete-account: deleteAccount().  The daemon is not signalled.
CmdUnlink(e, a) ==
    /\ cmd[e].pc = "idle"
    /\ Exists(a)
    /\ row' = [row EXCEPT ![a] = NoRow]
    /\ unlinked' = unlinked \cup {a}
    /\ UNCHANGED <<nLinks, cmd, reload, daemonVars>>

-----------------------------------------------------------------------------
(* The daemon: reloadConfig()                                              *)

\* The loop sees the flag and clears it ...
ReloadOnSignal ==
    /\ daemon = "idle"
    /\ reload
    /\ reload' = FALSE
    /\ daemon' = "list"
    /\ UNCHANGED <<dbVars, cmd, booting, todo, loadVars, current, running>>

\* ... or configPollIntervalSec have passed.
ReloadOnPoll ==
    /\ daemon = "idle"
    /\ daemon' = "list"
    /\ UNCHANGED <<dbVars, cmd, reload, booting, todo, loadVars, current, running>>

\* DaemonConfig::load(): listAllAccounts(), enabled ones only.
LoadList ==
    /\ daemon = "list"
    /\ daemon' = "read"
    /\ todo' = {a \in Names : Exists(a) /\ row[a].enabled}
    /\ loaded' = {}
    /\ UNCHANGED <<dbVars, cmd, reload, booting, config, current, running>>

\* load() throws: the previous configuration keeps running, or main() exits.
LoadFails ==
    /\ daemon = "list"
    /\ daemon' = IF booting THEN "failed" ELSE "idle"
    /\ UNCHANGED <<dbVars, cmd, reload, booting, todo, loadVars, current, running>>

\* load(): loadAccount() and accountConfigFromRecord() for one account; one
\* that has gone or does not validate is skipped.
LoadRow(a) ==
    /\ daemon = "read"
    /\ a \in todo
    /\ todo' = todo \ {a}
    /\ IF Exists(a) /\ row[a].value \in Valid
       THEN /\ loaded' = loaded \cup {a}
            /\ config' = [config EXCEPT ![a] = [id |-> 0, version |-> row[a].version,
                                                value |-> row[a].value]]
       ELSE UNCHANGED <<loaded, config>>
    /\ UNCHANGED <<dbVars, cmd, reload, daemon, booting, current, running>>

LoadDone ==
    /\ daemon = "read"
    /\ todo = {}
    /\ daemon' = "remove"
    /\ UNCHANGED <<dbVars, cmd, reload, booting, todo, loadVars, current, running>>

\* teardownAccount()
TornDown(a) == running' = [running EXCEPT ![a] = NoAccount]

\* The first loop: accounts that are not in the configuration any more.
Remove(a) ==
    /\ daemon = "remove"
    /\ Runs(a) /\ a \notin loaded
    /\ TornDown(a)
    /\ UNCHANGED <<dbVars, cmd, reload, daemon, booting, todo, loadVars, current>>

RemoveDone ==
    /\ daemon = "remove"
    /\ \A a \in Names : Runs(a) => a \in loaded
    /\ daemon' = "apply"
    /\ todo' = loaded
    /\ UNCHANGED <<dbVars, cmd, reload, booting, loadVars, current, running>>

\* Plausible bug: only accounts that are not running are set up.
ApplyKeepsRunning(a) ==
    /\ daemon = "apply"
    /\ a \in todo
    /\ todo' = todo \ {a}
    /\ IF Runs(a)
       THEN UNCHANGED <<daemon, current, running>>
       ELSE daemon' = "setup" /\ current' = a /\ TornDown(a)
    /\ UNCHANGED <<dbVars, cmd, reload, booting, loadVars>>

\* The second loop: add, rebuild (teardown first) or leave alone.
Apply(a) ==
    /\ daemon = "apply"
    /\ a \in todo
    /\ todo' = todo \ {a}
    /\ IF Runs(a) /\ running[a].version = config[a].version
       THEN UNCHANGED <<daemon, current, running>>
       ELSE daemon' = "setup" /\ current' = a /\ TornDown(a)
    /\ UNCHANGED <<dbVars, cmd, reload, booting, loadVars>>

\* setupAccount(): loadAccount() finds the row and everything else works.
SetupSucceeds ==
    /\ daemon = "setup"
    /\ Exists(current)
    /\ running' = [running EXCEPT ![current] =
                       [config[current] EXCEPT !.id = row[current].id]]
    /\ daemon' = "apply"
    /\ UNCHANGED <<dbVars, cmd, reload, booting, todo, loadVars, current>>

\* setupAccount(): the connection or the registration of prekeys fails after
\* the dispatch queue was started; the account is skipped.
SetupFails ==
    /\ daemon = "setup"
    /\ Exists(current)
    /\ daemon' = "apply"
    /\ UNCHANGED <<dbVars, cmd, reload, booting, todo, loadVars, current, running>>

\* setupAccount(): loadAccount() finds no row and throws before the dispatch
\* queue was started, and the handler's stopAndJoin() dereferences a null
\* state_; or create() throws a pj::Error, which is no std::exception.
SetupCrashes ==
    /\ daemon = "setup"
    /\ daemon' = "crashed"
    /\ running' = [a \in Names |-> NoAccount]
    /\ todo' = {} /\ loaded' = {}
    /\ config' = [a \in Names |-> NoAccount]
    /\ UNCHANGED <<dbVars, cmd, reload, booting, current>>

\* Back to the loop, newByName is gone; at startup, give up when no account
\* came up.
ApplyDone ==
    /\ daemon = "apply"
    /\ todo = {}
    /\ daemon' = IF booting /\ \A a \in Names : ~Runs(a) THEN "failed" ELSE "idle"
    /\ booting' = FALSE
    /\ loaded' = {}
    /\ config' = [a \in Names |-> NoAccount]
    /\ UNCHANGED <<dbVars, cmd, reload, todo, current, running>>

-----------------------------------------------------------------------------
(* The rest of the daemon                                                  *)

\* onPush(): a SyncMessage.Keys arrives and the account is saved.
KeysReceived(a) ==
    /\ Runs(a)
    /\ SaveAccount(a, running[a].id)
    /\ UNCHANGED <<nLinks, unlinked, cmd, reload, daemonVars>>

\* SIGTERM: main()'s loop ends and every account is torn down.
Terminate ==
    /\ daemon = "idle"
    /\ daemon' = "stopped"
    /\ running' = [a \in Names |-> NoAccount]
    /\ UNCHANGED <<dbVars, cmd, reload, booting, todo, loadVars, current>>

\* systemd: Restart=on-failure.
Restart ==
    /\ daemon \in {"failed", "crashed"}
    /\ daemon' = "list"
    /\ booting' = TRUE
    /\ reload' = FALSE
    /\ UNCHANGED <<dbVars, cmd, todo, loadVars, current, running>>

-----------------------------------------------------------------------------
Save(e) == \E value \in Values, enabled \in BOOLEAN :
    CmdSave(e, [cmd[e].row EXCEPT !.value = value, !.enabled = enabled])

Operator ==
    \E e \in Editors :
        \/ \E a \in Names : CmdLoad(e, a) \/ CmdLink(e, a) \/ CmdUnlink(e, a)
        \/ Save(e) \/ CmdSignal(e) \/ CmdLinked(e) \/ CmdLinkFails(e)

Reload ==
    \/ ReloadOnSignal \/ ReloadOnPoll \/ LoadList \/ LoadFails \/ LoadDone
    \/ RemoveDone \/ ApplyDone \/ SetupSucceeds \/ SetupFails \/ SetupCrashes
    \/ \E a \in Names : LoadRow(a) \/ Remove(a) \/ Apply(a)

Next ==
    \/ Operator \/ Reload \/ Terminate \/ Restart
    \/ \E a \in Names : KeysReceived(a)

Spec == Init /\ [][Next]_vars

\* The loop turns and systemd restarts a daemon that failed; the operator
\* and the servers owe nothing, but loading does not fail for ever, and
\* neither does setting up an account that is there.
FairSpec ==
    /\ Spec
    /\ WF_vars(Reload) /\ WF_vars(Restart)
    /\ SF_vars(LoadList)
    /\ \A a \in Names : SF_vars(current = a /\ SetupSucceeds)

-----------------------------------------------------------------------------
(* Correctness                                                             *)

\* The variables stay in their domains.
TypeOK ==
    /\ row \in [Names -> Rows]
    /\ nLinks \in Ids
    /\ unlinked \subseteq Names
    /\ cmd \in [Editors -> [pc : {"idle", "loaded", "signal", "linking"},
                            name : Names, row : Rows]]
    /\ {reload, booting} \subseteq BOOLEAN
    /\ daemon \in {"idle", "list", "read", "remove", "apply", "setup", "stopped",
                   "failed", "crashed"}
    /\ todo \subseteq Names /\ loaded \subseteq Names
    /\ config \in [Names -> Accounts]
    /\ current \in Names
    /\ running \in [Names -> Accounts]

\* config_version stands for the configuration: an account that runs the
\* version its row has, runs the configuration its row has - although gendb
\* processes load and save concurrently, and the daemon saves the row too.
\* Comparing versions is all that reloadConfig() does.  (Unlinking a name and
\* linking it again starts its versions over: after that it need not hold.)
VersionStandsForConfig ==
    \A a \in Names \ unlinked :
        Runs(a) /\ running[a].version = row[a].version
            => running[a].value = row[a].value

\* Nobody takes a version number back, whatever order gendb processes and
\* the daemon load and save in (schema.sql: the increment is done in SQL,
\* to avoid a read-then-write race); only an unlink does.
VersionsGrow ==
    [][\A a \in Names \ unlinked' : row'[a].version >= row[a].version]_vars

\* The account runs if its row wants it to, and runs the row's version.
UpToDate(a) ==
    IF Exists(a) /\ row[a].enabled /\ row[a].value \in Valid
    THEN Runs(a) /\ running[a].version = row[a].version
    ELSE ~Runs(a)

\* "the periodic poll is the real guarantee this change gets picked up"
\* (gendb/main.cpp:723-724): once the rows stay as they are, every account
\* comes to run its row's version, or not at all when the row is gone,
\* disabled or invalid, even if no SIGHUP ever arrives and the daemon failed
\* or crashed in between.
ChangesArePickedUp ==
    <>[][UNCHANGED row]_row =>
        []<>(daemon = "stopped" \/ \A a \in Names : UpToDate(a))
=============================================================================
