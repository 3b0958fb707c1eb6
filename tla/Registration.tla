---------------------------- MODULE Registration ----------------------------
(***************************************************************************)
(* The commands of signal2sip-gendb that create and remove accounts        *)
(* (gendb/main.cpp): register, register-captcha, verify, link, unlink,     *)
(* delete-account, enable and disable, each a process of its own that may  *)
(* be killed between any two of its steps; the two places an account lives *)
(* on this host, the pending file and the database; and Signal's servers,  *)
(* whose answers can be lost after the request was carried out.            *)
(*                                                                         *)
(* A command loads the configuration once, when it starts.  The password   *)
(* and the session of a registration are made together, so one number      *)
(* stands for both; a generation stands for the keys of one attempt.       *)
(* An account is saved in seven statements, each its own transaction: the  *)
(* row, the two identity keypairs, the four prekeys; the keypairs are one  *)
(* step here and the prekeys another.                                      *)
(***************************************************************************)
EXTENDS Provisioning, Integers, FiniteSets

CONSTANTS
    Names,         \* account names
    Numbers,       \* phone numbers
    MaxCreds,      \* bound: passwords made (registrations begun, links tried)
    MaxGens,       \* bound: sets of keys made
    None,          \* no row, no file, no session
    Overlap        \* may two commands for one name run at the same time?

ASSUME RegistrationAssumption ==
    /\ MaxCreds \in Nat /\ MaxGens \in Nat
    /\ Overlap \in BOOLEAN

Creds == 1..MaxCreds
Gens == 0..MaxGens              \* 0: not saved

Rows == [num : Numbers, cred : Creds, identity : Gens, prekeys : Gens,
         enabled : BOOLEAN]
Commands == {"register", "captcha", "verify", "link", "unlink", "delete",
             "enable", "disable"}
\* The commands that can make a number this host's own.
Claiming == {"register", "verify", "link"}
Files == [num : Numbers, cred : Creds]
Sessions == [num : Numbers, codeSent : BOOLEAN, verified : BOOLEAN]

ASSUME NoneAssumption ==
    /\ None \notin Commands /\ None \notin Names /\ None \notin Numbers
    /\ None \notin Rows /\ None \notin Files /\ None \notin Sessions

VARIABLES
    rows,          \* the account rows, with their key rows
    pending,       \* the pending-registration files: number and password
    sessions,      \* the server's verification sessions, by password
    devices,       \* the devices of each number at the server: password, keys
    primary,       \* the password of its primary device, 0 if not made here
    pc,            \* where each process is
    job,           \* its command: arguments, configuration, locals
    lastCred, lastGen,
    discarded,     \* history: passwords the operator let go of
    excused        \* history: two claims overlapped, or one did not see a row

localVars == <<rows, pending>>
serverVars == <<sessions, devices, primary>>
freshVars == <<lastCred, lastGen>>
historyVars == <<discarded, excused>>
regVars == <<localVars, serverVars, pc, job, freshVars, historyVars>>
vars == <<regVars, provVars>>

NoJob == [cmd |-> None, name |-> None, num |-> None, cred |-> 0, gen |-> 0,
          snap |-> {}]

Init ==
    /\ rows = [a \in Names |-> None]
    /\ pending = [a \in Names |-> None]
    /\ sessions = [c \in Creds |-> None]
    /\ devices = [n \in Numbers |-> {}]
    /\ primary = [n \in Numbers |-> 0]
    /\ pc = [p \in Procs |-> "idle"]
    /\ job = [p \in Procs |-> NoJob]
    /\ lastCred = 0 /\ lastGen = 0
    /\ discarded = {}
    /\ excused = FALSE
    /\ ProvisioningInit

Saved(a) == rows[a] /= None

\* The password in the pending file of a, if there is one.
PendingCreds(a) == IF pending[a] = None THEN {} ELSE {pending[a].cred}

\* A device of the number has this password.
Known(n, c) == \E d \in devices[n] : d.cred = c

Goto(p, place) == pc' = [pc EXCEPT ![p] = place]

\* The process returns, throws, or is killed.
Exit(p) ==
    /\ Goto(p, "idle")
    /\ job' = [job EXCEPT ![p] = NoJob]
    /\ ProvisioningReset(p, "off")

-----------------------------------------------------------------------------
(* Starting a command                                                      *)

\* DaemonConfig::load(): the accounts that are enabled, with their numbers;
\* one whose configuration is invalid, or whose row cannot be read, is skipped.
Loaded(skipped) ==
    {[name |-> a, num |-> rows[a].num] :
       a \in {b \in Names \ skipped : Saved(b) /\ rows[b].enabled}}

\* A saved account, other than a, that the configuration does not have.
Overlooked(a, snap) ==
    \E b \in Names \ {a} :
      Saved(b) /\ [name |-> b, num |-> rows[b].num] \notin snap

Start(p, cmd, a, n) ==
    /\ pc[p] = "idle"
    /\ Overlap \/ \A q \in Procs : job[q].name /= a
    /\ \E snap \in {Loaded(skipped) : skipped \in SUBSET Names} :
         /\ job' = [job EXCEPT ![p] = [NoJob EXCEPT !.cmd = cmd, !.name = a,
                                                    !.num = n, !.snap = snap]]
         /\ excused' = (excused \/ /\ cmd \in Claiming
                                   /\ \/ Overlooked(a, snap)
                                      \/ \E q \in Procs :
                                           job[q].cmd \in Claiming)
    /\ Goto(p, cmd)
    /\ UNCHANGED <<localVars, serverVars, freshVars, discarded, provVars>>

\* resolveAccount(): the number of a configured account wins.
ResolvedNumber(j, n) ==
    IF \E s \in j.snap : s.name = j.name
    THEN (CHOOSE s \in j.snap : s.name = j.name).num
    ELSE n

\* Plausible bug: only `register` looks at the other accounts' numbers.
NumberUncheckedLater(j, n) ==
    j.cmd = "register" => ~\E s \in j.snap : s.name /= j.name /\ s.num = n

\* requireE164NotUsedByOtherAccount(), over the configuration loaded at start.
NumberFree(j, n) ==
    ~\E s \in j.snap : s.name /= j.name /\ s.num = n

-----------------------------------------------------------------------------
(* register and register-captcha                                           *)

\* createSession(): the server opens a session for the number.
SessionCreated(c, n) ==
    sessions' = [sessions EXCEPT ![c] =
                   [num |-> n, codeSent |-> FALSE, verified |-> FALSE]]

\* cmdRegister(): the checks, and a new session.
Register(p) ==
    /\ pc[p] = "register"
    /\ LET n == ResolvedNumber(job[p], job[p].num) IN
       \/ /\ n = job[p].num
          /\ NumberFree(job[p], n)
          /\ ~Saved(job[p].name)
          /\ lastCred < MaxCreds
          /\ lastCred' = lastCred + 1
          /\ SessionCreated(lastCred + 1, n)
          /\ job' = [job EXCEPT ![p].cred = lastCred + 1]
          /\ Goto(p, "savePending")
          /\ UNCHANGED provVars
       \/ Exit(p) /\ UNCHANGED <<sessions, lastCred>>
    /\ UNCHANGED <<localVars, devices, primary, lastGen, historyVars>>

\* savePending() at once, over whatever file there is; then the code is
\* requested, unless the server wants a captcha first.
SavePending(p) ==
    /\ pc[p] = "savePending"
    /\ LET a == job[p].name IN
       /\ pending' = [pending EXCEPT ![a] =
                        [num |-> job[p].num, cred |-> job[p].cred]]
       /\ discarded' = discarded \cup PendingCreds(a)
    /\ \E allowed \in BOOLEAN :
         IF allowed
         THEN Goto(p, "requestCode") /\ UNCHANGED <<job, provVars>>
         ELSE Exit(p)
    /\ UNCHANGED <<rows, serverVars, freshVars, excused>>

\* cmdRegisterCaptcha(): resume the session and submit the captcha.
Captcha(p) ==
    /\ pc[p] = "captcha"
    /\ LET a == job[p].name IN
       \/ /\ pending[a] /= None
          /\ job' = [job EXCEPT ![p].cred = pending[a].cred]
          /\ Goto(p, "requestCode")
          /\ UNCHANGED provVars
       \/ Exit(p)
    /\ UNCHANGED <<localVars, serverVars, freshVars, historyVars>>

\* requestVerificationCode(): the server sends a code, or the call fails.
CodeRequested(c) ==
    \E sent \in BOOLEAN :
      sessions' = [sessions EXCEPT ![c].codeSent = @ \/ sent]

RequestCode(p) ==
    /\ pc[p] = "requestCode"
    /\ CodeRequested(job[p].cred)
    /\ Exit(p)
    /\ UNCHANGED <<localVars, devices, primary, freshVars, historyVars>>

-----------------------------------------------------------------------------
(* verify                                                                  *)

\* cmdVerify() up to the resumed session, for a process that may go on.
VerifyLoad(p) ==
    LET a == job[p].name
        n == ResolvedNumber(job[p], pending[a].num) IN
    /\ pending[a] /= None
    /\ NumberFree(job[p], n)
    /\ job' = [job EXCEPT ![p].cred = pending[a].cred, ![p].num = n]
    /\ Goto(p, "submitCode")
    /\ UNCHANGED provVars

\* Plausible bug: verify does not ask whether the account exists already.
VerifyUnchecked(p) ==
    /\ pc[p] = "verify"
    /\ VerifyLoad(p) \/ Exit(p)
    /\ UNCHANGED <<localVars, serverVars, freshVars, historyVars>>

\* requireNoExistingAccount(), loadPending(), the number, resumeSession().
Verify(p) ==
    /\ pc[p] = "verify"
    /\ \/ ~Saved(job[p].name) /\ VerifyLoad(p)
       \/ Exit(p)
    /\ UNCHANGED <<localVars, serverVars, freshVars, historyVars>>

\* submitVerificationCode(): the right code verifies the session, whether or
\* not the answer arrives; a wrong one, a refusal or a lost answer is not an
\* error, and what counts is whether the session is seen verified.
CodeSubmitted(c, seen) ==
    \E right, answered \in BOOLEAN :
      /\ right => sessions[c].codeSent
      /\ sessions' = [sessions EXCEPT ![c].verified = @ \/ right]
      /\ seen = (sessions[c].verified \/ (right /\ answered))

SubmitCode(p) ==
    /\ pc[p] = "submitCode"
    /\ \/ /\ CodeSubmitted(job[p].cred, TRUE)
          /\ Goto(p, "registerAccount")
          /\ UNCHANGED <<job, provVars>>
       \/ /\ CodeSubmitted(job[p].cred, FALSE)
          /\ Exit(p)
    /\ UNCHANGED <<localVars, devices, primary, freshVars, historyVars>>

\* registerAccount(): the number is the new device's alone.
AccountRegistered(n, c, g) ==
    /\ devices' = [devices EXCEPT ![n] = {[cred |-> c, gen |-> g]}]
    /\ primary' = [primary EXCEPT ![n] = c]

\* cmdVerify() registers the pending password and fresh keys.  A refusal
\* changes nothing; a lost answer looks like one.
RegisterAccount(p) ==
    /\ pc[p] = "registerAccount"
    /\ LET n == sessions[job[p].cred].num IN
       \/ /\ lastGen < MaxGens
          /\ lastGen' = lastGen + 1
          /\ AccountRegistered(n, job[p].cred, lastGen + 1)
          /\ \/ /\ job' = [job EXCEPT ![p].gen = lastGen + 1]
                /\ Goto(p, "saveRow")
                /\ UNCHANGED provVars
             \/ Exit(p)
       \/ Exit(p) /\ UNCHANGED <<lastGen, devices, primary>>
    /\ UNCHANGED <<localVars, sessions, lastCred, historyVars>>

-----------------------------------------------------------------------------
(* link                                                                    *)

\* cmdLink(): no account may exist; then the QR code.
Link(p) ==
    /\ pc[p] = "link"
    /\ \/ /\ ~Saved(job[p].name)
          /\ Goto(p, "provision")
          /\ ProvisioningReset(p, "connect")
          /\ UNCHANGED job
       \/ Exit(p)
    /\ UNCHANGED <<localVars, serverVars, freshVars, historyVars>>

\* The message names a number; a configured one would be kept instead.
LinkProvisioned(p) ==
    /\ pc[p] = "provision"
    /\ wait[p] = "returned"
    /\ \E scanned \in Numbers :
         LET n == ResolvedNumber(job[p], scanned) IN
         IF NumberFree(job[p], n)
         THEN /\ job' = [job EXCEPT ![p].num = n]
              /\ Goto(p, "putLink")
              /\ UNCHANGED provVars
         ELSE Exit(p)
    /\ UNCHANGED <<localVars, serverVars, freshVars, historyVars>>

LinkThrows(p) ==
    /\ pc[p] = "provision"
    /\ wait[p] = "threw"
    /\ Exit(p)
    /\ UNCHANGED <<localVars, serverVars, freshVars, historyVars>>

\* PUT /v1/devices/link with a fresh password and keys, for a number whose
\* primary device is a phone; refused, or the answer is lost.
PutLink(p) ==
    /\ pc[p] = "putLink"
    /\ \/ /\ primary[job[p].num] = 0
          /\ lastCred < MaxCreds /\ lastCred' = lastCred + 1
          /\ lastGen < MaxGens /\ lastGen' = lastGen + 1
          /\ LET device == [cred |-> lastCred + 1, gen |-> lastGen + 1] IN
             devices' = [devices EXCEPT ![job[p].num] = @ \cup {device}]
          /\ \/ /\ job' = [job EXCEPT ![p].cred = lastCred + 1,
                                      ![p].gen = lastGen + 1]
                /\ Goto(p, "saveRow")
                /\ UNCHANGED provVars
             \/ Exit(p)
       \/ Exit(p) /\ UNCHANGED <<freshVars, devices>>
    /\ UNCHANGED <<localVars, sessions, primary, historyVars>>

-----------------------------------------------------------------------------
(* saveFinishedAccount() and deletePending()                               *)

\* saveAccount(): an upsert that leaves enabled as it is, 1 in a new row.
WithRow(j) ==
    [rows EXCEPT ![j.name] =
       IF Saved(j.name) THEN [@ EXCEPT !.num = j.num, !.cred = j.cred]
       ELSE [num |-> j.num, cred |-> j.cred, identity |-> 0, prekeys |-> 0,
             enabled |-> TRUE]]

\* Plausible bug: the pending file goes as soon as there is a row.
SaveRowDropsPending(p) ==
    /\ pc[p] = "saveRow"
    /\ rows' = WithRow(job[p])
    /\ pending' = [pending EXCEPT ![job[p].name] = None]
    /\ Goto(p, "saveIdentity")
    /\ UNCHANGED <<serverVars, job, freshVars, historyVars, provVars>>

SaveRow(p) ==
    /\ pc[p] = "saveRow"
    /\ rows' = WithRow(job[p])
    /\ Goto(p, "saveIdentity")
    /\ UNCHANGED <<pending, serverVars, job, freshVars, historyVars, provVars>>

\* The key rows refer to the account row: without it the statement fails.
SaveKeys(p, place, column, then) ==
    /\ pc[p] = place
    /\ IF Saved(job[p].name)
       THEN /\ rows' = [rows EXCEPT ![job[p].name][column] = job[p].gen]
            /\ Goto(p, then)
            /\ UNCHANGED <<job, provVars>>
       ELSE Exit(p) /\ UNCHANGED rows
    /\ UNCHANGED <<pending, serverVars, freshVars, historyVars>>

SaveIdentity(p) == SaveKeys(p, "saveIdentity", "identity", "savePrekeys")

SavePrekeys(p) == SaveKeys(p, "savePrekeys", "prekeys", "deletePending")

\* The end of cmdVerify(); cmdLink() has no pending file to delete.
DeletePending(p) ==
    /\ pc[p] = "deletePending"
    /\ pending' = IF job[p].cmd = "verify"
                  THEN [pending EXCEPT ![job[p].name] = None] ELSE pending
    /\ Exit(p)
    /\ UNCHANGED <<rows, serverVars, freshVars, historyVars>>

-----------------------------------------------------------------------------
(* unlink, delete-account, enable and disable                              *)

\* cmdUnlink(): local only; deleteAccount() is one transaction.  A pending
\* file stays.
Unlink(p) ==
    /\ pc[p] = "unlink"
    /\ LET a == job[p].name IN
       IF Saved(a)
       THEN /\ discarded' = discarded \cup ({rows[a].cred} \ PendingCreds(a))
            /\ rows' = [rows EXCEPT ![a] = None]
       ELSE UNCHANGED <<rows, discarded>>
    /\ Exit(p)
    /\ UNCHANGED <<pending, serverVars, freshVars, excused>>

\* cmdDeleteAccount(): connect() with the stored credentials.
DeleteConnect(p) ==
    /\ pc[p] = "delete"
    /\ LET a == job[p].name IN
       \/ /\ Saved(a) /\ Known(rows[a].num, rows[a].cred)
          /\ job' = [job EXCEPT ![p].num = rows[a].num,
                                ![p].cred = rows[a].cred]
          /\ Goto(p, "deleteRequest")
          /\ UNCHANGED provVars
       \/ Exit(p)
    /\ UNCHANGED <<localVars, serverVars, freshVars, historyVars>>

\* DELETE /v1/accounts/me, for a primary device: carried out or not, and
\* answered or not.
DeleteDone(p) ==
    IF primary[job[p].num] = job[p].cred
    THEN /\ devices' = [devices EXCEPT ![job[p].num] = {}]
         /\ primary' = [primary EXCEPT ![job[p].num] = 0]
    ELSE UNCHANGED <<devices, primary>>

\* Plausible bug: a connection that closed counts as the deletion's success.
DeleteRequestAmbiguous(p) ==
    /\ pc[p] = "deleteRequest"
    /\ DeleteDone(p) \/ UNCHANGED <<devices, primary>>
    /\ Goto(p, "wipe")
    /\ UNCHANGED <<localVars, sessions, job, freshVars, historyVars, provVars>>

\* Only a clean 2xx is success.  A connection that closed is ambiguous and
\* a refusal throws: both leave the local data alone.
DeleteRequest(p) ==
    /\ pc[p] = "deleteRequest"
    /\ \/ /\ primary[job[p].num] = job[p].cred
          /\ DeleteDone(p)
          /\ Goto(p, "wipe")
          /\ UNCHANGED <<job, provVars>>
       \/ /\ DeleteDone(p) \/ UNCHANGED <<devices, primary>>
          /\ Exit(p)
    /\ UNCHANGED <<localVars, sessions, freshVars, historyVars>>

WipeRow(p) ==
    /\ pc[p] = "wipe"
    /\ rows' = [rows EXCEPT ![job[p].name] = None]
    /\ Exit(p)
    /\ UNCHANGED <<pending, serverVars, freshVars, historyVars>>

\* cmdSetEnabled()
SetEnabled(p) ==
    /\ pc[p] \in {"enable", "disable"}
    /\ LET a == job[p].name IN
       IF Saved(a)
       THEN rows' = [rows EXCEPT ![a].enabled = (pc[p] = "enable")]
       ELSE UNCHANGED rows
    /\ Exit(p)
    /\ UNCHANGED <<pending, serverVars, freshVars, historyVars>>

-----------------------------------------------------------------------------
\* A process is killed: by the user, by the terminal interface on Esc, or
\* with the machine.
Crash(p) ==
    /\ pc[p] /= "idle"
    /\ Exit(p)
    /\ UNCHANGED <<localVars, serverVars, freshVars, historyVars>>

\* External: the number is registered on a phone, which drops every device.
PhoneRegisters(n) ==
    /\ devices[n] /= {}
    /\ devices' = [devices EXCEPT ![n] = {}]
    /\ primary' = [primary EXCEPT ![n] = 0]
    /\ UNCHANGED <<localVars, sessions, pc, job, freshVars, historyVars,
                   provVars>>

Command(p) ==
    \/ Register(p) \/ SavePending(p) \/ Captcha(p) \/ RequestCode(p)
    \/ Verify(p) \/ SubmitCode(p) \/ RegisterAccount(p)
    \/ Link(p) \/ LinkProvisioned(p) \/ LinkThrows(p) \/ PutLink(p)
    \/ SaveRow(p) \/ SaveIdentity(p) \/ SavePrekeys(p) \/ DeletePending(p)
    \/ Unlink(p) \/ DeleteConnect(p) \/ DeleteRequest(p) \/ WipeRow(p)
    \/ SetEnabled(p)

Provision(p) == WaitNext(p) /\ UNCHANGED regVars

Next ==
    \/ \E p \in Procs, cmd \in Commands, a \in Names, n \in Numbers :
         Start(p, cmd, a, n)
    \/ \E p \in Procs :
         \/ Command(p) \/ Crash(p) \/ Provision(p)
         \/ Listener(p) /\ UNCHANGED regVars
    \/ \E n \in Numbers : PhoneRegisters(n)

Spec == Init /\ [][Next]_vars

-----------------------------------------------------------------------------
(* Correctness                                                             *)

Jobs == [cmd : Commands \cup {None}, name : Names \cup {None},
         num : Numbers \cup {None}, cred : {0} \cup Creds, gen : Gens,
         snap : SUBSET [name : Names, num : Numbers]]

\* A process is idle, at the start of its command, or at a later step.
Places == Commands \cup
    {"idle", "savePending", "requestCode", "submitCode", "registerAccount",
     "provision", "putLink", "saveRow", "saveIdentity", "savePrekeys",
     "deletePending", "deleteRequest", "wipe"}

\* The variables stay in their domains.
TypeOK ==
    /\ rows \in [Names -> Rows \cup {None}]
    /\ pending \in [Names -> Files \cup {None}]
    /\ sessions \in [Creds -> Sessions \cup {None}]
    /\ devices \in [Numbers -> SUBSET [cred : Creds, gen : Gens]]
    /\ primary \in [Numbers -> {0} \cup Creds]
    /\ pc \in [Procs -> Places]
    /\ job \in [Procs -> Jobs]
    /\ lastCred \in {0} \cup Creds /\ lastGen \in Gens
    /\ discarded \subseteq Creds
    /\ excused \in BOOLEAN
    /\ ProvisioningTypeOK

\* An account whose seven statements were all made, with one set of keys.
Finished(a) ==
    Saved(a) /\ rows[a].identity = rows[a].prekeys /\ rows[a].prekeys > 0

\* A number this host registered is never locked out of: whenever a process
\* was killed, whichever answer was lost, the password that the server knows
\* is in a finished account or still in a pending file that `verify` can
\* take up again (after `unlink`, if the row was half saved) - unless the
\* operator threw it away.
CredentialKept ==
    \A n \in Numbers :
      primary[n] \notin {0} \cup discarded =>
        \E a \in Names : \/ Finished(a) /\ rows[a].cred = primary[n]
                         \/ pending[a] /= None /\ pending[a].cred = primary[n]

\* The keys in the database are those the server gives to others: an account
\* that is finished and whose password the server still accepts has the keys
\* of the last registration with that password.
KeysMatchServer ==
    \A a \in Names : Finished(a) =>
      \A d \in devices[rows[a].num] :
        d.cred = rows[a].cred => d.gen = rows[a].identity

\* "nothing else stops this" (gendb/main.cpp:246-252): two accounts get the
\* same number only when two claiming commands ran at once, or one of them
\* loaded a configuration without some other saved account: one that is
\* disabled, or that DaemonConfig::load() skipped.
NumberOwnedOnce ==
    \A a, b \in Names :
      a /= b /\ Saved(a) /\ Saved(b) /\ rows[a].num = rows[b].num => excused

\* "only a clean 2xx response is treated as confirmed success"
\* (gendb/main.cpp:662-663): delete-account wipes an account only when the
\* server no longer knows its password.
NoLiveAccountWiped ==
    [][\A p \in Procs : WipeRow(p) =>
         LET r == rows[job[p].name] IN r /= None => ~Known(r.num, r.cred)]_vars
=============================================================================
