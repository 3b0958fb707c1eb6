------------------------- MODULE RegistrationProofs -------------------------
(***************************************************************************)
(* Proofs about the commands of gendb, for any number of processes, names  *)
(* and numbers.                                                            *)
(*                                                                         *)
(* The provisioning socket: a message that the listener recorded is not    *)
(* thrown away.  A step of a command leaves waitForProvisionMessage()      *)
(* alone or throws it away as a whole with its process, so the argument is *)
(* about Provisioning alone and the composition adds one case split.       *)
(*                                                                         *)
(* The commands: one lemma per action says what it does to each name and   *)
(* number, and three invariants are proved from these lemmas.  BaseInv,    *)
(* what a command has established by the time it is at a place; OwnerInv,  *)
(* that the numbers of two accounts differ; and, for commands of one name  *)
(* that do not overlap, RegInv, where every password and set of keys is:   *)
(* who holds a password (Owned), which number the server knows it for      *)
(* (ServerInv), and what a command relies on (ProcInv).                    *)
(***************************************************************************)
EXTENDS Registration, TLAPS

\* That the socket closed is recorded as a failure only while no message is
\* recorded, and no message is recorded after it; and before the listener is
\* installed there is none.
ProvInv ==
    /\ ProvisioningTypeOK
    /\ \A p \in Procs : failure[p] = "closed" => ~result[p]
    /\ \A p \in Procs : wait[p] \in {"off", "connect"} => ~result[p]
    /\ AcceptedIsReturned

-----------------------------------------------------------------------------
\* A process begins to wait, or is gone: nothing is recorded.
LEMMA ResetKeeps ==
    ASSUME NEW p \in Procs, NEW place \in {"off", "connect"},
           ProvInv, ProvisioningReset(p, place)
    PROVE  ProvInv'
<1>1. ProvisioningTypeOK'
  BY DEF ProvInv, ProvisioningTypeOK, ProvisioningReset, Waits
<1> QED
  BY <1>1 DEF ProvInv, ProvisioningTypeOK, AcceptedIsReturned,
              ProvisioningReset, Waits

\* A step of a command that does not touch the provisioning socket.
LEMMA StillKeeps ==
    ASSUME ProvInv, UNCHANGED provVars
    PROVE  ProvInv'
BY DEF ProvInv, ProvisioningTypeOK, AcceptedIsReturned, provVars

\* The callbacks: the closing of the socket never joins a recorded message,
\* and nothing is recorded once the wait is over.
LEMMA ListenerKeeps ==
    ASSUME NEW p \in Procs, ProvInv, Listener(p)
    PROVE  ProvInv'
<1> USE DEF ProvInv, ProvisioningTypeOK, AcceptedIsReturned, Listening
<1>1. CASE OnReceivedAddress(p)
  BY <1>1 DEF OnReceivedAddress
<1>2. CASE OnReceivedEnvelope(p)
  BY <1>2 DEF OnReceivedEnvelope
<1>3. CASE OnConnectionInterrupted(p)
  BY <1>3 DEF OnConnectionInterrupted
<1> QED
  BY <1>1, <1>2, <1>3 DEF Listener

\* The waits: each ends with the message, or throws for want of one.
LEMMA WaitKeeps ==
    ASSUME NEW p \in Procs, ProvInv, WaitNext(p)
    PROVE  ProvInv'
<1> USE DEF ProvInv, ProvisioningTypeOK, AcceptedIsReturned, Waits
<1>1. CASE Connect(p)
  BY <1>1 DEF Connect
<1>2. CASE AddressWaitEnds(p)
  BY <1>2 DEF AddressWaitEnds
<1>3. CASE EnvelopeWaitEnds(p)
  BY <1>3 DEF EnvelopeWaitEnds
<1> QED
  BY <1>1, <1>2, <1>3 DEF WaitNext

\* A step of a command resets the provisioning socket or leaves it alone.
LEMMA CommandProvisioning ==
    ASSUME NEW p \in Procs, Command(p)
    PROVE  \/ \E place \in {"off", "connect"} : ProvisioningReset(p, place)
           \/ UNCHANGED provVars
<1>1. CASE Register(p) \/ SavePending(p) \/ Captcha(p) \/ RequestCode(p)
  BY <1>1 DEF Register, SavePending, Captcha, RequestCode, Exit
<1>2. CASE Verify(p) \/ SubmitCode(p) \/ RegisterAccount(p)
  BY <1>2 DEF Verify, VerifyLoad, SubmitCode, RegisterAccount, Exit
<1>3. CASE Link(p) \/ LinkProvisioned(p) \/ LinkThrows(p) \/ PutLink(p)
  BY <1>3 DEF Link, LinkProvisioned, LinkThrows, PutLink, Exit
<1>4. CASE \/ SaveRow(p) \/ SaveIdentity(p) \/ SavePrekeys(p)
           \/ DeletePending(p)
  BY <1>4 DEF SaveRow, SaveIdentity, SavePrekeys, SaveKeys, DeletePending, Exit
<1>5. CASE \/ Unlink(p) \/ DeleteConnect(p) \/ DeleteRequest(p) \/ WipeRow(p)
           \/ SetEnabled(p)
  BY <1>5 DEF Unlink, DeleteConnect, DeleteRequest, WipeRow, SetEnabled, Exit
<1> QED
  BY <1>1, <1>2, <1>3, <1>4, <1>5 DEF Command

\* Every step of every process, of the phone and of the server.
LEMMA NextKeeps ==
    ASSUME ProvInv, [Next]_vars
    PROVE  ProvInv'
<1>1. ASSUME NEW p \in Procs, NEW cmd \in Commands, NEW a \in Names,
             NEW n \in Numbers, Start(p, cmd, a, n)
      PROVE  ProvInv'
  BY <1>1, StillKeeps DEF Start
<1>2. ASSUME NEW p \in Procs, Command(p)
      PROVE  ProvInv'
  BY <1>2, CommandProvisioning, ResetKeeps, StillKeeps
<1>3. ASSUME NEW p \in Procs, Crash(p)
      PROVE  ProvInv'
  BY <1>3, ResetKeeps DEF Crash, Exit
<1>4. ASSUME NEW p \in Procs, Provision(p)
      PROVE  ProvInv'
  BY <1>4, WaitKeeps DEF Provision
<1>5. ASSUME NEW p \in Procs, Listener(p)
      PROVE  ProvInv'
  BY <1>5, ListenerKeeps
<1>6. ASSUME NEW n \in Numbers, PhoneRegisters(n)
      PROVE  ProvInv'
  BY <1>6, StillKeeps DEF PhoneRegisters
<1>7. CASE UNCHANGED vars
  BY <1>7, StillKeeps DEF vars
<1> QED
  BY <1>1, <1>2, <1>3, <1>4, <1>5, <1>6, <1>7 DEF Next

\* Before the first command nothing is recorded.
LEMMA InitProvInv == Init => ProvInv
BY DEF Init, ProvisioningInit, ProvInv, ProvisioningTypeOK, AcceptedIsReturned

\* For any number of processes, names and numbers, and whatever is killed or
\* lost: waitForProvisionMessage() does not throw away a message of the phone
\* that it received because the socket closed or a deadline passed.
THEOREM AcceptedTheorem == Spec => []AcceptedIsReturned
<1>1. ProvInv /\ [Next]_vars => ProvInv'
  BY NextKeeps
<1>2. ProvInv => AcceptedIsReturned
  BY DEF ProvInv
<1> QED
  BY <1>1, <1>2, InitProvInv, PTL DEF Spec
-----------------------------------------------------------------------------
(* The commands: what is true of their places                              *)

Saving == {"saveRow", "saveIdentity", "savePrekeys", "deletePending"}

\* TypeOK without the provisioning socket.
CoreTypes ==
    /\ rows \in [Names -> Rows \cup {None}]
    /\ pending \in [Names -> Files \cup {None}]
    /\ sessions \in [Creds -> Sessions \cup {None}]
    /\ devices \in [Numbers -> SUBSET [cred : Creds, gen : Gens]]
    /\ primary \in [Numbers -> {0} \cup Creds]
    /\ pc \in [Procs -> Places]
    /\ job \in [Procs -> Jobs]
    /\ lastCred \in {0} \cup Creds /\ lastGen \in Gens
    /\ discarded \subseteq Creds
    /\ excused \in BOOLEAN

\* What a command has made of its arguments by the time it is at a place.
PlaceInv(p) ==
    /\ pc[p] = "idle" => job[p] = NoJob
    /\ pc[p] /= "idle" =>
         job[p].cmd \in Commands /\ job[p].name \in Names /\ job[p].num \in Numbers
    /\ pc[p] \in Saving \cup {"savePending", "requestCode", "submitCode",
                              "registerAccount", "deleteRequest", "wipe"}
         => job[p].cred \in Creds
    /\ pc[p] \in {"savePending", "requestCode", "submitCode", "registerAccount"}
         => sessions[job[p].cred] /= None
    /\ pc[p] \in {"verify", "submitCode", "registerAccount"}
         => job[p].cmd = "verify"
    /\ pc[p] \in {"link", "provision", "putLink"} => job[p].cmd = "link"
    /\ pc[p] \in Saving => job[p].cmd \in {"verify", "link"}

\* A session is of a password that was made, and so is a pending file.
SessionInv ==
    /\ \A c \in Creds : sessions[c] /= None => c <= lastCred
    /\ \A a \in Names : pending[a] /= None => sessions[pending[a].cred] /= None

BaseInv ==
    /\ CoreTypes
    /\ SessionInv
    /\ \A p \in Procs : PlaceInv(p)

-----------------------------------------------------------------------------
(* The commands: passwords and keys                                        *)

\* Somebody has password c under the name a: the pending file, the row or a
\* running command.
Holds(a, c) ==
    \/ pending[a] /= None /\ pending[a].cred = c
    \/ rows[a] /= None /\ rows[a].cred = c
    \/ \E p \in Procs : job[p].name = a /\ job[p].cred = c

\* A password is made once, for one name.
Owned ==
    /\ \A a \in Names, c \in Creds : Holds(a, c) => c <= lastCred
    /\ \A a, b \in Names, c \in Creds : Holds(a, c) /\ Holds(b, c) => a = b

\* A password with a session is known for the session's number only.
ServerInv ==
    /\ \A n \in Numbers : \A d \in devices[n] :
         /\ d.cred <= lastCred
         /\ sessions[d.cred] /= None => sessions[d.cred].num = n
    /\ \A n \in Numbers : primary[n] /= 0 =>
         sessions[primary[n]] /= None /\ sessions[primary[n]].num = n

\* At most one command runs for a name.
Alone ==
    \A p, q \in Procs : job[p].name = job[q].name /\ job[p].name /= None => p = q

\* The password c is known with the keys g, or not at all.
KeysAre(c, g) == \A n \in Numbers : \A d \in devices[n] : d.cred = c => d.gen = g

\* The keys in a row, as far as they are saved, are those of its password.
RowKeys(a) ==
    rows[a] /= None =>
      /\ rows[a].identity /= 0 => KeysAre(rows[a].cred, rows[a].identity)
      /\ rows[a].prekeys /= 0 => KeysAre(rows[a].cred, rows[a].prekeys)

\* The pending file has the password of job j.
FileOf(j) == pending[j.name] /= None /\ pending[j.name].cred = j.cred

\* The row of job j has its password, and these keys.
RowOf(j, identity, prekeys) ==
    /\ rows[j.name] /= None
    /\ rows[j.name].cred = j.cred
    /\ rows[j.name].identity = identity
    /\ rows[j.name].prekeys = prekeys

\* What a process that is alone with its name can rely on.
ProcInv(p) ==
    LET j == job[p] IN
    /\ pc[p] \in {"submitCode", "registerAccount"} => rows[j.name] = None /\ FileOf(j)
    /\ pc[p] \in {"provision", "putLink", "saveRow"} => rows[j.name] = None
    /\ pc[p] \in Saving => /\ j.gen > 0 /\ KeysAre(j.cred, j.gen)
                           /\ j.cmd = "verify" => FileOf(j)
    /\ pc[p] = "saveIdentity" => RowOf(j, 0, 0)
    /\ pc[p] = "savePrekeys" => RowOf(j, j.gen, 0)
    /\ pc[p] = "deletePending" => RowOf(j, j.gen, j.gen)
    /\ pc[p] \in {"deleteRequest", "wipe"} =>
         /\ rows[j.name] /= None
         /\ rows[j.name].cred = j.cred /\ rows[j.name].num = j.num
    /\ pc[p] = "wipe" =>
         \A n \in Numbers : primary[n] /= j.cred /\ ~Known(n, j.cred)

RegInv ==
    /\ BaseInv
    /\ Owned
    /\ ServerInv
    /\ Alone
    /\ \A a \in Names : RowKeys(a)
    /\ \A p \in Procs : ProcInv(p)
    /\ CredentialKept

-----------------------------------------------------------------------------
(* The commands: numbers                                                   *)

\* The places behind requireE164NotUsedByOtherAccount().
Checked == Saving \cup {"submitCode", "registerAccount", "putLink"}

\* Until two claims overlapped or one overlooked an account, the one command
\* that claims a number has seen the numbers of all other accounts.
ClaimInv(p) ==
    /\ job[p].cmd \in Claiming /\ ~excused =>
         /\ \A q \in Procs : job[q].cmd \in Claiming => q = p
         /\ \A a \in Names : a /= job[p].name /\ rows[a] /= None =>
              [name |-> a, num |-> rows[a].num] \in job[p].snap
    /\ pc[p] \in Checked => NumberFree(job[p], job[p].num)

OwnerInv ==
    /\ BaseInv
    /\ \A p \in Procs : ClaimInv(p)
    /\ NumberOwnedOnce

-----------------------------------------------------------------------------
(* What the steps of a command do, read off pointwise                      *)

\* Process p moves, and nobody else does.
Moves(p) ==
    /\ pc' \in [Procs -> Places]
    /\ job' \in [Procs -> Jobs]
    /\ \A q \in Procs : q /= p => pc'[q] = pc[q] /\ job'[q] = job[q]

\* It ends.
Ends(p) == pc'[p] = "idle" /\ job'[p] = NoJob

\* It goes on at place, its job the same but for the number, the password
\* and the keys.
GoesTo(p, place, num, cred, gen) ==
    /\ pc'[p] = place
    /\ job'[p].cmd = job[p].cmd /\ job'[p].name = job[p].name
    /\ job'[p].snap = job[p].snap
    /\ job'[p].num = num /\ job'[p].cred = cred /\ job'[p].gen = gen

\* It goes on at place with the job it has.
Stays(p, place) == pc'[p] = place /\ job'[p] = job[p]

\* No job is a job.
LEMMA NoJobType == NoJob \in Jobs
  BY RegistrationAssumption DEF NoJob, Jobs, Gens

\* Exit(), and Goto() with a changed or with the same job, in these terms.
LEMMA ExitMoves ==
    ASSUME NEW p \in Procs, BaseInv, Exit(p)
    PROVE  Moves(p) /\ Ends(p)
<1>1. pc' = [pc EXCEPT ![p] = "idle"] /\ job' = [job EXCEPT ![p] = NoJob]
  BY DEF Exit, Goto
<1>2. pc \in [Procs -> Places] /\ job \in [Procs -> Jobs]
  BY DEF BaseInv, CoreTypes
<1> QED
  BY <1>1, <1>2, NoJobType DEF Moves, Ends, Places

\* Goto() with a new job.
LEMMA GotoMoves ==
    ASSUME NEW p \in Procs, NEW place \in Places, NEW j \in Jobs, BaseInv,
           Goto(p, place), job' = [job EXCEPT ![p] = j]
    PROVE  Moves(p) /\ pc'[p] = place /\ job'[p] = j
<1>1. pc \in [Procs -> Places] /\ job \in [Procs -> Jobs]
  BY DEF BaseInv, CoreTypes
<1> QED
  BY <1>1 DEF Moves, Goto

\* Goto() with the job as it is.
LEMMA StayMoves ==
    ASSUME NEW p \in Procs, NEW place \in Places, BaseInv, Goto(p, place),
           job' = job
    PROVE  Moves(p) /\ Stays(p, place)
  BY DEF BaseInv, CoreTypes, Moves, Goto, Stays

\* A step that changes the number, the password or the keys of a job.
LEMMA GoesMoves ==
    ASSUME NEW p \in Procs, NEW place \in Places, BaseInv, Goto(p, place),
           NEW num \in Numbers \cup {None}, NEW cred \in {0} \cup Creds,
           NEW gen \in Gens,
           \/ /\ job' = [job EXCEPT ![p].cred = cred]
              /\ num = job[p].num /\ gen = job[p].gen
           \/ /\ job' = [job EXCEPT ![p].num = num]
              /\ cred = job[p].cred /\ gen = job[p].gen
           \/ /\ job' = [job EXCEPT ![p].gen = gen]
              /\ num = job[p].num /\ cred = job[p].cred
           \/ /\ job' = [job EXCEPT ![p].cred = cred, ![p].num = num]
              /\ gen = job[p].gen
           \/ /\ job' = [job EXCEPT ![p].num = num, ![p].cred = cred]
              /\ gen = job[p].gen
           \/ /\ job' = [job EXCEPT ![p].cred = cred, ![p].gen = gen]
              /\ num = job[p].num
    PROVE  Moves(p) /\ GoesTo(p, place, num, cred, gen)
<1> DEFINE j == [job[p] EXCEPT !.num = num, !.cred = cred, !.gen = gen]
<1>1. job[p] \in Jobs /\ job \in [Procs -> Jobs]
  BY DEF BaseInv, CoreTypes
<1>2. /\ j \in Jobs /\ j.cmd = job[p].cmd /\ j.name = job[p].name
      /\ j.snap = job[p].snap /\ j.num = num /\ j.cred = cred /\ j.gen = gen
  BY <1>1 DEF Jobs
<1>3. job' = [job EXCEPT ![p] = j]
  BY ZenonT(40), <1>1 DEF Jobs
<1> HIDE DEF j
<1> QED
  BY <1>2, <1>3, GotoMoves DEF GoesTo

\* What is left alone by a command that only moves on.
Kept == UNCHANGED <<rows, pending, devices, primary, lastCred, lastGen, discarded,
                    excused>>

\* No session is forgotten, or changes its number.
SessionsKept ==
    /\ sessions' \in [Creds -> Sessions \cup {None}]
    /\ \A c \in Creds : sessions[c] /= None =>
         sessions'[c] /= None /\ sessions'[c].num = sessions[c].num
    /\ \A c \in Creds : sessions'[c] /= None => sessions[c] /= None

\* The number that a configured account has, or the one given.
LEMMA ResolvedType ==
    ASSUME NEW j \in Jobs, NEW n \in Numbers
    PROVE  ResolvedNumber(j, n) \in Numbers
<1>1. CASE \E s \in j.snap : s.name = j.name
  <2>1. (CHOOSE s \in j.snap : s.name = j.name) \in j.snap
    BY <1>1
  <2> QED
    BY <1>1, <2>1 DEF ResolvedNumber, Jobs
<1>2. CASE ~\E s \in j.snap : s.name = j.name
  BY <1>2 DEF ResolvedNumber
<1> QED
  BY <1>1, <1>2

\* The parts of a typed state.
LEMMA Parts ==
    ASSUME BaseInv, NEW p \in Procs
    PROVE  /\ job[p] \in Jobs /\ PlaceInv(p)
           /\ sessions \in [Creds -> Sessions \cup {None}]
           /\ sessions' = sessions => SessionsKept
           /\ \A a \in Names : pending[a] /= None =>
                /\ pending[a] \in Files /\ pending[a].cred \in Creds
                /\ pending[a].num \in Numbers /\ sessions[pending[a].cred] /= None
           /\ \A a \in Names : rows[a] /= None =>
                /\ rows[a] \in Rows /\ rows[a].cred \in Creds
                /\ rows[a].num \in Numbers
  BY DEF BaseInv, CoreTypes, SessionInv, SessionsKept, Files, Rows

\* One lemma per action: what it does.
LEMMA CaptchaEffect ==
    ASSUME NEW p \in Procs, BaseInv, Captcha(p)
    PROVE  /\ pc[p] = "captcha" /\ Kept /\ SessionsKept /\ Moves(p)
           /\ \/ Ends(p)
              \/ /\ pending[job[p].name] /= None
                 /\ GoesTo(p, "requestCode", job[p].num, pending[job[p].name].cred,
                           job[p].gen)
<1> DEFINE a == job[p].name
<1>1. pc[p] = "captcha" /\ Kept /\ sessions' = sessions
  BY DEF Captcha, localVars, serverVars, freshVars, historyVars, Kept
<1>2. job[p] \in Jobs /\ a \in Names /\ SessionsKept
  BY <1>1, Parts DEF PlaceInv
<1>3. CASE Exit(p)
  BY <1>1, <1>2, <1>3, ExitMoves
<1>4. CASE /\ pending[a] /= None
           /\ job' = [job EXCEPT ![p].cred = pending[a].cred]
           /\ Goto(p, "requestCode")
  <2>1. /\ pending[a].cred \in {0} \cup Creds /\ job[p].num \in Numbers \cup {None}
        /\ job[p].gen \in Gens /\ "requestCode" \in Places
    BY <1>2, <1>4, Parts DEF Jobs, Places
  <2> QED
    BY <1>1, <1>2, <1>4, <2>1, GoesMoves
<1> QED
  BY <1>3, <1>4 DEF Captcha

\* c is a new password with a session.
NewSession(c) ==
    /\ sessions' \in [Creds -> Sessions \cup {None}]
    /\ c \in Creds /\ c = lastCred + 1 /\ lastCred' = c
    /\ sessions'[c] /= None
    /\ \A k \in Creds : k /= c => sessions'[k] = sessions[k]

\* cmdRegister() ends, or has a session for a new password.
LEMMA RegisterEffect ==
    ASSUME NEW p \in Procs, BaseInv, Register(p)
    PROVE  /\ pc[p] = "register" /\ Moves(p)
           /\ UNCHANGED <<rows, pending, devices, primary, lastGen, discarded, excused>>
           /\ \/ Ends(p) /\ lastCred' = lastCred /\ SessionsKept
              \/ /\ NewSession(lastCred + 1)
                 /\ GoesTo(p, "savePending", job[p].num, lastCred + 1, job[p].gen)
<1>1. /\ pc[p] = "register"
      /\ UNCHANGED <<rows, pending, devices, primary, lastGen, discarded, excused>>
  BY DEF Register, localVars, historyVars
<1>2. job[p] \in Jobs /\ job[p].num \in Numbers
  BY <1>1, Parts DEF PlaceInv
<1>3. CASE Exit(p) /\ UNCHANGED <<sessions, lastCred>>
  BY <1>1, <1>3, ExitMoves, Parts
<1>4. CASE /\ lastCred < MaxCreds
           /\ lastCred' = lastCred + 1
           /\ SessionCreated(lastCred + 1, job[p].num)
           /\ job' = [job EXCEPT ![p].cred = lastCred + 1]
           /\ Goto(p, "savePending")
  <2>1. /\ lastCred + 1 \in Creds /\ job[p].gen \in Gens /\ "savePending" \in Places
    BY <1>2, <1>4, RegistrationAssumption DEF BaseInv, CoreTypes, Creds, Jobs, Places
  <2> DEFINE s == [num |-> job[p].num, codeSent |-> FALSE, verified |-> FALSE]
  <2>2. s \in Sessions
    BY <1>2 DEF Sessions
  <2>3. sessions' = [sessions EXCEPT ![lastCred + 1] = s]
    BY <1>4 DEF SessionCreated
  <2> HIDE DEF s
  <2>4. NewSession(lastCred + 1)
    BY <1>4, <2>1, <2>2, <2>3, NoneAssumption DEF NewSession, BaseInv, CoreTypes
  <2>5. Moves(p) /\ GoesTo(p, "savePending", job[p].num, lastCred + 1, job[p].gen)
    BY <1>2, <1>4, <2>1, GoesMoves
  <2> QED
    BY <1>1, <2>4, <2>5
<1> QED
  BY <1>3, <1>4 DEF Register

\* savePending() writes the file of its own name, and nothing else.
LEMMA SavePendingEffect ==
    ASSUME NEW p \in Procs, BaseInv, SavePending(p)
    PROVE  /\ pc[p] = "savePending" /\ Moves(p)
           /\ UNCHANGED <<rows, devices, primary, lastCred, lastGen, excused>>
           /\ SessionsKept
           /\ pending' \in [Names -> Files \cup {None}]
           /\ pending'[job[p].name] /= None
           /\ pending'[job[p].name].cred = job[p].cred
           /\ \A b \in Names : b /= job[p].name => pending'[b] = pending[b]
           /\ discarded' = discarded \cup PendingCreds(job[p].name)
           /\ Ends(p) \/ Stays(p, "requestCode")
<1> DEFINE f == [num |-> job[p].num, cred |-> job[p].cred]
<1>1. /\ pc[p] = "savePending" /\ sessions' = sessions
      /\ UNCHANGED <<rows, devices, primary, lastCred, lastGen, excused>>
      /\ discarded' = discarded \cup PendingCreds(job[p].name)
      /\ pending' = [pending EXCEPT ![job[p].name] = f]
  BY DEF SavePending, serverVars, freshVars
<1>2. /\ job[p].num \in Numbers /\ job[p].cred \in Creds /\ job[p].name \in Names
      /\ SessionsKept
  BY <1>1, Parts DEF PlaceInv
<1>3. f \in Files /\ f /= None /\ f.cred = job[p].cred
  BY <1>2, NoneAssumption DEF Files
<1> HIDE DEF f
<1>4. /\ pending' \in [Names -> Files \cup {None}]
      /\ pending'[job[p].name] = f
      /\ \A b \in Names : b /= job[p].name => pending'[b] = pending[b]
  BY <1>1, <1>2, <1>3 DEF BaseInv, CoreTypes
<1>5. Moves(p) /\ (Ends(p) \/ Stays(p, "requestCode"))
  <2>1. Exit(p) \/ (Goto(p, "requestCode") /\ job' = job)
    BY DEF SavePending
  <2> QED
    BY <2>1, ExitMoves, StayMoves DEF Places
<1> QED
  BY <1>1, <1>2, <1>3, <1>4, <1>5

\* A session whose flags change.
LEMMA FlagsKept ==
    ASSUME BaseInv, NEW c \in Creds, sessions[c] /= None, NEW b \in BOOLEAN,
           \/ sessions' = [sessions EXCEPT ![c].codeSent = @ \/ b]
           \/ sessions' = [sessions EXCEPT ![c].verified = @ \/ b]
    PROVE  SessionsKept
<1>1. sessions \in [Creds -> Sessions \cup {None}] /\ sessions[c] \in Sessions
  BY DEF BaseInv, CoreTypes
<1>2. PICK s \in Sessions : s.num = sessions[c].num /\ sessions' = [sessions EXCEPT ![c] = s]
  <2>1. CASE sessions' = [sessions EXCEPT ![c].codeSent = @ \/ b]
    <3> DEFINE s == [sessions[c] EXCEPT !.codeSent = @ \/ b]
    <3>1. s \in Sessions /\ s.num = sessions[c].num
      BY <1>1 DEF Sessions
    <3> QED
      BY <2>1, <3>1
  <2>2. CASE sessions' = [sessions EXCEPT ![c].verified = @ \/ b]
    <3> DEFINE s == [sessions[c] EXCEPT !.verified = @ \/ b]
    <3>1. s \in Sessions /\ s.num = sessions[c].num
      BY <1>1 DEF Sessions
    <3> QED
      BY <2>2, <3>1
  <2> QED
    BY <2>1, <2>2
<1> QED
  BY <1>1, <1>2, NoneAssumption DEF SessionsKept

\* A code is requested; the command is over.
LEMMA RequestCodeEffect ==
    ASSUME NEW p \in Procs, BaseInv, RequestCode(p)
    PROVE  pc[p] = "requestCode" /\ Kept /\ SessionsKept /\ Moves(p) /\ Ends(p)
<1>1. pc[p] = "requestCode" /\ Kept /\ Moves(p) /\ Ends(p)
  BY ExitMoves DEF RequestCode, localVars, freshVars, historyVars, Kept
<1>2. job[p].cred \in Creds /\ sessions[job[p].cred] /= None
  BY <1>1, Parts DEF PlaceInv
<1>3. \E b \in BOOLEAN : sessions' = [sessions EXCEPT ![job[p].cred].codeSent = @ \/ b]
  BY DEF RequestCode, CodeRequested
<1> QED
  BY <1>1, <1>2, <1>3, FlagsKept

\* cmdVerify() goes on only without a row and with a pending file, whose
\* password it takes.
LEMMA VerifyEffect ==
    ASSUME NEW p \in Procs, BaseInv, Verify(p)
    PROVE  /\ pc[p] = "verify" /\ Kept /\ SessionsKept /\ Moves(p)
           /\ \/ Ends(p)
              \/ /\ rows[job[p].name] = None /\ pending[job[p].name] /= None
                 /\ \E n \in Numbers :
                      /\ NumberFree(job[p], n)
                      /\ GoesTo(p, "submitCode", n, pending[job[p].name].cred,
                                job[p].gen)
<1> DEFINE a == job[p].name
           n == ResolvedNumber(job[p], pending[a].num)
<1>1. pc[p] = "verify" /\ Kept /\ sessions' = sessions
  BY DEF Verify, localVars, serverVars, freshVars, historyVars, Kept
<1>2. job[p] \in Jobs /\ a \in Names /\ SessionsKept
  BY <1>1, Parts DEF PlaceInv
<1>3. CASE Exit(p)
  BY <1>1, <1>2, <1>3, ExitMoves
<1>4. CASE ~Saved(a) /\ VerifyLoad(p)
  <2>1. /\ rows[a] = None /\ pending[a] /= None /\ NumberFree(job[p], n)
        /\ job' = [job EXCEPT ![p].cred = pending[a].cred, ![p].num = n]
        /\ Goto(p, "submitCode")
    BY <1>4 DEF VerifyLoad, Saved
  <2>2. /\ pending[a].cred \in {0} \cup Creds /\ n \in Numbers
        /\ job[p].gen \in Gens /\ "submitCode" \in Places
    BY <1>2, <2>1, Parts, ResolvedType DEF Jobs, Places
  <2> HIDE DEF n
  <2> QED
    BY <1>1, <1>2, <2>1, <2>2, GoesMoves
<1> QED
  BY <1>3, <1>4 DEF Verify

\* A code is submitted; the session keeps its number.
LEMMA SubmitCodeEffect ==
    ASSUME NEW p \in Procs, BaseInv, SubmitCode(p)
    PROVE  /\ pc[p] = "submitCode" /\ Kept /\ SessionsKept /\ Moves(p)
           /\ Ends(p) \/ Stays(p, "registerAccount")
<1>1. pc[p] = "submitCode" /\ Kept
  BY DEF SubmitCode, localVars, freshVars, historyVars, Kept
<1>2. job[p].cred \in Creds /\ sessions[job[p].cred] /= None
  BY <1>1, Parts DEF PlaceInv
<1>3. \E b \in BOOLEAN : sessions' = [sessions EXCEPT ![job[p].cred].verified = @ \/ b]
  BY DEF SubmitCode, CodeSubmitted
<1>4. Exit(p) \/ (Goto(p, "registerAccount") /\ job' = job)
  BY DEF SubmitCode
<1> QED
  BY <1>1, <1>2, <1>3, <1>4, FlagsKept, ExitMoves, StayMoves DEF Places

\* The number is the new device's alone.
RegisteredNow(n, c, g) ==
    /\ lastGen' = g /\ g = lastGen + 1 /\ g \in Gens /\ n \in Numbers
    /\ devices' \in [Numbers -> SUBSET [cred : Creds, gen : Gens]]
    /\ primary' \in [Numbers -> {0} \cup Creds]
    /\ devices'[n] = {[cred |-> c, gen |-> g]} /\ primary'[n] = c
    /\ \A m \in Numbers : m /= n => devices'[m] = devices[m] /\ primary'[m] = primary[m]

\* registerAccount() is refused, or takes effect with or without its answer.
LEMMA RegisterAccountEffect ==
    ASSUME NEW p \in Procs, BaseInv, RegisterAccount(p)
    PROVE  /\ pc[p] = "registerAccount" /\ Moves(p)
           /\ UNCHANGED <<rows, pending, lastCred, discarded, excused, sessions>>
           /\ \/ Ends(p) /\ UNCHANGED <<lastGen, devices, primary>>
              \/ /\ RegisteredNow(sessions[job[p].cred].num, job[p].cred, lastGen + 1)
                 /\ \/ Ends(p)
                    \/ GoesTo(p, "saveRow", job[p].num, job[p].cred, lastGen + 1)
<1> DEFINE n == sessions[job[p].cred].num
           c == job[p].cred
<1>1. /\ pc[p] = "registerAccount"
      /\ UNCHANGED <<rows, pending, lastCred, discarded, excused, sessions>>
  BY DEF RegisterAccount, localVars, historyVars
<1>2. /\ job[p] \in Jobs /\ c \in Creds /\ n \in Numbers /\ job[p].num \in Numbers
  BY <1>1, Parts DEF PlaceInv, Sessions
<1>3. CASE Exit(p) /\ UNCHANGED <<lastGen, devices, primary>>
  BY <1>1, <1>3, ExitMoves
<1>4. CASE /\ lastGen < MaxGens
           /\ lastGen' = lastGen + 1
           /\ AccountRegistered(n, c, lastGen + 1)
           /\ \/ /\ job' = [job EXCEPT ![p].gen = lastGen + 1]
                 /\ Goto(p, "saveRow")
              \/ Exit(p)
  <2>1. lastGen + 1 \in Gens /\ "saveRow" \in Places
    BY <1>4, RegistrationAssumption DEF BaseInv, CoreTypes, Gens, Places
  <2> DEFINE d == [cred |-> c, gen |-> lastGen + 1]
  <2>2. d \in [cred : Creds, gen : Gens]
    BY <1>2, <2>1
  <2>3. devices' = [devices EXCEPT ![n] = {d}] /\ primary' = [primary EXCEPT ![n] = c]
    BY <1>4 DEF AccountRegistered
  <2>4. RegisteredNow(n, c, lastGen + 1)
    BY <1>2, <1>4, <2>1, <2>2, <2>3 DEF RegisteredNow, BaseInv, CoreTypes
  <2>5. Moves(p) /\ (Ends(p) \/ GoesTo(p, "saveRow", job[p].num, c, lastGen + 1))
    BY <1>2, <1>4, <2>1, GoesMoves, ExitMoves
  <2> QED
    BY <1>1, <2>4, <2>5
<1> QED
  BY <1>3, <1>4 DEF RegisterAccount

\* cmdLink() goes on only without a row.
LEMMA LinkEffect ==
    ASSUME NEW p \in Procs, BaseInv, Link(p)
    PROVE  /\ pc[p] = "link" /\ Kept /\ SessionsKept /\ Moves(p)
           /\ Ends(p) \/ (rows[job[p].name] = None /\ Stays(p, "provision"))
<1>1. pc[p] = "link" /\ Kept /\ sessions' = sessions
  BY DEF Link, localVars, serverVars, freshVars, historyVars, Kept
<1>2. Exit(p) \/ (rows[job[p].name] = None /\ Goto(p, "provision") /\ job' = job)
  BY DEF Link, Saved
<1> QED
  BY <1>1, <1>2, Parts, ExitMoves, StayMoves DEF Places

\* The number that the phone named is checked.
LEMMA LinkProvisionedEffect ==
    ASSUME NEW p \in Procs, BaseInv, LinkProvisioned(p)
    PROVE  /\ pc[p] = "provision" /\ Kept /\ SessionsKept /\ Moves(p)
           /\ \/ Ends(p)
              \/ \E n \in Numbers :
                   /\ NumberFree(job[p], n)
                   /\ GoesTo(p, "putLink", n, job[p].cred, job[p].gen)
<1>1. pc[p] = "provision" /\ Kept /\ sessions' = sessions
  BY DEF LinkProvisioned, localVars, serverVars, freshVars, historyVars, Kept
<1>2. job[p] \in Jobs /\ SessionsKept
  BY <1>1, Parts
<1>3. CASE Exit(p)
  BY <1>1, <1>2, <1>3, ExitMoves
<1>4. ASSUME NEW m \in Numbers, NumberFree(job[p], ResolvedNumber(job[p], m)),
             job' = [job EXCEPT ![p].num = ResolvedNumber(job[p], m)],
             Goto(p, "putLink")
      PROVE  Moves(p) /\ \E n \in Numbers :
                           /\ NumberFree(job[p], n)
                           /\ GoesTo(p, "putLink", n, job[p].cred, job[p].gen)
  <2> DEFINE n == ResolvedNumber(job[p], m)
  <2>1. /\ n \in Numbers /\ job[p].cred \in {0} \cup Creds /\ job[p].gen \in Gens
        /\ "putLink" \in Places
    BY <1>2, ResolvedType DEF Jobs, Places
  <2>2. NumberFree(job[p], n) /\ job' = [job EXCEPT ![p].num = n]
    BY <1>4
  <2> HIDE DEF n
  <2>3. Moves(p) /\ GoesTo(p, "putLink", n, job[p].cred, job[p].gen)
    BY <1>4, <2>1, <2>2, GoesMoves
  <2> QED
    BY <2>1, <2>2, <2>3
<1>5. \/ Exit(p)
      \/ \E m \in Numbers :
           /\ NumberFree(job[p], ResolvedNumber(job[p], m))
           /\ job' = [job EXCEPT ![p].num = ResolvedNumber(job[p], m)]
           /\ Goto(p, "putLink")
  BY DEF LinkProvisioned
<1> QED
  BY <1>1, <1>2, <1>3, <1>4, <1>5

\* LinkThrows() and a kill.
LEMMA EndEffect ==
    ASSUME NEW p \in Procs, BaseInv, LinkThrows(p) \/ Crash(p)
    PROVE  Kept /\ SessionsKept /\ Moves(p) /\ Ends(p)
<1>1. Exit(p) /\ Kept /\ sessions' = sessions
  BY DEF LinkThrows, Crash, localVars, serverVars, freshVars, historyVars, Kept
<1> QED
  BY <1>1, Parts, ExitMoves

\* A device was added, with a new password and new keys.
LinkedNow(c, g) ==
    /\ c = lastCred + 1 /\ lastCred' = c /\ c \in Creds
    /\ g = lastGen + 1 /\ lastGen' = g /\ g \in Gens
    /\ devices' \in [Numbers -> SUBSET [cred : Creds, gen : Gens]]
    /\ \A m \in Numbers : \A d \in devices'[m] :
         d \in devices[m] \/ (d.cred = c /\ d.gen = g)

\* The link is refused, or takes effect with or without its answer.
LEMMA PutLinkEffect ==
    ASSUME NEW p \in Procs, BaseInv, PutLink(p)
    PROVE  /\ pc[p] = "putLink" /\ Moves(p)
           /\ UNCHANGED <<rows, pending, primary, discarded, excused, sessions>>
           /\ \/ Ends(p) /\ UNCHANGED <<lastCred, lastGen, devices>>
              \/ /\ LinkedNow(lastCred + 1, lastGen + 1)
                 /\ \/ Ends(p)
                    \/ GoesTo(p, "saveRow", job[p].num, lastCred + 1, lastGen + 1)
<1> DEFINE n == job[p].num
           c == lastCred + 1
           g == lastGen + 1
           d == [cred |-> c, gen |-> g]
<1>1. /\ pc[p] = "putLink"
      /\ UNCHANGED <<rows, pending, primary, discarded, excused, sessions>>
  BY DEF PutLink, localVars, historyVars
<1>2. job[p] \in Jobs /\ n \in Numbers
  BY <1>1, Parts DEF PlaceInv
<1>3. CASE Exit(p) /\ UNCHANGED <<freshVars, devices>>
  BY <1>1, <1>3, ExitMoves DEF freshVars
<1>4. CASE /\ lastCred < MaxCreds /\ lastCred' = c
           /\ lastGen < MaxGens /\ lastGen' = g
           /\ devices' = [devices EXCEPT ![n] = @ \cup {d}]
           /\ \/ /\ job' = [job EXCEPT ![p].cred = c, ![p].gen = g]
                 /\ Goto(p, "saveRow")
              \/ Exit(p)
  <2>1. c \in Creds /\ g \in Gens /\ "saveRow" \in Places
    BY <1>4, RegistrationAssumption DEF BaseInv, CoreTypes, Gens, Creds, Places
  <2>2. d \in [cred : Creds, gen : Gens] /\ d.cred = c /\ d.gen = g
    BY <2>1
  <2> HIDE DEF d
  <2>3. LinkedNow(c, g)
    BY <1>2, <1>4, <2>1, <2>2 DEF LinkedNow, BaseInv, CoreTypes
  <2>4. Moves(p) /\ (Ends(p) \/ GoesTo(p, "saveRow", n, c, g))
    <3> HIDE DEF c, g
    <3> QED
      BY <1>2, <1>4, <2>1, GoesMoves, ExitMoves
  <2> QED
    BY <1>1, <2>3, <2>4
<1> QED
  BY <1>3, <1>4 DEF PutLink

\* Only the row of a changes.
RowChanges(a) ==
    /\ rows' \in [Names -> Rows \cup {None}]
    /\ \A b \in Names : b /= a => rows'[b] = rows[b]

\* What is left alone when a row is saved.
RestKept == UNCHANGED <<pending, sessions, devices, primary, lastCred, lastGen>>

\* saveAccount() writes the row of its own name; a new one has no keys.
LEMMA SaveRowEffect ==
    ASSUME NEW p \in Procs, BaseInv, SaveRow(p)
    PROVE  LET a == job[p].name IN
           /\ pc[p] = "saveRow" /\ Moves(p) /\ RestKept /\ UNCHANGED <<discarded, excused>>
           /\ Stays(p, "saveIdentity")
           /\ RowChanges(a) /\ rows'[a] /= None
           /\ rows'[a].num = job[p].num /\ rows'[a].cred = job[p].cred
           /\ rows[a] = None => rows'[a].identity = 0 /\ rows'[a].prekeys = 0
<1> DEFINE a == job[p].name
           new == [num |-> job[p].num, cred |-> job[p].cred, identity |-> 0,
                   prekeys |-> 0, enabled |-> TRUE]
           old == [rows[a] EXCEPT !.num = job[p].num, !.cred = job[p].cred]
<1>1. /\ pc[p] = "saveRow" /\ RestKept /\ UNCHANGED <<discarded, excused>>
      /\ Goto(p, "saveIdentity") /\ job' = job
  BY DEF SaveRow, serverVars, freshVars, historyVars, RestKept
<1>2. /\ job[p].num \in Numbers /\ a \in Names /\ job[p].cred \in Creds
      /\ rows \in [Names -> Rows \cup {None}] /\ 0 \in Gens
  BY <1>1, Parts, RegistrationAssumption DEF PlaceInv, Saving, BaseInv, CoreTypes, Gens
<1>3. rows' = [rows EXCEPT ![a] = IF rows[a] /= None THEN old ELSE new]
  BY DEF SaveRow, WithRow, Saved
<1>4. /\ new \in Rows /\ new.num = job[p].num /\ new.cred = job[p].cred
      /\ new.identity = 0 /\ new.prekeys = 0
  BY <1>2 DEF Rows
<1>5. rows[a] /= None =>
        old \in Rows /\ old.num = job[p].num /\ old.cred = job[p].cred
  BY <1>2 DEF Rows
<1>6. Moves(p) /\ Stays(p, "saveIdentity")
  BY <1>1, StayMoves DEF Places
<1> HIDE DEF new, old
<1> QED
  BY <1>1, <1>2, <1>3, <1>4, <1>5, <1>6, NoneAssumption DEF RowChanges

\* The keypairs are saved, or the row is gone.
LEMMA SaveIdentityEffect ==
    ASSUME NEW p \in Procs, BaseInv, SaveIdentity(p)
    PROVE  LET a == job[p].name IN
           /\ pc[p] = "saveIdentity" /\ Moves(p) /\ RestKept
           /\ UNCHANGED <<discarded, excused>>
           /\ \/ Ends(p) /\ rows' = rows
              \/ /\ Stays(p, "savePrekeys") /\ RowChanges(a)
                 /\ rows[a] /= None /\ rows'[a] /= None
                 /\ rows'[a].num = rows[a].num /\ rows'[a].cred = rows[a].cred
                 /\ rows'[a].prekeys = rows[a].prekeys
                 /\ rows'[a].identity = job[p].gen
<1> DEFINE a == job[p].name
           r == [rows[a] EXCEPT !.identity = job[p].gen]
<1>1. /\ pc[p] = "saveIdentity" /\ RestKept /\ UNCHANGED <<discarded, excused>>
  BY DEF SaveIdentity, SaveKeys, serverVars, freshVars, historyVars, RestKept
<1>2. /\ a \in Names /\ job[p].gen \in Gens /\ rows \in [Names -> Rows \cup {None}]
  BY <1>1, Parts DEF PlaceInv, Saving, BaseInv, CoreTypes, Jobs
<1>3. CASE Exit(p) /\ rows' = rows
  BY <1>1, <1>3, ExitMoves
<1>4. CASE /\ rows[a] /= None /\ Goto(p, "savePrekeys") /\ job' = job
           /\ rows' = [rows EXCEPT ![a]["identity"] = job[p].gen]
  <2>1. rows' = [rows EXCEPT ![a] = r]
    BY <1>4
  <2>2. /\ r \in Rows /\ r.num = rows[a].num /\ r.cred = rows[a].cred
        /\ r.prekeys = rows[a].prekeys
        /\ r.identity = job[p].gen
    BY <1>2, <1>4 DEF Rows
  <2>3. Moves(p) /\ Stays(p, "savePrekeys")
    BY <1>4, StayMoves DEF Places
  <2> HIDE DEF r
  <2> QED
    BY <1>1, <1>2, <1>4, <2>1, <2>2, <2>3, NoneAssumption DEF RowChanges
<1> QED
  BY <1>3, <1>4 DEF SaveIdentity, SaveKeys, Saved

\* The prekeys are saved, or the row is gone.
LEMMA SavePrekeysEffect ==
    ASSUME NEW p \in Procs, BaseInv, SavePrekeys(p)
    PROVE  LET a == job[p].name IN
           /\ pc[p] = "savePrekeys" /\ Moves(p) /\ RestKept
           /\ UNCHANGED <<discarded, excused>>
           /\ \/ Ends(p) /\ rows' = rows
              \/ /\ Stays(p, "deletePending") /\ RowChanges(a)
                 /\ rows[a] /= None /\ rows'[a] /= None
                 /\ rows'[a].num = rows[a].num /\ rows'[a].cred = rows[a].cred
                 /\ rows'[a].identity = rows[a].identity
                 /\ rows'[a].prekeys = job[p].gen
<1> DEFINE a == job[p].name
           r == [rows[a] EXCEPT !.prekeys = job[p].gen]
<1>1. /\ pc[p] = "savePrekeys" /\ RestKept /\ UNCHANGED <<discarded, excused>>
  BY DEF SavePrekeys, SaveKeys, serverVars, freshVars, historyVars, RestKept
<1>2. /\ a \in Names /\ job[p].gen \in Gens /\ rows \in [Names -> Rows \cup {None}]
  BY <1>1, Parts DEF PlaceInv, Saving, BaseInv, CoreTypes, Jobs
<1>3. CASE Exit(p) /\ rows' = rows
  BY <1>1, <1>3, ExitMoves
<1>4. CASE /\ rows[a] /= None /\ Goto(p, "deletePending") /\ job' = job
           /\ rows' = [rows EXCEPT ![a]["prekeys"] = job[p].gen]
  <2>1. rows' = [rows EXCEPT ![a] = r]
    BY <1>4
  <2>2. /\ r \in Rows /\ r.num = rows[a].num /\ r.cred = rows[a].cred
        /\ r.identity = rows[a].identity
        /\ r.prekeys = job[p].gen
    BY <1>2, <1>4 DEF Rows
  <2>3. Moves(p) /\ Stays(p, "deletePending")
    BY <1>4, StayMoves DEF Places
  <2> HIDE DEF r
  <2> QED
    BY <1>1, <1>2, <1>4, <2>1, <2>2, <2>3, NoneAssumption DEF RowChanges
<1> QED
  BY <1>3, <1>4 DEF SavePrekeys, SaveKeys, Saved

\* Only the pending file of a changes.
FileChanges(a) ==
    /\ pending' \in [Names -> Files \cup {None}]
    /\ \A b \in Names : b /= a => pending'[b] = pending[b]

\* cmdVerify() ends without its pending file, cmdLink() just ends.
LEMMA DeletePendingEffect ==
    ASSUME NEW p \in Procs, BaseInv, DeletePending(p)
    PROVE  /\ pc[p] = "deletePending" /\ Moves(p) /\ Ends(p)
           /\ UNCHANGED <<rows, sessions, devices, primary, lastCred, lastGen, discarded,
                          excused>>
           /\ \/ pending' = pending /\ job[p].cmd /= "verify"
              \/ /\ FileChanges(job[p].name) /\ pending'[job[p].name] = None
                 /\ job[p].cmd = "verify"
<1>1. /\ pc[p] = "deletePending" /\ Moves(p) /\ Ends(p)
      /\ UNCHANGED <<rows, sessions, devices, primary, lastCred, lastGen, discarded,
                     excused>>
  BY ExitMoves DEF DeletePending, serverVars, freshVars, historyVars
<1>2. job[p].name \in Names /\ pending \in [Names -> Files \cup {None}]
  BY <1>1, Parts DEF PlaceInv, BaseInv, CoreTypes
<1>3. pending' = IF job[p].cmd = "verify"
                 THEN [pending EXCEPT ![job[p].name] = None] ELSE pending
  BY DEF DeletePending
<1> QED
  BY <1>1, <1>2, <1>3 DEF FileChanges

\* The row goes, and its password is let go of or still in a pending file.
LEMMA UnlinkEffect ==
    ASSUME NEW p \in Procs, BaseInv, Unlink(p)
    PROVE  LET a == job[p].name IN
           /\ pc[p] = "unlink" /\ Moves(p) /\ Ends(p) /\ RestKept /\ excused' = excused
           /\ RowChanges(a) /\ rows'[a] = None
           /\ discarded' \in SUBSET Creds
           /\ discarded \subseteq discarded'
           /\ rows[a] /= None =>
                rows[a].cred \in discarded' \cup PendingCreds(a)
<1> DEFINE a == job[p].name
<1>1. /\ pc[p] = "unlink" /\ Moves(p) /\ Ends(p) /\ RestKept /\ excused' = excused
  BY ExitMoves DEF Unlink, serverVars, freshVars, RestKept
<1>2. a \in Names /\ rows \in [Names -> Rows \cup {None}] /\ discarded \in SUBSET Creds
      /\ (rows[a] /= None => rows[a].cred \in Creds)
  BY <1>1, Parts DEF PlaceInv, BaseInv, CoreTypes
<1>3. IF rows[a] /= None
      THEN /\ discarded' = discarded \cup ({rows[a].cred} \ PendingCreds(a))
           /\ rows' = [rows EXCEPT ![a] = None]
      ELSE rows' = rows /\ discarded' = discarded
  BY DEF Unlink, Saved
<1> QED
  BY <1>1, <1>2, <1>3 DEF RowChanges

\* cmdDeleteAccount() takes number and password from the row.
LEMMA DeleteConnectEffect ==
    ASSUME NEW p \in Procs, BaseInv, DeleteConnect(p)
    PROVE  LET a == job[p].name IN
           /\ pc[p] = "delete" /\ Kept /\ SessionsKept /\ Moves(p)
           /\ \/ Ends(p)
              \/ /\ rows[a] /= None
                 /\ GoesTo(p, "deleteRequest", rows[a].num, rows[a].cred, job[p].gen)
<1> DEFINE a == job[p].name
<1>1. pc[p] = "delete" /\ Kept /\ sessions' = sessions
  BY DEF DeleteConnect, localVars, serverVars, freshVars, historyVars, Kept
<1>2. job[p] \in Jobs /\ a \in Names /\ SessionsKept
  BY <1>1, Parts DEF PlaceInv
<1>3. CASE Exit(p)
  BY <1>1, <1>2, <1>3, ExitMoves
<1>4. CASE /\ rows[a] /= None
           /\ job' = [job EXCEPT ![p].num = rows[a].num, ![p].cred = rows[a].cred]
           /\ Goto(p, "deleteRequest")
  <2>1. /\ rows[a].cred \in {0} \cup Creds /\ rows[a].num \in Numbers
        /\ job[p].gen \in Gens /\ "deleteRequest" \in Places
    BY <1>2, <1>4, Parts DEF Jobs, Places
  <2> QED
    BY <1>1, <1>2, <1>4, <2>1, GoesMoves
<1> QED
  BY <1>3, <1>4 DEF DeleteConnect, Saved

\* The account of number n is deleted at the server.
DeletedNow(n) ==
    /\ devices' \in [Numbers -> SUBSET [cred : Creds, gen : Gens]]
    /\ primary' \in [Numbers -> {0} \cup Creds]
    /\ devices'[n] = {} /\ primary'[n] = 0
    /\ \A m \in Numbers : m /= n => devices'[m] = devices[m] /\ primary'[m] = primary[m]

\* Only a confirmed deletion leads to the wipe.
LEMMA DeleteRequestEffect ==
    ASSUME NEW p \in Procs, BaseInv, DeleteRequest(p)
    PROVE  /\ pc[p] = "deleteRequest" /\ Moves(p)
           /\ UNCHANGED <<rows, pending, sessions, lastCred, lastGen, discarded, excused>>
           /\ \/ /\ primary[job[p].num] = job[p].cred /\ DeletedNow(job[p].num)
                 /\ Stays(p, "wipe")
              \/ Ends(p) /\ (DeletedNow(job[p].num) \/ UNCHANGED <<devices, primary>>)
<1> DEFINE n == job[p].num
<1>1. /\ pc[p] = "deleteRequest"
      /\ UNCHANGED <<rows, pending, sessions, lastCred, lastGen, discarded, excused>>
  BY DEF DeleteRequest, localVars, freshVars, historyVars
<1>2. n \in Numbers
  BY <1>1, Parts DEF PlaceInv
<1>3. ASSUME devices' = [devices EXCEPT ![n] = {}], primary' = [primary EXCEPT ![n] = 0]
      PROVE  DeletedNow(n)
  BY <1>2, <1>3 DEF DeletedNow, BaseInv, CoreTypes
<1>4. DeleteDone(p) =>
        (DeletedNow(n) /\ primary[n] = job[p].cred)
          \/ (UNCHANGED <<devices, primary>> /\ primary[n] /= job[p].cred)
  BY <1>3 DEF DeleteDone
<1>5. \/ primary[n] = job[p].cred /\ DeleteDone(p) /\ Goto(p, "wipe") /\ job' = job
      \/ Exit(p) /\ (DeleteDone(p) \/ UNCHANGED <<devices, primary>>)
  BY DEF DeleteRequest
<1> QED
  BY <1>1, <1>4, <1>5, ExitMoves, StayMoves DEF Places

\* The row of its own name goes.
LEMMA WipeRowEffect ==
    ASSUME NEW p \in Procs, BaseInv, WipeRow(p)
    PROVE  /\ pc[p] = "wipe" /\ Moves(p) /\ Ends(p) /\ RestKept
           /\ UNCHANGED <<discarded, excused>>
           /\ RowChanges(job[p].name) /\ rows'[job[p].name] = None
<1>1. /\ pc[p] = "wipe" /\ Moves(p) /\ Ends(p) /\ RestKept /\ UNCHANGED <<discarded, excused>>
      /\ rows' = [rows EXCEPT ![job[p].name] = None]
  BY ExitMoves DEF WipeRow, serverVars, freshVars, historyVars, RestKept
<1>2. job[p].name \in Names /\ rows \in [Names -> Rows \cup {None}]
  BY <1>1, Parts DEF PlaceInv, BaseInv, CoreTypes
<1> QED
  BY <1>1, <1>2 DEF RowChanges

\* Only `enabled` changes.
LEMMA SetEnabledEffect ==
    ASSUME NEW p \in Procs, BaseInv, SetEnabled(p)
    PROVE  LET a == job[p].name IN
           /\ pc[p] \in {"enable", "disable"} /\ Moves(p) /\ Ends(p) /\ RestKept
           /\ UNCHANGED <<discarded, excused>>
           /\ \/ rows' = rows
              \/ /\ RowChanges(a) /\ rows[a] /= None /\ rows'[a] /= None
                 /\ rows'[a].num = rows[a].num /\ rows'[a].cred = rows[a].cred
                 /\ rows'[a].identity = rows[a].identity
                 /\ rows'[a].prekeys = rows[a].prekeys
<1> DEFINE a == job[p].name
           e == (pc[p] = "enable")
           r == [rows[a] EXCEPT !.enabled = e]
<1>1. /\ pc[p] \in {"enable", "disable"} /\ Moves(p) /\ Ends(p) /\ RestKept
      /\ UNCHANGED <<discarded, excused>>
  BY ExitMoves DEF SetEnabled, serverVars, freshVars, historyVars, RestKept
<1>2. a \in Names /\ rows \in [Names -> Rows \cup {None}] /\ e \in BOOLEAN
  BY <1>1, Parts DEF PlaceInv, BaseInv, CoreTypes
<1>3. IF rows[a] /= None THEN rows' = [rows EXCEPT ![a].enabled = e]
                        ELSE rows' = rows
  BY DEF SetEnabled, Saved
<1>4. CASE rows[a] = None
  BY <1>1, <1>3, <1>4
<1>5. CASE rows[a] /= None
  <2>1. rows' = [rows EXCEPT ![a] = r]
    BY <1>3, <1>5
  <2> HIDE DEF e
  <2>2. /\ r \in Rows /\ r.num = rows[a].num /\ r.cred = rows[a].cred
        /\ r.identity = rows[a].identity /\ r.prekeys = rows[a].prekeys
    BY <1>2, <1>5 DEF Rows
  <2> HIDE DEF r
  <2>3. RowChanges(a) /\ rows'[a] = r /\ r /= None
    BY <1>2, <2>1, <2>2, NoneAssumption DEF RowChanges
  <2> QED
    BY <1>1, <1>5, <2>2, <2>3
<1> QED
  BY <1>4, <1>5

\* A command starts, with what DaemonConfig::load() gives it.
LEMMA StartEffect ==
    ASSUME NEW p \in Procs, NEW cmd \in Commands, NEW a \in Names, NEW n \in Numbers,
           BaseInv, Start(p, cmd, a, n)
    PROVE  /\ pc[p] = "idle" /\ job[p] = NoJob
           /\ Overlap \/ \A q \in Procs : job[q].name /= a
           /\ UNCHANGED <<rows, pending, devices, primary, lastCred, lastGen, discarded>>
           /\ SessionsKept /\ Moves(p)
           /\ pc'[p] = cmd /\ job'[p].cmd = cmd /\ job'[p].name = a
           /\ job'[p].num = n /\ job'[p].cred = 0 /\ job'[p].gen = 0
           /\ excused' \in BOOLEAN /\ (excused => excused')
           /\ cmd \in Claiming /\ ~excused' =>
                /\ ~Overlooked(a, job'[p].snap)
                /\ \A q \in Procs : job[q].cmd \notin Claiming
<1>1. /\ pc[p] = "idle" /\ job[p] = NoJob
      /\ Overlap \/ \A q \in Procs : job[q].name /= a
      /\ UNCHANGED <<rows, pending, devices, primary, lastCred, lastGen, discarded>>
      /\ sessions' = sessions /\ SessionsKept /\ Goto(p, cmd)
  BY Parts DEF Start, PlaceInv, localVars, serverVars, freshVars
<1>2. PICK skipped \in SUBSET Names :
        /\ job' = [job EXCEPT ![p] = [NoJob EXCEPT !.cmd = cmd, !.name = a, !.num = n,
                                                   !.snap = Loaded(skipped)]]
        /\ excused' = (excused \/ /\ cmd \in Claiming
                                  /\ \/ Overlooked(a, Loaded(skipped))
                                     \/ \E q \in Procs : job[q].cmd \in Claiming)
  BY DEF Start
<1> DEFINE snap == Loaded(skipped)
           j == [NoJob EXCEPT !.cmd = cmd, !.name = a, !.num = n, !.snap = snap]
<1>3. snap \in SUBSET [name : Names, num : Numbers]
  BY Parts, <1>1 DEF Loaded, Saved
<1> HIDE DEF snap
<1>4. /\ j.cmd = cmd /\ j.name = a /\ j.num = n /\ j.cred = 0 /\ j.gen = 0
      /\ j.snap = snap
  BY DEF NoJob
<1>5. j \in Jobs
  <2>1. 0 \in Gens
    BY RegistrationAssumption DEF Gens
  <2> QED
    BY <1>3, <2>1 DEF NoJob, Jobs
<1>6. job' = [job EXCEPT ![p] = j]
  BY <1>2 DEF snap
<1>7. excused \in BOOLEAN
  BY DEF BaseInv, CoreTypes
<1>8. /\ excused' \in BOOLEAN /\ (excused => excused')
      /\ cmd \in Claiming /\ ~excused' =>
           /\ ~Overlooked(a, snap) /\ \A q \in Procs : job[q].cmd \notin Claiming
  BY <1>2, <1>7, Zenon DEF snap
<1> HIDE DEF j
<1>9. Moves(p) /\ pc'[p] = cmd /\ job'[p] = j
  BY <1>1, <1>5, <1>6, GotoMoves DEF Places
<1> QED
  BY <1>1, <1>4, <1>8, <1>9

\* A phone takes a number over: nobody's device is left.
LEMMA PhoneEffect ==
    ASSUME NEW n \in Numbers, BaseInv, PhoneRegisters(n)
    PROVE  /\ DeletedNow(n) /\ sessions' = sessions
           /\ UNCHANGED <<rows, pending, pc, job, lastCred, lastGen, discarded, excused>>
<1>1. devices' = [devices EXCEPT ![n] = {}] /\ primary' = [primary EXCEPT ![n] = 0]
      /\ sessions' = sessions
      /\ UNCHANGED <<rows, pending, pc, job, lastCred, lastGen, discarded, excused>>
  BY DEF PhoneRegisters, localVars, freshVars, historyVars
<1> QED
  BY <1>1 DEF DeletedNow, BaseInv, CoreTypes

-----------------------------------------------------------------------------
(* Types                                                                   *)

\* A process that ended is idle, and nothing is asked of it.
LEMMA EndsPlace ==
    ASSUME NEW p \in Procs, Ends(p)
    PROVE  PlaceInv(p)'
  BY DEF Ends, PlaceInv, Saving

\* A step that keeps types and sessions, and of which p knows its place.
LEMMA BaseStep ==
    ASSUME BaseInv, NEW p \in Procs, Moves(p),
           rows' \in [Names -> Rows \cup {None}],
           pending' \in [Names -> Files \cup {None}],
           sessions' \in [Creds -> Sessions \cup {None}],
           devices' \in [Numbers -> SUBSET [cred : Creds, gen : Gens]],
           primary' \in [Numbers -> {0} \cup Creds],
           lastCred' \in {0} \cup Creds, lastGen' \in Gens,
           discarded' \subseteq Creds, excused' \in BOOLEAN,
           \A c \in Creds : sessions[c] /= None => sessions'[c] /= None,
           SessionInv', PlaceInv(p)'
    PROVE  BaseInv'
<1>1. CoreTypes'
  BY DEF CoreTypes, Moves
<1>2. ASSUME NEW q \in Procs, q /= p PROVE PlaceInv(q)'
  BY <1>2 DEF BaseInv, PlaceInv, Moves
<1> QED
  BY <1>1, <1>2 DEF BaseInv

\* The variables a step leaves alone keep their types.
LEMMA Typed ==
    ASSUME BaseInv
    PROVE  /\ rows' = rows => rows' \in [Names -> Rows \cup {None}]
           /\ pending' = pending => pending' \in [Names -> Files \cup {None}]
           /\ sessions' = sessions => sessions' \in [Creds -> Sessions \cup {None}]
           /\ devices' = devices =>
                devices' \in [Numbers -> SUBSET [cred : Creds, gen : Gens]]
           /\ primary' = primary => primary' \in [Numbers -> {0} \cup Creds]
           /\ lastCred' = lastCred => lastCred' \in {0} \cup Creds
           /\ lastGen' = lastGen => lastGen' \in Gens
           /\ discarded' = discarded => discarded' \subseteq Creds
           /\ excused' = excused => excused' \in BOOLEAN
           /\ SessionInv /\ (UNCHANGED <<sessions, pending, lastCred>> => SessionInv')
  BY DEF BaseInv, CoreTypes, SessionInv

\* A command that only moves on.
LEMMA BaseControl ==
    ASSUME BaseInv, NEW p \in Procs, Moves(p), SessionsKept, PlaceInv(p)',
           UNCHANGED <<rows, pending, devices, primary, lastCred, lastGen, discarded>>,
           excused' \in BOOLEAN
    PROVE  BaseInv'
<1>1. SessionInv'
  BY Typed, Parts DEF SessionInv, SessionsKept
<1> QED
  BY <1>1, Typed, BaseStep DEF SessionsKept

\* A process that goes on with its job and the arguments it has.
LEMMA StaysPlace ==
    ASSUME BaseInv, NEW p \in Procs, NEW place \in Places \ {"idle"},
           Stays(p, place), pc[p] /= "idle",
           place \in {"requestCode", "registerAccount"} =>
             job[p].cred \in Creds /\ sessions'[job[p].cred] /= None,
           place \in Saving \cup {"deleteRequest", "wipe"} => job[p].cred \in Creds,
           place = "registerAccount" => job[p].cmd = "verify",
           place = "provision" => job[p].cmd = "link",
           place \in Saving => job[p].cmd \in {"verify", "link"},
           place \notin {"verify", "submitCode", "link", "putLink", "savePending"}
    PROVE  PlaceInv(p)'
<1>1. PlaceInv(p)
  BY DEF BaseInv
<1> QED
  BY <1>1 DEF PlaceInv, Stays

\* register, register-captcha and verify, up to the server's answer.
LEMMA RegisterBase ==
    ASSUME BaseInv, NEW p \in Procs,
           \/ Register(p) \/ SavePending(p) \/ Captcha(p) \/ RequestCode(p)
           \/ Verify(p) \/ SubmitCode(p) \/ RegisterAccount(p)
    PROVE  BaseInv'
<1>0. PlaceInv(p) /\ excused \in BOOLEAN
  BY DEF BaseInv, CoreTypes
<1>1. CASE Register(p)
  <2>1. CASE Ends(p) /\ lastCred' = lastCred /\ SessionsKept
    BY <1>1, <2>1, RegisterEffect, EndsPlace, BaseControl, Typed
  <2>2. CASE NewSession(lastCred + 1)
             /\ GoesTo(p, "savePending", job[p].num, lastCred + 1, job[p].gen)
    <3>1. PlaceInv(p)'
      BY <1>0, <1>1, <2>2, RegisterEffect DEF PlaceInv, GoesTo, NewSession, Saving
    <3>2. /\ SessionInv' /\ lastCred' \in {0} \cup Creds
          /\ \A c \in Creds : sessions[c] /= None => sessions'[c] /= None
      BY <1>1, <2>2, RegisterEffect, Parts DEF NewSession, SessionInv, BaseInv, CoreTypes, Creds
    <3> QED
      BY <1>1, <2>2, <3>1, <3>2, RegisterEffect, Typed, BaseStep DEF NewSession
  <2> QED
    BY <1>1, <2>1, <2>2, RegisterEffect
<1>2. CASE SavePending(p)
  <2>1. job[p].cred \in Creds /\ sessions[job[p].cred] /= None /\ job[p].name \in Names
    BY <1>0, <1>2, SavePendingEffect DEF PlaceInv
  <2>2. PlaceInv(p)'
    BY <1>2, <2>1, SavePendingEffect, EndsPlace, StaysPlace DEF Saving, Places, SessionsKept
  <2>3. SessionInv'
    BY <1>2, <2>1, SavePendingEffect, Typed DEF SessionInv, SessionsKept, BaseInv, CoreTypes, Files
  <2>4. discarded' \subseteq Creds
    BY <1>2, <2>1, SavePendingEffect, Parts DEF PendingCreds, BaseInv, CoreTypes
  <2> QED
    BY <1>2, <2>2, <2>3, <2>4, SavePendingEffect, Typed, BaseStep DEF SessionsKept
<1>3. CASE Captcha(p)
  <2>1. job[p].name \in Names
    BY <1>0, <1>3, CaptchaEffect DEF PlaceInv
  <2>2. ASSUME pending[job[p].name] /= None,
               GoesTo(p, "requestCode", job[p].num, pending[job[p].name].cred, job[p].gen)
        PROVE  PlaceInv(p)'
    <3>1. /\ pending[job[p].name].cred \in Creds
          /\ sessions'[pending[job[p].name].cred] /= None
      BY <1>3, <2>1, <2>2, CaptchaEffect, Parts DEF SessionsKept
    <3> QED
      BY <1>0, <1>3, <2>2, <3>1, CaptchaEffect DEF PlaceInv, GoesTo, Saving
  <2> QED
    BY <1>0, <1>3, <2>2, CaptchaEffect, EndsPlace, BaseControl DEF Kept
<1>4. CASE RequestCode(p)
  BY <1>0, <1>4, RequestCodeEffect, EndsPlace, BaseControl DEF Kept
<1>5. CASE Verify(p)
  <2>1. job[p].name \in Names
    BY <1>0, <1>5, VerifyEffect DEF PlaceInv
  <2>2. ASSUME pending[job[p].name] /= None, NEW n \in Numbers,
               GoesTo(p, "submitCode", n, pending[job[p].name].cred, job[p].gen)
        PROVE  PlaceInv(p)'
    <3>1. /\ pending[job[p].name].cred \in Creds
          /\ sessions'[pending[job[p].name].cred] /= None
      BY <1>5, <2>1, <2>2, VerifyEffect, Parts DEF SessionsKept
    <3> QED
      BY <1>0, <1>5, <2>2, <3>1, VerifyEffect DEF PlaceInv, GoesTo, Saving
  <2> QED
    BY <1>0, <1>5, <2>2, VerifyEffect, EndsPlace, BaseControl DEF Kept
<1>6. CASE SubmitCode(p)
  <2>1. /\ job[p].cred \in Creds /\ sessions'[job[p].cred] /= None
        /\ job[p].cmd = "verify"
    BY <1>0, <1>6, SubmitCodeEffect DEF PlaceInv, SessionsKept
  <2>2. PlaceInv(p)'
    BY <1>6, <2>1, SubmitCodeEffect, EndsPlace, StaysPlace DEF Saving, Places
  <2> QED
    BY <1>0, <1>6, <2>2, SubmitCodeEffect, BaseControl DEF Kept
<1>7. CASE RegisterAccount(p)
  <2>1. PlaceInv(p)'
    BY <1>0, <1>7, RegisterAccountEffect, EndsPlace DEF PlaceInv, GoesTo, Saving
  <2> QED
    BY <1>7, <2>1, RegisterAccountEffect, Typed, BaseStep DEF RegisteredNow
<1> QED
  BY <1>1, <1>2, <1>3, <1>4, <1>5, <1>6, <1>7

\* link, and the saving of an account.
LEMMA SaveBase ==
    ASSUME BaseInv, NEW p \in Procs,
           \/ Link(p) \/ LinkProvisioned(p) \/ LinkThrows(p) \/ PutLink(p)
           \/ SaveRow(p) \/ SaveIdentity(p) \/ SavePrekeys(p) \/ DeletePending(p)
    PROVE  BaseInv'
<1>0. PlaceInv(p) /\ excused \in BOOLEAN
  BY DEF BaseInv, CoreTypes
<1>1. CASE Link(p)
  <2>1. job[p].cmd = "link"
    BY <1>0, <1>1, LinkEffect DEF PlaceInv
  <2>2. PlaceInv(p)'
    BY <1>1, <2>1, LinkEffect, EndsPlace, StaysPlace DEF Saving, Places
  <2> QED
    BY <1>0, <1>1, <2>2, LinkEffect, BaseControl DEF Kept
<1>2. CASE LinkProvisioned(p)
  <2>1. ASSUME NEW n \in Numbers, GoesTo(p, "putLink", n, job[p].cred, job[p].gen)
        PROVE  PlaceInv(p)'
    BY <1>0, <1>2, <2>1, LinkProvisionedEffect DEF PlaceInv, GoesTo, Saving
  <2> QED
    BY <1>0, <1>2, <2>1, LinkProvisionedEffect, EndsPlace, BaseControl DEF Kept
<1>3. CASE LinkThrows(p)
  BY <1>0, <1>3, EndEffect, EndsPlace, BaseControl DEF Kept
<1>4. CASE PutLink(p)
  <2>1. CASE Ends(p) /\ UNCHANGED <<lastCred, lastGen, devices>>
    BY <1>4, <2>1, PutLinkEffect, EndsPlace, Typed, BaseStep
  <2>2. CASE /\ LinkedNow(lastCred + 1, lastGen + 1)
             /\ \/ Ends(p)
                \/ GoesTo(p, "saveRow", job[p].num, lastCred + 1, lastGen + 1)
    <3>1. PlaceInv(p)'
      BY <1>0, <1>4, <2>2, PutLinkEffect, EndsPlace
         DEF PlaceInv, GoesTo, Saving, LinkedNow
    <3>2. /\ lastCred' \in Creds /\ lastGen' \in Gens /\ lastCred' = lastCred + 1
          /\ lastCred \in {0} \cup Creds /\ UNCHANGED <<sessions, pending>> /\ SessionInv
      BY <1>4, <2>2, PutLinkEffect DEF LinkedNow, BaseInv, CoreTypes
    <3>3. SessionInv'
      BY <3>2 DEF SessionInv, Creds
    <3> QED
      BY <1>4, <2>2, <3>1, <3>2, <3>3, PutLinkEffect, Typed, BaseStep DEF LinkedNow
  <2> QED
    BY <1>4, <2>1, <2>2, PutLinkEffect
<1>5. CASE SaveRow(p)
  <2>1. job[p].cred \in Creds /\ job[p].cmd \in {"verify", "link"}
    BY <1>0, <1>5, SaveRowEffect DEF PlaceInv, Saving
  <2>2. PlaceInv(p)'
    BY <1>5, <2>1, SaveRowEffect, StaysPlace DEF Saving, Places
  <2> QED
    BY <1>5, <2>2, SaveRowEffect, Typed, BaseStep DEF RestKept, RowChanges
<1>6. CASE SaveIdentity(p)
  <2>1. job[p].cred \in Creds /\ job[p].cmd \in {"verify", "link"}
    BY <1>0, <1>6, SaveIdentityEffect DEF PlaceInv, Saving
  <2>2. PlaceInv(p)'
    BY <1>6, <2>1, SaveIdentityEffect, EndsPlace, StaysPlace DEF Saving, Places
  <2> QED
    BY <1>6, <2>2, SaveIdentityEffect, Typed, BaseStep DEF RestKept, RowChanges
<1>7. CASE SavePrekeys(p)
  <2>1. job[p].cred \in Creds /\ job[p].cmd \in {"verify", "link"}
    BY <1>0, <1>7, SavePrekeysEffect DEF PlaceInv, Saving
  <2>2. PlaceInv(p)'
    BY <1>7, <2>1, SavePrekeysEffect, EndsPlace, StaysPlace DEF Saving, Places
  <2> QED
    BY <1>7, <2>2, SavePrekeysEffect, Typed, BaseStep DEF RestKept, RowChanges
<1>8. CASE DeletePending(p)
  <2>1. SessionInv'
    BY <1>8, DeletePendingEffect, Typed DEF SessionInv, FileChanges
  <2> QED
    BY <1>8, <2>1, DeletePendingEffect, EndsPlace, Typed, BaseStep DEF FileChanges
<1> QED
  BY <1>1, <1>2, <1>3, <1>4, <1>5, <1>6, <1>7, <1>8

\* unlink, delete-account, enable and disable, and a kill.
LEMMA RemoveBase ==
    ASSUME BaseInv, NEW p \in Procs,
           \/ Unlink(p) \/ DeleteConnect(p) \/ DeleteRequest(p) \/ WipeRow(p)
           \/ SetEnabled(p) \/ Crash(p)
    PROVE  BaseInv'
<1>0. PlaceInv(p) /\ excused \in BOOLEAN
  BY DEF BaseInv, CoreTypes
<1>1. CASE Unlink(p)
  BY <1>1, UnlinkEffect, EndsPlace, Typed, BaseStep DEF RestKept, RowChanges
<1>2. CASE DeleteConnect(p)
  <2>1. job[p].name \in Names
    BY <1>0, <1>2, DeleteConnectEffect DEF PlaceInv
  <2>2. ASSUME rows[job[p].name] /= None,
               GoesTo(p, "deleteRequest", rows[job[p].name].num,
                      rows[job[p].name].cred, job[p].gen)
        PROVE  PlaceInv(p)'
    <3>1. rows[job[p].name].cred \in Creds /\ rows[job[p].name].num \in Numbers
      BY <2>1, <2>2, Parts
    <3> QED
      BY <1>0, <1>2, <2>2, <3>1, DeleteConnectEffect DEF PlaceInv, GoesTo, Saving
  <2> QED
    BY <1>0, <1>2, <2>2, DeleteConnectEffect, EndsPlace, BaseControl DEF Kept
<1>3. CASE DeleteRequest(p)
  <2>1. job[p].cred \in Creds
    BY <1>0, <1>3, DeleteRequestEffect DEF PlaceInv
  <2>2. PlaceInv(p)'
    BY <1>3, <2>1, DeleteRequestEffect, EndsPlace, StaysPlace DEF Saving, Places
  <2> QED
    BY <1>3, <2>2, DeleteRequestEffect, Typed, BaseStep DEF DeletedNow
<1>4. CASE WipeRow(p)
  BY <1>4, WipeRowEffect, EndsPlace, Typed, BaseStep DEF RestKept, RowChanges
<1>5. CASE SetEnabled(p)
  BY <1>5, SetEnabledEffect, EndsPlace, Typed, BaseStep DEF RestKept, RowChanges
<1>6. CASE Crash(p)
  BY <1>0, <1>6, EndEffect, EndsPlace, BaseControl DEF Kept
<1> QED
  BY <1>1, <1>2, <1>3, <1>4, <1>5, <1>6

\* A command starts.
LEMMA StartBase ==
    ASSUME NEW p \in Procs, NEW cmd \in Commands, NEW a \in Names, NEW n \in Numbers,
           BaseInv, Start(p, cmd, a, n)
    PROVE  BaseInv'
<1>1. PlaceInv(p)'
  BY StartEffect DEF PlaceInv, Commands, Saving
<1> QED
  BY <1>1, StartEffect, BaseControl

\* A phone takes a number over.
LEMMA PhoneBase ==
    ASSUME NEW n \in Numbers, BaseInv, PhoneRegisters(n)
    PROVE  BaseInv'
<1>1. CoreTypes' /\ SessionInv'
  BY PhoneEffect DEF DeletedNow, BaseInv, CoreTypes, SessionInv
<1>2. ASSUME NEW q \in Procs PROVE PlaceInv(q)'
  BY PhoneEffect DEF BaseInv, PlaceInv
<1> QED
  BY <1>1, <1>2 DEF BaseInv

\* What a step of the provisioning socket, or of nobody here, leaves alone.
Still == UNCHANGED <<rows, pending, sessions, devices, primary, pc, job, lastCred,
                     lastGen, discarded, excused>>

\* Nothing changes, so the types and places do not.
LEMMA StillBase ==
    ASSUME BaseInv, Still
    PROVE  BaseInv'
<1>1. CoreTypes' /\ SessionInv'
  BY DEF Still, BaseInv, CoreTypes, SessionInv
<1>2. ASSUME NEW q \in Procs PROVE PlaceInv(q)'
  BY DEF Still, BaseInv, PlaceInv
<1> QED
  BY <1>1, <1>2 DEF BaseInv

\* A step is that of a command, of a phone or of none of them.
LEMMA NextSplit ==
    ASSUME [Next]_vars
    PROVE  \/ \E p \in Procs, cmd \in Commands, a \in Names, n \in Numbers :
                Start(p, cmd, a, n)
           \/ \E p \in Procs : Command(p) \/ Crash(p)
           \/ \E n \in Numbers : PhoneRegisters(n)
           \/ Still
<1>1. UNCHANGED regVars => Still
  BY DEF regVars, localVars, serverVars, freshVars, historyVars, Still
<1>2. CASE UNCHANGED vars
  BY <1>1, <1>2 DEF vars
<1>3. ASSUME NEW p \in Procs, Provision(p) \/ (Listener(p) /\ UNCHANGED regVars)
      PROVE  Still
  BY <1>1, <1>3 DEF Provision
<1>4. CASE Next
  BY <1>3, <1>4 DEF Next
<1> QED
  BY <1>2, <1>4

\* Every step keeps the types and the places.
LEMMA BaseNext ==
    ASSUME BaseInv, [Next]_vars
    PROVE  BaseInv'
<1>1. ASSUME NEW p \in Procs, Command(p) \/ Crash(p) PROVE BaseInv'
  BY <1>1, RegisterBase, SaveBase, RemoveBase DEF Command
<1> QED
  BY <1>1, StartBase, PhoneBase, StillBase, NextSplit

\* Before the first command.
LEMMA InitBase == Init => BaseInv
<1> SUFFICES ASSUME Init PROVE BaseInv
  OBVIOUS
<1>1. 0 \in Gens /\ "idle" \in Places
  BY RegistrationAssumption DEF Gens, Places
<1>2. CoreTypes
  BY <1>1, NoJobType DEF Init, CoreTypes
<1>3. SessionInv
  BY DEF Init, SessionInv
<1>4. ASSUME NEW p \in Procs PROVE PlaceInv(p)
  BY DEF Init, PlaceInv, Saving
<1> QED
  BY <1>2, <1>3, <1>4 DEF BaseInv

\* The database, the pending files, the server's sessions and devices and the
\* processes' locals stay in their domains, with or without overlapping
\* commands and whatever is killed: no command reads a pending file, a row or
\* a session that is not there (cmdVerify() and cmdDeleteAccount() throw
\* first).
THEOREM RegistrationTypeOK == Spec => []TypeOK
<1>1. BaseInv /\ [Next]_vars => BaseInv'
  BY BaseNext
<1>2. ProvInv /\ [Next]_vars => ProvInv'
  BY NextKeeps
<1>3. BaseInv /\ ProvInv => TypeOK
  BY DEF BaseInv, CoreTypes, ProvInv, TypeOK
<1> QED
  BY <1>1, <1>2, <1>3, InitBase, InitProvInv, PTL DEF Spec

-----------------------------------------------------------------------------
(* Numbers                                                                 *)

\* No row is added, and none gets another number.
NumbersKept ==
    /\ excused => excused'
    /\ \A a \in Names : rows'[a] /= None =>
         rows[a] /= None /\ rows'[a].num = rows[a].num

\* A step that adds no row and starts no command.
LEMMA OwnerStep ==
    ASSUME OwnerInv, BaseInv', NEW p \in Procs, Moves(p), NumbersKept,
           \/ job'[p].cmd \notin Claiming
           \/ /\ job'[p].cmd = job[p].cmd /\ job'[p].name = job[p].name
              /\ job'[p].snap = job[p].snap,
           pc'[p] \in Checked => NumberFree(job'[p], job'[p].num)
    PROVE  OwnerInv'
<1>2. NumberOwnedOnce'
  BY DEF OwnerInv, NumberOwnedOnce, Saved, NumbersKept
<1>3. \A q \in Procs : job'[q].cmd \in Claiming =>
        /\ job'[q].cmd = job[q].cmd /\ job'[q].name = job[q].name
        /\ job'[q].snap = job[q].snap
  BY DEF Moves
<1>4. ASSUME NEW q \in Procs PROVE ClaimInv(q)'
  <2>1. ASSUME job'[q].cmd \in Claiming, ~excused'
        PROVE  /\ \A r \in Procs : job'[r].cmd \in Claiming => r = q
               /\ \A a \in Names : a /= job'[q].name /\ rows'[a] /= None =>
                    [name |-> a, num |-> rows'[a].num] \in job'[q].snap
    BY <1>3, <2>1 DEF OwnerInv, ClaimInv, NumbersKept
  <2>2. pc'[q] \in Checked => NumberFree(job'[q], job'[q].num)
    BY DEF OwnerInv, ClaimInv, Moves
  <2> QED
    BY <2>1, <2>2 DEF ClaimInv, NumberFree
<1> QED
  BY <1>2, <1>4 DEF OwnerInv

\* The same when the process ends, or goes on to a place where the number
\* has not been checked, or was.
LEMMA OwnerEnds ==
    ASSUME OwnerInv, BaseInv', NEW p \in Procs, Moves(p), NumbersKept, Ends(p)
    PROVE  OwnerInv'
  BY OwnerStep, NoneAssumption DEF Ends, NoJob, Claiming, Commands, Checked, Saving

\* The same for a step to a place with the job as it is.
LEMMA OwnerStays ==
    ASSUME OwnerInv, BaseInv', NEW p \in Procs, Moves(p), NumbersKept,
           NEW place \in Places, Stays(p, place), place \in Checked => pc[p] \in Checked
    PROVE  OwnerInv'
  BY OwnerStep DEF Stays, OwnerInv, ClaimInv

\* The same for a step to a place with a changed job.
LEMMA OwnerGoes ==
    ASSUME OwnerInv, BaseInv', NEW p \in Procs, Moves(p), NumbersKept,
           NEW place \in Places, NEW num, NEW cred, NEW gen,
           GoesTo(p, place, num, cred, gen),
           place \in Checked => NumberFree(job[p], num)
    PROVE  OwnerInv'
<1>1. NumberFree(job[p], num) => NumberFree(job'[p], job'[p].num)
  BY DEF NumberFree, GoesTo
<1> QED
  BY <1>1, OwnerStep DEF GoesTo

\* saveAccount() adds a row, or gives one a number that nobody has.
LEMMA SaveRowOwner ==
    ASSUME OwnerInv, BaseInv', NEW p \in Procs, SaveRow(p)
    PROVE  OwnerInv'
<1> DEFINE a == job[p].name
<1>1. BaseInv
  BY DEF OwnerInv
<1>2. /\ pc[p] = "saveRow" /\ Moves(p) /\ excused' = excused
      /\ Stays(p, "saveIdentity") /\ RowChanges(a) /\ rows'[a] /= None
      /\ rows'[a].num = job[p].num
  BY <1>1, SaveRowEffect
<1>3. a \in Names /\ job[p].cmd \in Claiming
  BY <1>1, <1>2, Parts DEF PlaceInv, Saving, Claiming
<1>4. /\ NumberFree(job[p], job[p].num)
      /\ ~excused => /\ \A q \in Procs : job[q].cmd \in Claiming => q = p
                     /\ \A b \in Names : b /= a /\ rows[b] /= None =>
                          [name |-> b, num |-> rows[b].num] \in job[p].snap
  BY <1>2, <1>3 DEF OwnerInv, ClaimInv, Checked, Saving
<1>5. ~excused => \A b \in Names : b /= a /\ rows[b] /= None => rows[b].num /= job[p].num
  BY <1>4 DEF NumberFree
<1>7. NumberOwnedOnce'
  BY <1>2, <1>3, <1>5 DEF OwnerInv, NumberOwnedOnce, Saved, RowChanges
<1>8. ASSUME NEW q \in Procs PROVE ClaimInv(q)'
  <2>1. job'[q] = job[q] /\ (pc'[q] \in Checked => pc[q] \in Checked)
    BY <1>2 DEF Moves, Stays, Checked, Saving
  <2>2. job'[q].cmd \in Claiming /\ ~excused' => q = p
    BY <1>2, <1>4, <2>1
  <2>3. job'[p].cmd \in Claiming /\ ~excused' =>
          /\ \A r \in Procs : job'[r].cmd \in Claiming => r = p
          /\ \A b \in Names : b /= job'[p].name /\ rows'[b] /= None =>
               [name |-> b, num |-> rows'[b].num] \in job'[p].snap
    BY <1>2, <1>4 DEF Moves, Stays, RowChanges
  <2>4. pc'[q] \in Checked => NumberFree(job'[q], job'[q].num)
    BY <2>1 DEF OwnerInv, ClaimInv
  <2> QED
    BY <2>2, <2>3, <2>4 DEF ClaimInv, NumberFree
<1> QED
  BY <1>7, <1>8 DEF OwnerInv

\* A command starts: what it loads are the numbers of all other accounts,
\* unless it overlooks one.
LEMMA StartOwner ==
    ASSUME NEW p \in Procs, NEW cmd \in Commands, NEW a \in Names, NEW n \in Numbers,
           OwnerInv, BaseInv', Start(p, cmd, a, n)
    PROVE  OwnerInv'
<1>1. /\ rows' = rows /\ Moves(p) /\ pc'[p] = cmd /\ job'[p].cmd = cmd
      /\ job'[p].name = a /\ (excused => excused')
      /\ cmd \in Claiming /\ ~excused' =>
           /\ ~Overlooked(a, job'[p].snap)
           /\ \A q \in Procs : job[q].cmd \notin Claiming
  BY StartEffect DEF OwnerInv
<1>2. cmd \notin Checked
  BY DEF Commands, Checked, Saving
<1>3. CASE cmd \notin Claiming
  BY <1>1, <1>2, <1>3, OwnerStep DEF NumbersKept
<1>4. CASE cmd \in Claiming
  <2>2. NumberOwnedOnce'
    BY <1>1 DEF OwnerInv, NumberOwnedOnce, Saved
  <2>3. ~excused' => \A b \in Names : b /= a /\ rows'[b] /= None =>
          [name |-> b, num |-> rows'[b].num] \in job'[p].snap
    BY <1>1, <1>4 DEF Overlooked, Saved
  <2>4. ASSUME NEW q \in Procs PROVE ClaimInv(q)'
    <3>1. ~excused' /\ job'[q].cmd \in Claiming => q = p
      BY <1>1, <1>4 DEF Moves
    <3>2. ~excused' => \A r \in Procs : job'[r].cmd \in Claiming => r = p
      BY <1>1, <1>4 DEF Moves
    <3>3. pc'[q] \in Checked => NumberFree(job'[q], job'[q].num)
      BY <1>1, <1>2 DEF OwnerInv, ClaimInv, Moves
    <3> QED
      BY <1>1, <2>3, <3>1, <3>2, <3>3 DEF ClaimInv, NumberFree
  <2> QED
    BY <2>2, <2>4 DEF OwnerInv
<1> QED
  BY <1>3, <1>4

\* The other steps of the commands.
LEMMA CommandOwner ==
    ASSUME OwnerInv, BaseInv', NEW p \in Procs, Command(p) \/ Crash(p)
    PROVE  OwnerInv'
<1>0. BaseInv /\ (rows' = rows /\ excused' = excused => NumbersKept)
  BY DEF OwnerInv, NumbersKept
<1>k. Kept => NumbersKept
  BY <1>0 DEF Kept
<1>1. CASE Register(p)
  BY <1>0, <1>1, RegisterEffect, OwnerEnds, OwnerGoes DEF Checked, Saving, Places
<1>2. CASE SavePending(p)
  BY <1>0, <1>2, SavePendingEffect, OwnerEnds, OwnerStays DEF Checked, Saving, Places
<1>3. CASE Captcha(p)
  BY <1>0, <1>k, <1>3, CaptchaEffect, OwnerEnds, OwnerGoes DEF Checked, Saving, Places
<1>4. CASE RequestCode(p)
  BY <1>0, <1>k, <1>4, RequestCodeEffect, OwnerEnds
<1>5. CASE Verify(p)
  BY <1>0, <1>k, <1>5, VerifyEffect, OwnerEnds, OwnerGoes DEF Places
<1>6. CASE SubmitCode(p)
  BY <1>0, <1>k, <1>6, SubmitCodeEffect, OwnerEnds, OwnerStays DEF Checked, Places
<1>7. CASE RegisterAccount(p)
  <2>1. NumberFree(job[p], job[p].num)
    BY <1>0, <1>7, RegisterAccountEffect DEF OwnerInv, ClaimInv, Checked
  <2> QED
    BY <1>0, <1>7, <2>1, RegisterAccountEffect, OwnerEnds, OwnerGoes DEF Places
<1>8. CASE Link(p)
  BY <1>0, <1>k, <1>8, LinkEffect, OwnerEnds, OwnerStays DEF Checked, Saving, Places
<1>9. CASE LinkProvisioned(p)
  BY <1>0, <1>k, <1>9, LinkProvisionedEffect, OwnerEnds, OwnerGoes DEF Places
<1>10. CASE LinkThrows(p) \/ Crash(p)
  BY <1>0, <1>k, <1>10, EndEffect, OwnerEnds
<1>11. CASE PutLink(p)
  <2>1. NumberFree(job[p], job[p].num)
    BY <1>0, <1>11, PutLinkEffect DEF OwnerInv, ClaimInv, Checked
  <2> QED
    BY <1>0, <1>11, <2>1, PutLinkEffect, OwnerEnds, OwnerGoes DEF Places
<1>12. CASE SaveRow(p)
  BY <1>12, SaveRowOwner
<1>13. CASE SaveIdentity(p)
  <2>1. NumbersKept
    BY <1>0, <1>13, SaveIdentityEffect DEF NumbersKept, RowChanges
  <2> QED
    BY <1>0, <1>13, <2>1, SaveIdentityEffect, OwnerEnds, OwnerStays DEF Checked, Saving, Places
<1>14. CASE SavePrekeys(p)
  <2>1. NumbersKept
    BY <1>0, <1>14, SavePrekeysEffect DEF NumbersKept, RowChanges
  <2> QED
    BY <1>0, <1>14, <2>1, SavePrekeysEffect, OwnerEnds, OwnerStays DEF Checked, Saving, Places
<1>15. CASE DeletePending(p)
  BY <1>0, <1>15, DeletePendingEffect, OwnerEnds
<1>16. CASE Unlink(p)
  <2>1. NumbersKept
    BY <1>0, <1>16, UnlinkEffect DEF NumbersKept, RowChanges
  <2> QED
    BY <1>0, <1>16, <2>1, UnlinkEffect, OwnerEnds
<1>17. CASE DeleteConnect(p)
  BY <1>0, <1>k, <1>17, DeleteConnectEffect, OwnerEnds, OwnerGoes DEF Checked, Saving, Places
<1>18. CASE DeleteRequest(p)
  BY <1>0, <1>18, DeleteRequestEffect, OwnerEnds, OwnerStays DEF Checked, Saving, Places
<1>19. CASE WipeRow(p)
  <2>1. NumbersKept
    BY <1>0, <1>19, WipeRowEffect DEF NumbersKept, RowChanges
  <2> QED
    BY <1>0, <1>19, <2>1, WipeRowEffect, OwnerEnds
<1>20. CASE SetEnabled(p)
  <2>1. NumbersKept
    BY <1>0, <1>20, SetEnabledEffect DEF NumbersKept, RowChanges
  <2> QED
    BY <1>0, <1>20, <2>1, SetEnabledEffect, OwnerEnds
<1> QED
  BY <1>1, <1>2, <1>3, <1>4, <1>5, <1>6, <1>7, <1>8, <1>9, <1>10, <1>11, <1>12, <1>13,
     <1>14, <1>15, <1>16, <1>17, <1>18, <1>19, <1>20 DEF Command

\* A step that touches neither rows nor processes.
LEMMA OwnerStill ==
    ASSUME OwnerInv, BaseInv', UNCHANGED <<rows, pc, job, excused>>
    PROVE  OwnerInv'
<1>1. ASSUME NEW q \in Procs PROVE ClaimInv(q)'
  BY DEF OwnerInv, ClaimInv, NumberFree
<1> QED
  BY <1>1 DEF OwnerInv, NumberOwnedOnce, Saved

\* requireE164NotUsedByOtherAccount() in cmdVerify() and cmdLink() keeps two
\* accounts from getting one number, whatever is killed and whichever commands
\* overlap otherwise, unless two commands that claim a number ran at once or
\* one of them loaded a configuration without some other saved account,
\* because it is disabled or because DaemonConfig::load() skipped it: those
\* two gaps are the only ones.
THEOREM NumberTheorem == Spec => []NumberOwnedOnce
<1>1. Init => OwnerInv
  <2> SUFFICES ASSUME Init PROVE OwnerInv
    OBVIOUS
  <2>1. \A a \in Names : rows[a] = None
    BY DEF Init
  <2>2. ASSUME NEW p \in Procs PROVE ClaimInv(p)
    BY NoneAssumption DEF Init, ClaimInv, NoJob, Claiming, Commands, Checked, Saving
  <2> QED
    BY <2>1, <2>2, InitBase DEF OwnerInv, NumberOwnedOnce, Saved
<1>2. OwnerInv /\ [Next]_vars => OwnerInv'
  <2> SUFFICES ASSUME OwnerInv, [Next]_vars PROVE OwnerInv'
    OBVIOUS
  <2>1. BaseInv /\ BaseInv'
    BY BaseNext DEF OwnerInv
  <2>2. ASSUME NEW n \in Numbers, PhoneRegisters(n) PROVE OwnerInv'
    BY <2>1, <2>2, PhoneEffect, OwnerStill
  <2>3. CASE Still
    BY <2>1, <2>3, OwnerStill DEF Still
  <2> QED
    BY <2>1, <2>2, <2>3, NextSplit, StartOwner, CommandOwner
<1>3. OwnerInv => NumberOwnedOnce
  BY DEF OwnerInv
<1> QED
  BY <1>1, <1>2, <1>3, PTL DEF Spec

-----------------------------------------------------------------------------
(* Passwords and keys                                                      *)

\* No device gets the password c, and no number gets it as its primary.
NotGiven(c) ==
    \A n \in Numbers :
      /\ \A d \in devices'[n] : d.cred = c => d \in devices[n]
      /\ primary'[n] = c => primary[n] = c

\* The row and the pending file of a are left alone.
Untouched(a) == rows'[a] = rows[a] /\ pending'[a] = pending[a]

\* What a process can rely on while it does not move.
LEMMA ProcKept ==
    ASSUME RegInv, NEW q \in Procs, pc'[q] = pc[q], job'[q] = job[q],
           pc[q] /= "idle" => Untouched(job[q].name),
           pc[q] \in Saving \cup {"wipe"} => NotGiven(job[q].cred)
    PROVE  ProcInv(q)'
<1>1. ProcInv(q)
  BY DEF RegInv
<1>2. CASE pc[q] = "idle"
  BY <1>2 DEF ProcInv, Saving
<1>3. CASE pc[q] /= "idle"
  <2>1. rows'[job[q].name] = rows[job[q].name] /\ pending'[job[q].name] = pending[job[q].name]
    BY <1>3 DEF Untouched
  <2>2. pc[q] \in Saving => KeysAre(job[q].cred, job[q].gen)'
    BY <1>1 DEF ProcInv, KeysAre, NotGiven
  <2>3. pc[q] = "wipe" =>
          \A n \in Numbers : primary'[n] /= job[q].cred /\ ~Known(n, job[q].cred)'
    BY <1>1 DEF ProcInv, Known, NotGiven
  <2> QED
    BY <1>1, <2>1, <2>2, <2>3 DEF ProcInv, FileOf, RowOf, Saving
<1> QED
  BY <1>2, <1>3

\* The passwords that are held are those that were, and perhaps a new one of
\* process p.
HoldsStep(p) ==
    \A b \in Names, c \in Creds : Holds(b, c)' =>
      Holds(b, c) \/ (b = job'[p].name /\ c = lastCred + 1 /\ lastCred' = c)

\* A new password is above all that were made, so it has no other owner.
LEMMA OwnedKept ==
    ASSUME RegInv, NEW p \in Procs, HoldsStep(p), lastCred' \in {lastCred, lastCred + 1}
    PROVE  Owned'
<1>1. lastCred \in Nat
  BY RegistrationAssumption DEF RegInv, BaseInv, CoreTypes, Creds
<1>2. ASSUME NEW a \in Names, NEW c \in Creds, Holds(a, c)' PROVE c <= lastCred'
  BY <1>1, <1>2 DEF HoldsStep, RegInv, Owned, Creds
<1>3. ASSUME NEW a \in Names, NEW b \in Names, NEW c \in Creds, Holds(a, c)', Holds(b, c)'
      PROVE  a = b
  <2>1. /\ Holds(a, c) \/ (a = job'[p].name /\ c = lastCred + 1)
        /\ Holds(b, c) \/ (b = job'[p].name /\ c = lastCred + 1)
    BY <1>3 DEF HoldsStep
  <2>2. /\ Holds(a, c) => c <= lastCred
        /\ Holds(b, c) => c <= lastCred
        /\ Holds(a, c) /\ Holds(b, c) => a = b
    BY DEF RegInv, Owned
  <2> QED
    BY <1>1, <2>1, <2>2
<1> QED
  BY <1>2, <1>3 DEF Owned

\* Where held passwords come from.
LEMMA HoldsFrame ==
    ASSUME RegInv, NEW p \in Procs, Moves(p),
           \A b \in Names : pending'[b] /= None => Holds(b, pending'[b].cred),
           \A b \in Names : rows'[b] /= None => Holds(b, rows'[b].cred),
           job'[p].name \in Names /\ job'[p].cred \in Creds =>
             \/ Holds(job'[p].name, job'[p].cred)
             \/ job'[p].cred = lastCred + 1 /\ lastCred' = lastCred + 1
    PROVE  HoldsStep(p)
<1> SUFFICES ASSUME NEW b \in Names, NEW c \in Creds, Holds(b, c)'
             PROVE  Holds(b, c) \/ (b = job'[p].name /\ c = lastCred + 1 /\ lastCred' = c)
  BY DEF HoldsStep
<1>1. CASE pending'[b] /= None /\ pending'[b].cred = c
  BY <1>1
<1>2. CASE rows'[b] /= None /\ rows'[b].cred = c
  BY <1>2
<1>3. ASSUME NEW q \in Procs, job'[q].name = b, job'[q].cred = c
      PROVE  Holds(b, c) \/ (b = job'[p].name /\ c = lastCred + 1 /\ lastCred' = c)
  <2>1. CASE q = p
    BY <1>3, <2>1
  <2>2. CASE q /= p
    BY <1>3, <2>2 DEF Moves, Holds
  <2> QED
    BY <2>1, <2>2
<1> QED
  BY <1>1, <1>2, <1>3 DEF Holds

\* The files and rows that are left alone hold what they held.
LEMMA HeldByLocal ==
    ASSUME NEW b \in Names
    PROVE  /\ pending'[b] = pending[b] /\ pending'[b] /= None => Holds(b, pending'[b].cred)
           /\ rows'[b] = rows[b] /\ rows'[b] /= None => Holds(b, rows'[b].cred)
           /\ \A p \in Procs : job[p].name = b => Holds(b, job[p].cred)
  BY DEF Holds

\* No two commands for one name, as long as none starts.
LEMMA AloneKept ==
    ASSUME RegInv, NEW p \in Procs, Moves(p), job'[p].name \in {None, job[p].name}
    PROVE  Alone'
  BY DEF RegInv, Alone, Moves

\* Process p touches its own row and file only, and the server knows new
\* passwords only from it.
OwnOnly(p) ==
    /\ \A b \in Names : b /= job[p].name => Untouched(b)
    /\ \A n \in Numbers :
         /\ \A d \in devices'[n] :
              \/ d \in devices[n]
              \/ d.cred = lastCred + 1
              \/ d.cred = job[p].cred /\ job[p].name \in Names
         /\ \/ primary'[n] \in {primary[n], 0}
            \/ primary'[n] = job[p].cred /\ job[p].name \in Names

\* A password that another name holds is not given to anybody.
LEMMA OtherNotGiven ==
    ASSUME RegInv, NEW p \in Procs, OwnOnly(p), NEW b \in Names, b /= job[p].name,
           NEW c \in Creds, Holds(b, c)
    PROVE  NotGiven(c)
<1>1. c <= lastCred /\ lastCred \in Nat /\ c /= 0 /\ c \in Nat
  BY RegistrationAssumption DEF RegInv, Owned, BaseInv, CoreTypes, Creds
<1>2. job[p].name \in Names => c /= job[p].cred
  <2>1. job[p].name \in Names => Holds(job[p].name, job[p].cred)
    BY HeldByLocal
  <2> QED
    BY <2>1 DEF RegInv, Owned
<1>3. c /= lastCred + 1
  BY <1>1
<1> QED
  BY <1>1, <1>2, <1>3 DEF OwnOnly, NotGiven

\* A step of process p that leaves the others alone: what is left to show.
LEMMA RegStep ==
    ASSUME RegInv, BaseInv', NEW p \in Procs, Moves(p), OwnOnly(p), HoldsStep(p),
           lastCred' \in {lastCred, lastCred + 1}, Alone', ServerInv',
           \A a \in Names : a = job[p].name => RowKeys(a)',
           ProcInv(p)', CredentialKept'
    PROVE  RegInv'
<1>1. ASSUME NEW b \in Names, b /= job[p].name PROVE RowKeys(b)'
  <2>1. rows'[b] = rows[b]
    BY <1>1 DEF OwnOnly, Untouched
  <2>2. rows[b] /= None => Holds(b, rows[b].cred) /\ rows[b].cred \in Creds
    BY Parts DEF Holds, RegInv
  <2>3. rows[b] /= None => NotGiven(rows[b].cred)
    BY <1>1, <2>2, OtherNotGiven
  <2>4. RowKeys(b)
    BY DEF RegInv
  <2> QED
    BY <2>1, <2>3, <2>4 DEF RowKeys, KeysAre, NotGiven
<1>2. ASSUME NEW q \in Procs, q /= p PROVE ProcInv(q)'
  <2>1. pc'[q] = pc[q] /\ job'[q] = job[q]
    BY <1>2 DEF Moves
  <2>2. pc[q] /= "idle" => job[q].name \in Names /\ job[q].name /= None
    BY NoneAssumption DEF RegInv, BaseInv, PlaceInv
  <2>3. pc[q] /= "idle" => job[q].name /= job[p].name
    BY <1>2, <2>2 DEF RegInv, Alone
  <2>4. pc[q] /= "idle" => Untouched(job[q].name)
    BY <2>2, <2>3 DEF OwnOnly
  <2>5. pc[q] \in Saving \cup {"wipe"} => job[q].cred \in Creds /\ pc[q] /= "idle"
    BY DEF RegInv, BaseInv, PlaceInv, Saving
  <2>6. pc[q] \in Saving \cup {"wipe"} => NotGiven(job[q].cred)
    BY <2>2, <2>3, <2>5, HeldByLocal, OtherNotGiven
  <2> QED
    BY <2>1, <2>4, <2>6, ProcKept
<1>3. Owned'
  BY OwnedKept
<1>4. \A b \in Names : RowKeys(b)'
  BY <1>1
<1>5. \A q \in Procs : ProcInv(q)'
  BY <1>2
<1> QED
  BY <1>3, <1>4, <1>5 DEF RegInv

\* A step that changes neither files nor rows nor what the server knows.
LEMMA RegControl ==
    ASSUME RegInv, BaseInv', NEW p \in Procs, Moves(p), SessionsKept, Alone',
           UNCHANGED <<rows, pending, devices, primary, lastCred, lastGen, discarded>>,
           job'[p].name \in Names /\ job'[p].cred \in Creds =>
             Holds(job'[p].name, job'[p].cred),
           ProcInv(p)'
    PROVE  RegInv'
<1>1. OwnOnly(p)
  BY DEF OwnOnly, Untouched
<1>2. HoldsStep(p)
  BY HoldsFrame, HeldByLocal
<1>3. ServerInv'
  <2>1. \A n \in Numbers : \A d \in devices[n] : d.cred \in Creds
    BY DEF RegInv, BaseInv, CoreTypes
  <2>2. \A n \in Numbers : primary[n] /= 0 => primary[n] \in Creds
    BY DEF RegInv, BaseInv, CoreTypes
  <2> QED
    BY <2>1, <2>2 DEF RegInv, ServerInv, SessionsKept
<1>4. \A b \in Names : RowKeys(b)'
  BY DEF RegInv, RowKeys, KeysAre
<1>5. CredentialKept'
  BY DEF RegInv, CredentialKept, Finished, Saved
<1>6. \A a \in Names : a = job[p].name => RowKeys(a)'
  BY <1>4
<1>7. lastCred' \in {lastCred, lastCred + 1}
  OBVIOUS
<1> QED
  BY <1>1, <1>2, <1>3, <1>5, <1>6, <1>7, RegStep

\* A process that ended.
LEMMA EndsProc ==
    ASSUME RegInv, NEW p \in Procs, Moves(p), Ends(p)
    PROVE  ProcInv(p)' /\ Alone' /\ job'[p].name \notin Names
<1>1. job'[p].name = None
  BY DEF Ends, NoJob
<1>2. ProcInv(p)'
  BY DEF Ends, ProcInv, Saving
<1> QED
  BY <1>1, <1>2, AloneKept, NoneAssumption

\* What is at hand for a process that runs.
LEMMA Running ==
    ASSUME RegInv, NEW p \in Procs, pc[p] /= "idle"
    PROVE  /\ BaseInv /\ PlaceInv(p) /\ ProcInv(p) /\ job[p] \in Jobs
           /\ job[p].name \in Names /\ job[p].name /= None /\ job[p].num \in Numbers
           /\ Holds(job[p].name, job[p].cred)
           /\ lastCred \in Nat /\ lastCred + 1 \notin {lastCred, 0}
<1>1. BaseInv /\ PlaceInv(p) /\ ProcInv(p) /\ job[p] \in Jobs
  BY DEF RegInv, BaseInv, CoreTypes
<1>2. job[p].name \in Names /\ job[p].name /= None /\ job[p].num \in Numbers
  BY <1>1, NoneAssumption DEF PlaceInv
<1>3. lastCred \in Nat
  BY RegistrationAssumption DEF RegInv, BaseInv, CoreTypes, Creds
<1> QED
  BY <1>1, <1>2, <1>3, HeldByLocal

\* A step that only ends the process.
LEMMA ControlEnds ==
    ASSUME RegInv, BaseInv', NEW p \in Procs, Moves(p), SessionsKept, Ends(p),
           UNCHANGED <<rows, pending, devices, primary, lastCred, lastGen, discarded>>
    PROVE  RegInv'
  BY EndsProc, RegControl

\* A step to a place where the process needs to know no more than it did.
LEMMA ControlGoes ==
    ASSUME RegInv, BaseInv', NEW p \in Procs, Moves(p), SessionsKept,
           UNCHANGED <<rows, pending, devices, primary, lastCred, lastGen, discarded>>,
           job'[p].name = job[p].name,
           job'[p].name \in Names /\ job'[p].cred \in Creds =>
             Holds(job'[p].name, job'[p].cred),
           ProcInv(p)'
    PROVE  RegInv'
  BY AloneKept, RegControl

\* The steps that only read: where they lead, the process has just looked.
LEMMA ReadingReg ==
    ASSUME RegInv, BaseInv', NEW p \in Procs,
           \/ Captcha(p) \/ RequestCode(p) \/ Verify(p) \/ SubmitCode(p)
           \/ Link(p) \/ LinkProvisioned(p) \/ LinkThrows(p) \/ Crash(p)
           \/ DeleteConnect(p)
    PROVE  RegInv'
<1>0. BaseInv /\ ProcInv(p)
  BY DEF RegInv
<1>k. Kept => UNCHANGED <<rows, pending, devices, primary, lastCred, lastGen, discarded>>
  BY DEF Kept
<1>h. pc[p] /= "idle" => Holds(job[p].name, job[p].cred)
  BY Running
<1>1. CASE Captcha(p)
  <2>1. pc[p] = "captcha" /\ Kept /\ SessionsKept /\ Moves(p)
    BY <1>0, <1>1, CaptchaEffect
  <2>2. ASSUME pending[job[p].name] /= None,
               GoesTo(p, "requestCode", job[p].num, pending[job[p].name].cred, job[p].gen)
        PROVE  RegInv'
    <3>1. ProcInv(p)'
      BY <2>2 DEF GoesTo, ProcInv, Saving
    <3>2. job'[p].name = job[p].name /\ Holds(job'[p].name, job'[p].cred)
      BY <2>2 DEF GoesTo, Holds
    <3> QED
      BY <1>k, <2>1, <3>1, <3>2, ControlGoes
  <2> QED
    BY <1>0, <1>1, <1>k, <2>1, <2>2, CaptchaEffect, ControlEnds
<1>2. CASE RequestCode(p)
  BY <1>0, <1>2, <1>k, RequestCodeEffect, ControlEnds
<1>3. CASE Verify(p)
  <2>1. pc[p] = "verify" /\ Kept /\ SessionsKept /\ Moves(p)
    BY <1>0, <1>3, VerifyEffect
  <2>2. ASSUME rows[job[p].name] = None, pending[job[p].name] /= None, NEW n \in Numbers,
               GoesTo(p, "submitCode", n, pending[job[p].name].cred, job[p].gen)
        PROVE  RegInv'
    <3>1. ProcInv(p)'
      BY <2>1, <2>2 DEF GoesTo, ProcInv, Saving, FileOf, Kept
    <3>2. job'[p].name = job[p].name /\ Holds(job'[p].name, job'[p].cred)
      BY <2>2 DEF GoesTo, Holds
    <3> QED
      BY <1>k, <2>1, <3>1, <3>2, ControlGoes
  <2> QED
    BY <1>0, <1>3, <1>k, <2>1, <2>2, VerifyEffect, ControlEnds
<1>4. CASE SubmitCode(p)
  <2>1. pc[p] = "submitCode" /\ Kept /\ SessionsKept /\ Moves(p)
    BY <1>0, <1>4, SubmitCodeEffect
  <2>2. ASSUME Stays(p, "registerAccount") PROVE RegInv'
    <3>1. ProcInv(p)'
      BY <1>0, <2>1, <2>2 DEF Stays, ProcInv, Saving, FileOf, Kept
    <3>2. job'[p].name = job[p].name /\ Holds(job'[p].name, job'[p].cred)
      BY <1>h, <2>1, <2>2 DEF Stays
    <3> QED
      BY <1>k, <2>1, <3>1, <3>2, ControlGoes
  <2> QED
    BY <1>0, <1>4, <1>k, <2>1, <2>2, SubmitCodeEffect, ControlEnds
<1>5. CASE Link(p)
  <2>1. pc[p] = "link" /\ Kept /\ SessionsKept /\ Moves(p)
    BY <1>0, <1>5, LinkEffect
  <2>2. ASSUME rows[job[p].name] = None, Stays(p, "provision") PROVE RegInv'
    <3>1. ProcInv(p)'
      BY <2>1, <2>2 DEF Stays, ProcInv, Saving, Kept
    <3>2. job'[p].name = job[p].name /\ Holds(job'[p].name, job'[p].cred)
      BY <1>h, <2>1, <2>2 DEF Stays
    <3> QED
      BY <1>k, <2>1, <3>1, <3>2, ControlGoes
  <2> QED
    BY <1>0, <1>5, <1>k, <2>1, <2>2, LinkEffect, ControlEnds
<1>6. CASE LinkProvisioned(p)
  <2>1. pc[p] = "provision" /\ Kept /\ SessionsKept /\ Moves(p)
    BY <1>0, <1>6, LinkProvisionedEffect
  <2>2. ASSUME NEW n \in Numbers, GoesTo(p, "putLink", n, job[p].cred, job[p].gen)
        PROVE  RegInv'
    <3>1. ProcInv(p)'
      BY <1>0, <2>1, <2>2 DEF GoesTo, ProcInv, Saving, Kept
    <3>2. job'[p].name = job[p].name /\ Holds(job'[p].name, job'[p].cred)
      BY <1>h, <2>1, <2>2 DEF GoesTo
    <3> QED
      BY <1>k, <2>1, <3>1, <3>2, ControlGoes
  <2> QED
    BY <1>0, <1>6, <1>k, <2>1, <2>2, LinkProvisionedEffect, ControlEnds
<1>7. CASE LinkThrows(p) \/ Crash(p)
  BY <1>0, <1>7, <1>k, EndEffect, ControlEnds
<1>8. CASE DeleteConnect(p)
  <2>1. pc[p] = "delete" /\ Kept /\ SessionsKept /\ Moves(p)
    BY <1>0, <1>8, DeleteConnectEffect
  <2>2. ASSUME rows[job[p].name] /= None,
               GoesTo(p, "deleteRequest", rows[job[p].name].num, rows[job[p].name].cred,
                      job[p].gen)
        PROVE  RegInv'
    <3>1. ProcInv(p)'
      BY <2>1, <2>2 DEF GoesTo, ProcInv, Saving, Kept
    <3>2. job'[p].name = job[p].name /\ Holds(job'[p].name, job'[p].cred)
      BY <2>2 DEF GoesTo, Holds
    <3> QED
      BY <1>k, <2>1, <3>1, <3>2, ControlGoes
  <2> QED
    BY <1>0, <1>8, <1>k, <2>1, <2>2, DeleteConnectEffect, ControlEnds
<1> QED
  BY <1>1, <1>2, <1>3, <1>4, <1>5, <1>6, <1>7, <1>8

\* The password c can be taken up again under the name a.
Keeps(a, c) ==
    \/ Finished(a) /\ rows[a].cred = c
    \/ pending[a] /= None /\ pending[a].cred = c

\* No number gets a password, and what one name kept is kept or let go of.
LEMMA CredentialStep ==
    ASSUME RegInv, NEW a \in Names, \A b \in Names : b /= a => Untouched(b),
           \A n \in Numbers : primary'[n] \in {primary[n], 0},
           discarded \subseteq discarded',
           \A c \in Creds : Keeps(a, c) =>
             Keeps(a, c)' \/ c \in discarded' \/ \A n \in Numbers : primary'[n] /= c
    PROVE  CredentialKept'
<1> SUFFICES ASSUME NEW n \in Numbers, primary'[n] \notin {0} \cup discarded'
             PROVE  \E b \in Names : Keeps(b, primary[n])'
  BY DEF CredentialKept, Keeps
<1>1. primary'[n] = primary[n] /\ primary[n] \in Creds /\ primary[n] \notin {0} \cup discarded
  BY DEF RegInv, BaseInv, CoreTypes
<1>2. PICK c \in Creds : c = primary[n]
  BY <1>1
<1>3. PICK b \in Names : Keeps(b, c)
  BY <1>1, <1>2 DEF RegInv, CredentialKept, Keeps
<1>4. Keeps(b, c)'
  <2>1. CASE b = a
    BY <1>1, <1>2, <1>3, <2>1
  <2>2. CASE b /= a
    BY <1>3, <2>2 DEF Keeps, Finished, Saved, Untouched
  <2> QED
    BY <2>1, <2>2
<1> QED
  BY <1>1, <1>2, <1>4 DEF Keeps

\* What the server knows stays as it is.
LEMMA ServerKept ==
    ASSUME RegInv, SessionsKept, UNCHANGED <<devices, primary, lastCred>>
    PROVE  ServerInv'
<1>1. \A n \in Numbers : \A d \in devices[n] : d.cred \in Creds
  BY DEF RegInv, BaseInv, CoreTypes
<1>2. \A n \in Numbers : primary[n] /= 0 => primary[n] \in Creds
  BY DEF RegInv, BaseInv, CoreTypes
<1> QED
  BY <1>1, <1>2 DEF RegInv, ServerInv, SessionsKept

\* A step of process p on the row and the file of its own name a.
LEMMA LocalStep ==
    ASSUME RegInv, BaseInv', NEW p \in Procs, Moves(p), pc[p] /= "idle",
           NEW a \in Names, a = job[p].name,
           Ends(p) \/ (job'[p].name = a /\ job'[p].cred = job[p].cred),
           SessionsKept, UNCHANGED <<devices, primary, lastCred>>,
           \A b \in Names : b /= a => Untouched(b),
           rows'[a] /= None => Holds(a, rows'[a].cred),
           pending'[a] /= None => Holds(a, pending'[a].cred),
           RowKeys(a)', ~Ends(p) => ProcInv(p)',
           discarded \subseteq discarded',
           \A c \in Creds : Keeps(a, c) =>
             Keeps(a, c)' \/ c \in discarded' \/ \A n \in Numbers : primary'[n] /= c
    PROVE  RegInv'
<1>1. CredentialKept'
  BY CredentialStep
<1>2. OwnOnly(p)
  BY DEF OwnOnly
<1>3. HoldsStep(p)
  <2>1. \A b \in Names : pending'[b] /= None => Holds(b, pending'[b].cred)
    BY HeldByLocal DEF Untouched
  <2>2. \A b \in Names : rows'[b] /= None => Holds(b, rows'[b].cred)
    BY HeldByLocal DEF Untouched
  <2>3. job'[p].name \in Names => Holds(job'[p].name, job'[p].cred)
    BY Running, EndsProc
  <2> QED
    BY <2>1, <2>2, <2>3, HoldsFrame
<1>4. job'[p].name \in {None, job[p].name}
  BY DEF Ends, NoJob
<1>5. Alone'
  BY <1>4, AloneKept
<1>6. ServerInv'
  BY ServerKept
<1>7. ProcInv(p)'
  BY EndsProc
<1>8. \A b \in Names : b = job[p].name => RowKeys(b)'
  OBVIOUS
<1>9. lastCred' \in {lastCred, lastCred + 1}
  OBVIOUS
<1> QED
  BY <1>1, <1>2, <1>3, <1>5, <1>6, <1>7, <1>8, <1>9, RegStep

\* cmdRegister() puts the new password in the pending file; an older one that
\* it writes over counts as let go of.
LEMMA SavePendingReg ==
    ASSUME RegInv, BaseInv', NEW p \in Procs, SavePending(p)
    PROVE  RegInv'
<1>1. /\ pc[p] = "savePending" /\ Moves(p)
      /\ UNCHANGED <<rows, devices, primary, lastCred, lastGen, excused>>
      /\ SessionsKept
      /\ pending'[job[p].name] /= None
      /\ pending'[job[p].name].cred = job[p].cred
      /\ \A b \in Names : b /= job[p].name => pending'[b] = pending[b]
      /\ discarded' = discarded \cup PendingCreds(job[p].name)
      /\ Ends(p) \/ Stays(p, "requestCode")
  BY SavePendingEffect DEF RegInv
<1>2. PICK a \in Names : a = job[p].name
  BY <1>1, Running
<1>3. RowKeys(a)'
  BY <1>1 DEF RegInv, RowKeys, KeysAre
<1>4. Stays(p, "requestCode") => ProcInv(p)'
  BY DEF Stays, ProcInv, Saving
<1>5. \A c \in Creds : Keeps(a, c) => Keeps(a, c)' \/ c \in discarded'
  BY <1>1, <1>2 DEF Keeps, Finished, Saved, PendingCreds
<1>6. Holds(a, job[p].cred)
  BY <1>1, <1>2, Running
<1>7. rows'[a] /= None => Holds(a, rows'[a].cred)
  BY <1>1, HeldByLocal
<1>8. \A b \in Names : b /= a => Untouched(b)
  BY <1>1, <1>2 DEF Untouched
<1>9. Ends(p) \/ (job'[p].name = a /\ job'[p].cred = job[p].cred)
  BY <1>1, <1>2 DEF Stays
<1> QED
  BY <1>1, <1>2, <1>3, <1>4, <1>5, <1>6, <1>7, <1>8, <1>9, LocalStep

\* saveFinishedAccount(): no statement of it changes a finished account, the
\* last one finishes it.
LEMMA SaveRowReg ==
    ASSUME RegInv, BaseInv', NEW p \in Procs, SaveRow(p)
    PROVE  RegInv'
<1>1. /\ pc[p] = "saveRow" /\ Moves(p) /\ RestKept /\ discarded' = discarded
      /\ Stays(p, "saveIdentity") /\ RowChanges(job[p].name)
      /\ rows'[job[p].name] /= None /\ rows'[job[p].name].cred = job[p].cred
      /\ rows[job[p].name] = None =>
           rows'[job[p].name].identity = 0 /\ rows'[job[p].name].prekeys = 0
  BY SaveRowEffect DEF RegInv
<1>2. PICK a \in Names : a = job[p].name
  BY <1>1, Running
<1>3. /\ rows[a] = None /\ job[p].gen > 0 /\ KeysAre(job[p].cred, job[p].gen)
      /\ job[p].cmd = "verify" => FileOf(job[p])
  BY <1>1, <1>2, Running DEF ProcInv, Saving
<1>4. RowKeys(a)'
  BY <1>1, <1>2, <1>3 DEF RowKeys
<1>5. ProcInv(p)'
  BY <1>1, <1>2, <1>3 DEF Stays, ProcInv, Saving, RowOf, FileOf, KeysAre, RestKept
<1>6. \A c \in Creds : Keeps(a, c) => Keeps(a, c)'
  BY <1>1, <1>2, <1>3 DEF Keeps, Finished, Saved, RestKept
<1>7. Holds(a, job[p].cred)
  BY <1>1, <1>2, Running
<1>8. /\ \A b \in Names : b /= a => Untouched(b)
      /\ UNCHANGED <<devices, primary, lastCred, pending>> /\ SessionsKept
  BY <1>1, <1>2, Parts DEF Untouched, RestKept, RowChanges, RegInv
<1>9. pending'[a] /= None => Holds(a, pending'[a].cred)
  BY <1>8, HeldByLocal
<1> QED
  BY <1>1, <1>2, <1>4, <1>5, <1>6, <1>7, <1>8, <1>9, LocalStep DEF Stays

\* The identity keypairs go into a row that has no prekeys yet.
LEMMA SaveIdentityReg ==
    ASSUME RegInv, BaseInv', NEW p \in Procs, SaveIdentity(p)
    PROVE  RegInv'
<1>0. pc[p] = "saveIdentity" /\ Moves(p) /\ RestKept /\ discarded' = discarded
  BY SaveIdentityEffect DEF RegInv
<1>k. UNCHANGED <<devices, primary, lastCred, lastGen, pending>> /\ SessionsKept
  BY <1>0, Parts DEF RestKept, RegInv
<1>1. PICK a \in Names : a = job[p].name
  BY <1>0, Running
<1>2. CASE Ends(p) /\ rows' = rows
  BY <1>0, <1>k, <1>2, ControlEnds
<1>3. CASE /\ Stays(p, "savePrekeys") /\ RowChanges(a)
           /\ rows[a] /= None /\ rows'[a] /= None
           /\ rows'[a].cred = rows[a].cred
           /\ rows'[a].prekeys = rows[a].prekeys
           /\ rows'[a].identity = job[p].gen
  <2>1. /\ RowOf(job[p], 0, 0) /\ job[p].gen > 0 /\ KeysAre(job[p].cred, job[p].gen)
        /\ job[p].cmd = "verify" => FileOf(job[p])
    BY <1>0, Running DEF ProcInv, Saving
  <2>2. RowKeys(a)'
    BY <1>1, <1>3, <1>k, <2>1 DEF RowKeys, KeysAre, RowOf
  <2>3. ProcInv(p)'
    BY <1>1, <1>3, <1>k, <2>1 DEF Stays, ProcInv, Saving, RowOf, FileOf, KeysAre
  <2>4. \A c \in Creds : Keeps(a, c) => Keeps(a, c)'
    BY <1>1, <1>k, <2>1 DEF Keeps, Finished, Saved, RowOf
  <2>5. Holds(a, rows'[a].cred)
    BY <1>3 DEF Holds
  <2>6. \A b \in Names : b /= a => Untouched(b)
    BY <1>3, <1>k DEF Untouched, RowChanges
  <2>7. pending'[a] /= None => Holds(a, pending'[a].cred)
    BY <1>k, HeldByLocal
  <2> QED
    BY <1>0, <1>k, <1>1, <1>3, <2>2, <2>3, <2>4, <2>5, <2>6, <2>7, LocalStep DEF Stays
<1> QED
  BY <1>1, <1>2, <1>3, SaveIdentityEffect DEF RegInv

\* The prekeys finish the row.
LEMMA SavePrekeysReg ==
    ASSUME RegInv, BaseInv', NEW p \in Procs, SavePrekeys(p)
    PROVE  RegInv'
<1>0. pc[p] = "savePrekeys" /\ Moves(p) /\ RestKept /\ discarded' = discarded
  BY SavePrekeysEffect DEF RegInv
<1>k. UNCHANGED <<devices, primary, lastCred, lastGen, pending>> /\ SessionsKept
  BY <1>0, Parts DEF RestKept, RegInv
<1>1. PICK a \in Names : a = job[p].name
  BY <1>0, Running
<1>2. CASE Ends(p) /\ rows' = rows
  BY <1>0, <1>k, <1>2, ControlEnds
<1>3. CASE /\ Stays(p, "deletePending") /\ RowChanges(a)
           /\ rows[a] /= None /\ rows'[a] /= None
           /\ rows'[a].cred = rows[a].cred
           /\ rows'[a].identity = rows[a].identity
           /\ rows'[a].prekeys = job[p].gen
  <2>1. /\ RowOf(job[p], job[p].gen, 0) /\ job[p].gen > 0
        /\ KeysAre(job[p].cred, job[p].gen)
        /\ job[p].cmd = "verify" => FileOf(job[p])
    BY <1>0, Running DEF ProcInv, Saving
  <2>2. RowKeys(a)'
    BY <1>1, <1>3, <1>k, <2>1 DEF RowKeys, KeysAre, RowOf
  <2>3. ProcInv(p)'
    BY <1>1, <1>3, <1>k, <2>1 DEF Stays, ProcInv, Saving, RowOf, FileOf, KeysAre
  <2>4. \A c \in Creds : Keeps(a, c) => Keeps(a, c)'
    BY <1>1, <1>k, <2>1 DEF Keeps, Finished, Saved, RowOf
  <2>5. Holds(a, rows'[a].cred)
    BY <1>3 DEF Holds
  <2>6. \A b \in Names : b /= a => Untouched(b)
    BY <1>3, <1>k DEF Untouched, RowChanges
  <2>7. pending'[a] /= None => Holds(a, pending'[a].cred)
    BY <1>k, HeldByLocal
  <2> QED
    BY <1>0, <1>k, <1>1, <1>3, <2>2, <2>3, <2>4, <2>5, <2>6, <2>7, LocalStep DEF Stays
<1> QED
  BY <1>1, <1>2, <1>3, SavePrekeysEffect DEF RegInv

\* cmdVerify() deletes the pending file only when the account is finished
\* with its password.
LEMMA DeletePendingReg ==
    ASSUME RegInv, BaseInv', NEW p \in Procs, DeletePending(p)
    PROVE  RegInv'
<1>0. /\ pc[p] = "deletePending" /\ Moves(p) /\ Ends(p)
      /\ UNCHANGED <<rows, sessions, devices, primary, lastCred, lastGen, discarded>>
      /\ SessionsKept
  BY DeletePendingEffect, Parts DEF RegInv
<1>1. PICK a \in Names : a = job[p].name
  BY <1>0, Running
<1>2. CASE pending' = pending
  BY <1>0, <1>2, ControlEnds
<1>3. CASE FileChanges(a) /\ pending'[a] = None /\ job[p].cmd = "verify"
  <2>1. RowOf(job[p], job[p].gen, job[p].gen) /\ job[p].gen > 0 /\ FileOf(job[p])
    BY <1>0, <1>3, Running DEF ProcInv, Saving
  <2>2. \A c \in Creds : Keeps(a, c) => Keeps(a, c)'
    BY <1>0, <1>1, <2>1 DEF Keeps, Finished, Saved, RowOf, FileOf
  <2>3. RowKeys(a)'
    BY <1>0 DEF RegInv, RowKeys, KeysAre
  <2>4. rows'[a] /= None => Holds(a, rows'[a].cred)
    BY <1>0, HeldByLocal
  <2>5. \A b \in Names : b /= a => Untouched(b)
    BY <1>0, <1>3 DEF Untouched, FileChanges
  <2> QED
    BY <1>0, <1>1, <1>3, <2>2, <2>3, <2>4, <2>5, LocalStep
<1> QED
  BY <1>1, <1>2, <1>3, DeletePendingEffect DEF RegInv

\* cmdUnlink() lets go of a password that has no pending file.
LEMMA UnlinkReg ==
    ASSUME RegInv, BaseInv', NEW p \in Procs, Unlink(p)
    PROVE  RegInv'
<1>0. /\ pc[p] = "unlink" /\ Moves(p) /\ Ends(p) /\ RestKept
      /\ RowChanges(job[p].name) /\ rows'[job[p].name] = None
      /\ discarded \subseteq discarded'
      /\ rows[job[p].name] /= None =>
           rows[job[p].name].cred \in discarded' \cup PendingCreds(job[p].name)
  BY UnlinkEffect DEF RegInv
<1>k. UNCHANGED <<devices, primary, lastCred, lastGen, pending>> /\ SessionsKept
  BY <1>0, Parts DEF RestKept, RegInv
<1>1. PICK a \in Names : a = job[p].name
  BY <1>0, Running
<1>2. \A c \in Creds : Keeps(a, c) => Keeps(a, c)' \/ c \in discarded'
  BY <1>0, <1>1, <1>k DEF Keeps, Finished, Saved, PendingCreds
<1>3. RowKeys(a)'
  BY <1>0, <1>1 DEF RowKeys
<1>4. pending'[a] /= None => Holds(a, pending'[a].cred)
  BY <1>k, HeldByLocal
<1>5. \A b \in Names : b /= a => Untouched(b)
  BY <1>0, <1>1, <1>k DEF Untouched, RowChanges
<1> QED
  BY <1>0, <1>k, <1>1, <1>2, <1>3, <1>4, <1>5, LocalStep

\* cmdDeleteAccount() wipes a row whose password is no number's any more.
LEMMA WipeRowReg ==
    ASSUME RegInv, BaseInv', NEW p \in Procs, WipeRow(p)
    PROVE  RegInv'
<1>0. /\ pc[p] = "wipe" /\ Moves(p) /\ Ends(p) /\ RestKept /\ discarded' = discarded
      /\ RowChanges(job[p].name) /\ rows'[job[p].name] = None
  BY WipeRowEffect DEF RegInv
<1>k. UNCHANGED <<devices, primary, lastCred, lastGen, pending>> /\ SessionsKept
  BY <1>0, Parts DEF RestKept, RegInv
<1>1. PICK a \in Names : a = job[p].name
  BY <1>0, Running
<1>2. rows[a].cred = job[p].cred /\ \A n \in Numbers : primary[n] /= job[p].cred
  BY <1>0, <1>1, Running DEF ProcInv
<1>3. \A c \in Creds : Keeps(a, c) => Keeps(a, c)' \/ \A n \in Numbers : primary'[n] /= c
  BY <1>0, <1>1, <1>2, <1>k DEF Keeps, Finished, Saved
<1>4. RowKeys(a)'
  BY <1>0, <1>1 DEF RowKeys
<1>5. pending'[a] /= None => Holds(a, pending'[a].cred)
  BY <1>k, HeldByLocal
<1>6. \A b \in Names : b /= a => Untouched(b)
  BY <1>0, <1>1, <1>k DEF Untouched, RowChanges
<1> QED
  BY <1>0, <1>k, <1>1, <1>3, <1>4, <1>5, <1>6, LocalStep

\* cmdSetEnabled() leaves passwords and keys alone.
LEMMA SetEnabledReg ==
    ASSUME RegInv, BaseInv', NEW p \in Procs, SetEnabled(p)
    PROVE  RegInv'
<1>0. /\ pc[p] \in {"enable", "disable"} /\ Moves(p) /\ Ends(p) /\ RestKept
      /\ discarded' = discarded
  BY SetEnabledEffect DEF RegInv
<1>k. UNCHANGED <<devices, primary, lastCred, lastGen, pending>> /\ SessionsKept
  BY <1>0, Parts DEF RestKept, RegInv
<1>1. PICK a \in Names : a = job[p].name
  BY <1>0, Running
<1>2. CASE rows' = rows
  BY <1>0, <1>k, <1>2, ControlEnds
<1>3. CASE /\ RowChanges(a) /\ rows[a] /= None /\ rows'[a] /= None
           /\ rows'[a].cred = rows[a].cred
           /\ rows'[a].identity = rows[a].identity
           /\ rows'[a].prekeys = rows[a].prekeys
  <2>1. \A c \in Creds : Keeps(a, c) => Keeps(a, c)'
    BY <1>3, <1>k DEF Keeps, Finished, Saved
  <2>2. RowKeys(a)'
    BY <1>3, <1>k DEF RegInv, RowKeys, KeysAre
  <2>3. Holds(a, rows'[a].cred)
    BY <1>3 DEF Holds
  <2>4. pending'[a] /= None => Holds(a, pending'[a].cred)
    BY <1>k, HeldByLocal
  <2>5. \A b \in Names : b /= a => Untouched(b)
    BY <1>3, <1>k DEF Untouched, RowChanges
  <2>6. pc[p] /= "idle"
    BY <1>0
  <2> QED
    BY <1>0, <1>k, <1>1, <2>1, <2>2, <2>3, <2>4, <2>5, <2>6, LocalStep
<1> QED
  BY <1>1, <1>2, <1>3, SetEnabledEffect DEF RegInv

-----------------------------------------------------------------------------
(* The steps at the server                                                 *)

\* createSession() makes a password that nobody has.
LEMMA RegisterReg ==
    ASSUME RegInv, BaseInv', NEW p \in Procs, Register(p)
    PROVE  RegInv'
<1>0. /\ pc[p] = "register" /\ Moves(p)
      /\ UNCHANGED <<rows, pending, devices, primary, lastGen, discarded>>
  BY RegisterEffect DEF RegInv
<1>1. CASE Ends(p) /\ lastCred' = lastCred /\ SessionsKept
  BY <1>0, <1>1, ControlEnds
<1>2. CASE /\ NewSession(lastCred + 1)
           /\ GoesTo(p, "savePending", job[p].num, lastCred + 1, job[p].gen)
  <2>1. OwnOnly(p)
    BY <1>0 DEF OwnOnly, Untouched
  <2>2. lastCred' = lastCred + 1 /\ job'[p].cred = lastCred + 1 /\ job'[p].name = job[p].name
    BY <1>2 DEF NewSession, GoesTo
  <2>3. HoldsStep(p)
    BY <1>0, <2>2, HoldsFrame, HeldByLocal
  <2>4. ServerInv'
    <3>1. \A n \in Numbers : \A d \in devices[n] : d.cred \in Creds /\ d.cred <= lastCred
      BY DEF RegInv, BaseInv, CoreTypes, ServerInv
    <3>2. \A n \in Numbers : primary[n] /= 0 =>
            primary[n] \in Creds /\ sessions[primary[n]] /= None /\ primary[n] <= lastCred
      BY DEF RegInv, BaseInv, CoreTypes, ServerInv, SessionInv
    <3>3. lastCred \in Nat /\ Creds \subseteq Nat
      BY RegistrationAssumption DEF RegInv, BaseInv, CoreTypes, Creds
    <3>4. \A c \in Creds : c <= lastCred => sessions'[c] = sessions[c]
      BY <1>2, <3>3 DEF NewSession
    <3>5. \A n \in Numbers : \A d \in devices[n] :
            d.cred <= lastCred' /\ sessions'[d.cred] = sessions[d.cred]
      <4>1. ASSUME NEW n \in Numbers, NEW d \in devices[n]
            PROVE  d.cred <= lastCred' /\ sessions'[d.cred] = sessions[d.cred]
        <5>1. d.cred \in Creds /\ d.cred <= lastCred
          BY <3>1
        <5>2. \A c \in Nat : c <= lastCred => c <= lastCred'
          BY <2>2, <3>3
        <5> QED
          BY <3>3, <3>4, <5>1, <5>2
      <4> QED
        BY <4>1
    <3>6. \A n \in Numbers : primary[n] /= 0 => sessions'[primary[n]] = sessions[primary[n]]
      BY <3>2, <3>4
    <3> QED
      BY <1>0, <3>5, <3>6 DEF RegInv, ServerInv
  <2>5. ProcInv(p)'
    BY <1>2 DEF GoesTo, ProcInv, Saving
  <2>6. CredentialKept'
    BY <1>0 DEF RegInv, CredentialKept, Finished, Saved
  <2>7. \A b \in Names : RowKeys(b)'
    BY <1>0 DEF RegInv, RowKeys, KeysAre
  <2>8. Alone'
    BY <1>0, <2>2, AloneKept
  <2> QED
    BY <1>0, <2>1, <2>2, <2>3, <2>4, <2>5, <2>6, <2>7, <2>8, RegStep
<1> QED
  BY <1>1, <1>2, RegisterEffect DEF RegInv

\* registerAccount(): the number is the pending password's alone, with the new
\* keys, and no row has that password yet.
LEMMA RegisterAccountReg ==
    ASSUME RegInv, BaseInv', NEW p \in Procs, RegisterAccount(p)
    PROVE  RegInv'
<1>0. /\ pc[p] = "registerAccount" /\ Moves(p)
      /\ UNCHANGED <<rows, pending, lastCred, discarded, sessions>> /\ SessionsKept
  BY RegisterAccountEffect, Parts DEF RegInv
<1>1. CASE Ends(p) /\ UNCHANGED <<lastGen, devices, primary>>
  BY <1>0, <1>1, ControlEnds
<1>2. ASSUME RegisteredNow(sessions[job[p].cred].num, job[p].cred, lastGen + 1),
             \/ Ends(p)
             \/ GoesTo(p, "saveRow", job[p].num, job[p].cred, lastGen + 1)
      PROVE  RegInv'
  <2>1. PICK a \in Names, c \in Creds, m \in Numbers, g \in Gens :
          a = job[p].name /\ c = job[p].cred /\ m = sessions[c].num /\ g = lastGen + 1
    BY <1>0, <1>2, Running DEF PlaceInv, RegisteredNow
  <2>2. RegisteredNow(m, c, g)
    BY <1>2, <2>1
  <2>3. /\ rows[a] = None /\ pending[a] /= None /\ pending[a].cred = c
        /\ sessions[c] /= None /\ Holds(a, c) /\ c <= lastCred
    BY <1>0, <2>1, Running DEF ProcInv, FileOf, PlaceInv, RegInv, Owned
  <2>4. OwnOnly(p)
    BY <1>0, <2>1, <2>2 DEF OwnOnly, Untouched, RegisteredNow
  <2>5. \/ Ends(p)
        \/ pc'[p] = "saveRow" /\ job'[p].name = a /\ job'[p].cred = c /\ job'[p].gen = g
             /\ job'[p].cmd = job[p].cmd
    BY <1>2, <2>1 DEF GoesTo
  <2>6. HoldsStep(p)
    <3>1. job'[p].name \in Names => Holds(job'[p].name, job'[p].cred)
      BY <1>0, <2>3, <2>5, EndsProc
    <3> QED
      BY <1>0, <3>1, HoldsFrame, HeldByLocal
  <2>7. ServerInv'
    BY <1>0, <2>1, <2>2, <2>3 DEF RegInv, ServerInv, RegisteredNow
  <2>8. \A k \in Numbers : \A d \in devices'[k] : d.cred = c => d.gen = g
    BY <2>1, <2>2, <2>3 DEF RegInv, ServerInv, RegisteredNow
  <2>9. g > 0
    BY <2>1, RegistrationAssumption DEF RegInv, BaseInv, CoreTypes, Gens
  <2>10. ProcInv(p)'
    <3>1. CASE pc'[p] = "saveRow" /\ job'[p].name = a /\ job'[p].cred = c /\ job'[p].gen = g
      <4>1. KeysAre(c, g)'
        BY <2>8 DEF KeysAre
      <4>2. FileOf(job[p])'
        BY <1>0, <2>3, <3>1 DEF FileOf
      <4> QED
        BY <1>0, <2>3, <2>9, <3>1, <4>1, <4>2 DEF ProcInv, Saving
    <3> QED
      BY <1>0, <2>5, <3>1, EndsProc
  <2>11. CredentialKept'
    <3>1. ASSUME NEW n \in Numbers, primary'[n] \notin {0} \cup discarded'
          PROVE  \E b \in Names : \/ Finished(b)' /\ rows'[b].cred = primary'[n]
                                  \/ pending'[b] /= None /\ pending'[b].cred = primary'[n]
      <4>1. CASE n = m
        BY <1>0, <2>2, <2>3, <4>1 DEF RegisteredNow
      <4>2. CASE n /= m
        <5>1. primary'[n] = primary[n]
          BY <2>2, <4>2 DEF RegisteredNow
        <5>2. PICK b \in Names : \/ Finished(b) /\ rows[b].cred = primary[n]
                                 \/ pending[b] /= None /\ pending[b].cred = primary[n]
          BY <1>0, <3>1, <5>1 DEF RegInv, CredentialKept
        <5> QED
          BY <1>0, <5>1, <5>2 DEF Finished, Saved
      <4> QED
        BY <4>1, <4>2
    <3> QED
      BY <3>1 DEF CredentialKept
  <2>12. RowKeys(a)'
    BY <1>0, <2>3 DEF RowKeys
  <2>13. Alone'
    <3>1. job'[p].name \in {None, job[p].name}
      BY <2>1, <2>5 DEF Ends, NoJob
    <3> QED
      BY <1>0, <3>1, AloneKept
  <2>14. \A b \in Names : b = job[p].name => RowKeys(b)'
    BY <2>1, <2>12
  <2> QED
    BY <1>0, <2>4, <2>6, <2>7, <2>10, <2>11, <2>13, <2>14, RegStep
<1> QED
  BY <1>1, <1>2, RegisterAccountEffect DEF RegInv

\* PUT /v1/devices/link adds a device with a password that nobody has.
LEMMA PutLinkReg ==
    ASSUME RegInv, BaseInv', NEW p \in Procs, PutLink(p)
    PROVE  RegInv'
<1>0. /\ pc[p] = "putLink" /\ Moves(p)
      /\ UNCHANGED <<rows, pending, primary, discarded, sessions>> /\ SessionsKept
  BY PutLinkEffect, Parts DEF RegInv
<1>1. CASE Ends(p) /\ UNCHANGED <<lastCred, lastGen, devices>>
  BY <1>0, <1>1, ControlEnds
<1>2. ASSUME LinkedNow(lastCred + 1, lastGen + 1),
             \/ Ends(p)
             \/ GoesTo(p, "saveRow", job[p].num, lastCred + 1, lastGen + 1)
      PROVE  RegInv'
  <2>1. PICK a \in Names, c \in Creds, g \in Gens :
          a = job[p].name /\ c = lastCred + 1 /\ g = lastGen + 1
    BY <1>0, <1>2, Running DEF LinkedNow
  <2>2. LinkedNow(c, g)
    BY <1>2, <2>1
  <2>3. rows[a] = None /\ job[p].cmd = "link" /\ lastCred \in Nat
    BY <1>0, <2>1, Running DEF ProcInv, PlaceInv
  <2>4. sessions[c] = None
    BY <2>1, <2>3 DEF RegInv, BaseInv, SessionInv
  <2>5. \A k \in Numbers : \A d \in devices[k] : d.cred \in Nat /\ d.cred <= lastCred
    BY RegistrationAssumption DEF RegInv, ServerInv, BaseInv, CoreTypes, Creds
  <2>6. \/ Ends(p)
        \/ pc'[p] = "saveRow" /\ job'[p].name = a /\ job'[p].cred = c /\ job'[p].gen = g
             /\ job'[p].cmd = job[p].cmd
    BY <1>2, <2>1 DEF GoesTo
  <2>7. OwnOnly(p)
    BY <1>0, <2>1, <2>2 DEF OwnOnly, Untouched, LinkedNow
  <2>8. HoldsStep(p)
    <3>1. job'[p].name \in Names => job'[p].cred = lastCred + 1 /\ lastCred' = lastCred + 1
      BY <1>0, <2>1, <2>2, <2>6, EndsProc DEF LinkedNow
    <3> QED
      BY <1>0, <3>1, HoldsFrame, HeldByLocal
  <2>9. ServerInv'
    <3>1. ASSUME NEW k \in Numbers, NEW d \in devices'[k]
          PROVE  d.cred <= lastCred' /\ (sessions'[d.cred] /= None => sessions'[d.cred].num = k)
      <4>1. CASE d \in devices[k]
        BY <1>0, <2>1, <2>2, <2>3, <2>5, <4>1 DEF RegInv, ServerInv, LinkedNow
      <4>2. CASE d.cred = c
        BY <1>0, <2>1, <2>2, <2>3, <2>4, <4>2 DEF LinkedNow
      <4> QED
        BY <2>2, <4>1, <4>2 DEF LinkedNow
    <3> QED
      BY <1>0, <3>1 DEF RegInv, ServerInv
  <2>10. KeysAre(c, g)'
    BY <2>1, <2>2, <2>3, <2>5 DEF KeysAre, LinkedNow
  <2>11. g > 0
    BY <2>1, RegistrationAssumption DEF RegInv, BaseInv, CoreTypes, Gens
  <2>12. ProcInv(p)'
    <3>1. CASE pc'[p] = "saveRow" /\ job'[p].name = a /\ job'[p].cred = c
                 /\ job'[p].gen = g /\ job'[p].cmd = job[p].cmd
      BY <1>0, <2>3, <2>10, <2>11, <3>1 DEF ProcInv, Saving
    <3> QED
      BY <1>0, <2>6, <3>1, EndsProc
  <2>13. CredentialKept'
    BY <1>0 DEF RegInv, CredentialKept, Finished, Saved
  <2>14. Alone'
    <3>1. job'[p].name \in {None, job[p].name}
      BY <2>1, <2>6 DEF Ends, NoJob
    <3> QED
      BY <1>0, <3>1, AloneKept
  <2>15. \A b \in Names : b = job[p].name => RowKeys(b)'
    BY <1>0, <2>1, <2>3 DEF RowKeys
  <2>16. lastCred' \in {lastCred, lastCred + 1}
    BY <2>1, <2>2 DEF LinkedNow
  <2> QED
    BY <1>0, <2>7, <2>8, <2>9, <2>12, <2>13, <2>14, <2>15, <2>16, RegStep
<1> QED
  BY <1>1, <1>2, PutLinkEffect DEF RegInv

\* What the server still knows when the account of a number is deleted.
LEMMA DeletedServer ==
    ASSUME RegInv, NEW n \in Numbers, DeletedNow(n), sessions' = sessions,
           UNCHANGED <<rows, pending, lastCred, discarded>>
    PROVE  /\ ServerInv' /\ CredentialKept' /\ \A b \in Names : RowKeys(b)'
           /\ \A m \in Numbers : devices'[m] \subseteq devices[m]
           /\ \A m \in Numbers : primary'[m] \in {primary[m], 0}
<1>1. \A m \in Numbers : /\ devices'[m] \subseteq devices[m]
                         /\ primary'[m] \in {primary[m], 0}
  BY DEF DeletedNow
<1>2. ServerInv'
  BY <1>1 DEF RegInv, ServerInv
<1>3. \A b \in Names : RowKeys(b)'
  BY <1>1 DEF RegInv, RowKeys, KeysAre
<1>4. CredentialKept'
  BY <1>1 DEF RegInv, CredentialKept, Finished, Saved
<1> QED
  BY <1>1, <1>2, <1>3, <1>4

\* DELETE /v1/accounts/me: after a clean answer the password is unknown.
LEMMA DeleteRequestReg ==
    ASSUME RegInv, BaseInv', NEW p \in Procs, DeleteRequest(p)
    PROVE  RegInv'
<1>0. /\ pc[p] = "deleteRequest" /\ Moves(p)
      /\ UNCHANGED <<rows, pending, sessions, lastCred, lastGen, discarded>> /\ SessionsKept
  BY DeleteRequestEffect, Parts DEF RegInv
<1>1. CASE Ends(p) /\ UNCHANGED <<devices, primary>>
  BY <1>0, <1>1, ControlEnds
<1>2. ASSUME DeletedNow(job[p].num),
             Ends(p) \/ (primary[job[p].num] = job[p].cred /\ Stays(p, "wipe"))
      PROVE  RegInv'
  <2>1. PICK a \in Names, c \in Creds, n \in Numbers :
          a = job[p].name /\ c = job[p].cred /\ n = job[p].num
    BY <1>0, Running DEF PlaceInv
  <2>2. DeletedNow(n)
    BY <1>2, <2>1
  <2>3. /\ ServerInv' /\ CredentialKept' /\ \A b \in Names : RowKeys(b)'
        /\ \A m \in Numbers : devices'[m] \subseteq devices[m]
        /\ \A m \in Numbers : primary'[m] \in {primary[m], 0}
    BY <1>0, <2>2, DeletedServer
  <2>4. OwnOnly(p)
    BY <1>0, <2>3 DEF OwnOnly, Untouched
  <2>5. job'[p].name \in Names => Holds(job'[p].name, job'[p].cred)
    BY <1>0, <1>2, Running, EndsProc DEF Stays
  <2>6. HoldsStep(p)
    BY <1>0, <2>5, HoldsFrame, HeldByLocal
  <2>7. ProcInv(p)'
    <3>1. CASE primary[n] = c /\ Stays(p, "wipe")
      <4>1. sessions[c] /= None /\ sessions[c].num = n
        BY <3>1, RegistrationAssumption DEF RegInv, ServerInv, Creds
      <4>2. ASSUME NEW m \in Numbers PROVE primary'[m] /= c /\ ~Known(m, c)'
        <5>1. CASE m = n
          BY <2>2, <5>1, RegistrationAssumption DEF DeletedNow, Known, Creds
        <5>2. CASE m /= n
          BY <2>2, <4>1, <5>2, RegistrationAssumption
             DEF DeletedNow, Known, RegInv, ServerInv, Creds
        <5> QED
          BY <5>1, <5>2
      <4>3. /\ rows[a] /= None /\ rows[a].cred = c /\ rows[a].num = n
        BY <1>0, <2>1, Running DEF ProcInv
      <4>4. pc'[p] = "wipe" /\ job'[p].name = a /\ job'[p].cred = c /\ job'[p].num = n
        BY <2>1, <3>1 DEF Stays
      <4>5. \A m \in Numbers : primary'[m] /= job'[p].cred /\ ~Known(m, job[p].cred)'
        BY <4>2, <4>4
      <4> QED
        BY <1>0, <4>3, <4>4, <4>5 DEF ProcInv, Saving
    <3> QED
      BY <1>0, <1>2, <2>1, <3>1, EndsProc
  <2>8. Alone'
    <3>1. job'[p].name \in {None, job[p].name}
      BY <1>2 DEF Ends, NoJob, Stays
    <3> QED
      BY <1>0, <3>1, AloneKept
  <2> QED
    BY <1>0, <2>3, <2>4, <2>6, <2>7, <2>8, RegStep
<1> QED
  BY <1>1, <1>2, DeleteRequestEffect DEF RegInv

-----------------------------------------------------------------------------
(* All steps                                                               *)

\* A command starts for a name that no other command works on.
LEMMA StartReg ==
    ASSUME ~Overlap, RegInv, BaseInv', NEW p \in Procs, NEW cmd \in Commands,
           NEW a \in Names, NEW n \in Numbers, Start(p, cmd, a, n)
    PROVE  RegInv'
<1>1. /\ \A q \in Procs : job[q].name /= a
      /\ UNCHANGED <<rows, pending, devices, primary, lastCred, lastGen, discarded>>
      /\ SessionsKept /\ Moves(p)
      /\ pc'[p] = cmd /\ job'[p].name = a /\ job'[p].cred = 0
  BY StartEffect DEF RegInv
<1>2. Alone'
  BY <1>1 DEF RegInv, Alone, Moves
<1>3. ProcInv(p)'
  BY <1>1 DEF ProcInv, Commands, Saving
<1>4. job'[p].cred \notin Creds
  BY <1>1, RegistrationAssumption DEF Creds
<1> QED
  BY <1>1, <1>2, <1>3, <1>4, RegControl

\* A phone takes a number over.
LEMMA PhoneReg ==
    ASSUME RegInv, BaseInv', NEW n \in Numbers, PhoneRegisters(n)
    PROVE  RegInv'
<1>1. /\ DeletedNow(n) /\ sessions' = sessions
      /\ UNCHANGED <<rows, pending, pc, job, lastCred, lastGen, discarded>>
  BY PhoneEffect DEF RegInv
<1>2. /\ ServerInv' /\ CredentialKept' /\ \A b \in Names : RowKeys(b)'
      /\ \A m \in Numbers : devices'[m] \subseteq devices[m]
      /\ \A m \in Numbers : primary'[m] \in {primary[m], 0}
  BY <1>1, DeletedServer
<1>3. Owned' /\ Alone'
  BY <1>1 DEF RegInv, Owned, Holds, Alone
<1>4. ASSUME NEW q \in Procs PROVE ProcInv(q)'
  <2>1. pc[q] /= "idle" => Untouched(job[q].name)
    BY <1>1 DEF Untouched
  <2>2. pc[q] \in Saving \cup {"wipe"} => job[q].cred \in Creds /\ job[q].cred /= 0
    BY RegistrationAssumption DEF RegInv, BaseInv, PlaceInv, Creds
  <2>3. pc[q] \in Saving \cup {"wipe"} => NotGiven(job[q].cred)
    BY <1>2, <2>2 DEF NotGiven
  <2> QED
    BY <1>1, <2>1, <2>3, ProcKept
<1> QED
  BY <1>2, <1>3, <1>4 DEF RegInv

\* The provisioning socket is not part of it.
LEMMA StillReg ==
    ASSUME RegInv, BaseInv', Still
    PROVE  RegInv'
<1>1. UNCHANGED <<rows, pending, sessions, devices, primary, pc, job, lastCred, discarded>>
  BY DEF Still
<1>2. Owned' /\ Alone' /\ ServerInv'
  BY <1>1 DEF RegInv, Owned, Holds, Alone, ServerInv
<1>3. (\A b \in Names : RowKeys(b)') /\ CredentialKept'
  BY <1>1 DEF RegInv, RowKeys, KeysAre, CredentialKept, Finished, Saved
<1>4. ASSUME NEW q \in Procs PROVE ProcInv(q)'
  BY <1>1, ProcKept DEF Untouched, NotGiven
<1> QED
  BY <1>2, <1>3, <1>4 DEF RegInv

\* Every step keeps the passwords and the keys in order.
LEMMA RegNext ==
    ASSUME ~Overlap, RegInv, [Next]_vars
    PROVE  RegInv'
<1>1. BaseInv'
  BY BaseNext DEF RegInv
<1>2. ASSUME NEW p \in Procs, Command(p) \/ Crash(p) PROVE RegInv'
  BY <1>1, <1>2, ReadingReg, RegisterReg, SavePendingReg, RegisterAccountReg, PutLinkReg,
     SaveRowReg, SaveIdentityReg, SavePrekeysReg, DeletePendingReg, UnlinkReg,
     DeleteRequestReg, WipeRowReg, SetEnabledReg DEF Command
<1> QED
  BY <1>1, <1>2, NextSplit, StartReg, PhoneReg, StillReg

\* Before the first command there is nothing to keep.
LEMMA InitReg == Init => RegInv
<1> SUFFICES ASSUME Init PROVE RegInv
  OBVIOUS
<1>1. /\ \A a \in Names : rows[a] = None /\ pending[a] = None
      /\ \A n \in Numbers : devices[n] = {} /\ primary[n] = 0
      /\ \A p \in Procs : pc[p] = "idle" /\ job[p].name = None /\ job[p].cred = 0
  BY DEF Init, NoJob
<1>2. Owned
  BY <1>1, RegistrationAssumption DEF Owned, Holds, Creds
<1>3. ServerInv /\ Alone /\ CredentialKept
  BY <1>1 DEF ServerInv, Alone, CredentialKept
<1>4. ASSUME NEW p \in Procs PROVE ProcInv(p)
  BY <1>1 DEF ProcInv, Saving
<1>5. ASSUME NEW a \in Names PROVE RowKeys(a)
  BY <1>1 DEF RowKeys
<1> QED
  BY <1>2, <1>3, <1>4, <1>5, InitBase DEF RegInv

\* For any number of names, numbers and processes, with at most one command
\* at a time for a name: wherever a command is killed and whichever answer of
\* the server is lost, a number that this host registered is never locked out.
\* cmdRegister() writes the pending file before the server knows the password,
\* and cmdVerify() deletes it only after the seventh statement of
\* saveFinishedAccount().
THEOREM CredentialTheorem ==
    ASSUME ~Overlap PROVE Spec => []CredentialKept
<1>1. RegInv /\ [Next]_vars => RegInv'
  BY RegNext
<1>2. RegInv => CredentialKept
  BY DEF RegInv
<1> QED
  BY <1>1, <1>2, InitReg, PTL DEF Spec

\* Under the same condition a finished account has the keys that the server
\* gives to others for its password: cmdVerify() refuses to register again
\* over a row, so the keys of a second attempt never meet those of the first.
THEOREM KeysTheorem ==
    ASSUME ~Overlap PROVE Spec => []KeysMatchServer
<1>1. RegInv /\ [Next]_vars => RegInv'
  BY RegNext
<1>2. RegInv => KeysMatchServer
  <2> SUFFICES ASSUME RegInv, NEW a \in Names, Finished(a),
                      NEW d \in devices[rows[a].num], d.cred = rows[a].cred
               PROVE  d.gen = rows[a].identity
    BY DEF KeysMatchServer
  <2>1. rows[a] /= None /\ rows[a].num \in Numbers /\ rows[a].identity /= 0
    BY DEF Finished, Saved, RegInv, BaseInv, CoreTypes, Rows, Gens
  <2> QED
    BY <2>1 DEF RegInv, RowKeys, KeysAre
<1> QED
  BY <1>1, <1>2, InitReg, PTL DEF Spec

\* And delete-account wipes an account only when the server no longer knows
\* its password: the row that cmdDeleteAccount() wipes is the one it connected
\* with, and the clean answer it waited for was about that password.
THEOREM WipeTheorem ==
    ASSUME ~Overlap PROVE Spec => NoLiveAccountWiped
<1>1. RegInv /\ [Next]_vars => RegInv'
  BY RegNext
<1>2. RegInv /\ [Next]_vars =>
        [\A p \in Procs : WipeRow(p) =>
           LET r == rows[job[p].name] IN r /= None => ~Known(r.num, r.cred)]_vars
  <2> SUFFICES ASSUME RegInv, NEW p \in Procs, WipeRow(p), rows[job[p].name] /= None
               PROVE  ~Known(rows[job[p].name].num, rows[job[p].name].cred)
    OBVIOUS
  <2>1. pc[p] = "wipe"
    BY DEF WipeRow
  <2> QED
    BY <2>1, Running DEF ProcInv
<1> QED
  BY <1>1, <1>2, InitReg, PTL DEF Spec, NoLiveAccountWiped
=============================================================================
