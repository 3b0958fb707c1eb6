----------------------------- MODULE SipRouting -----------------------------
(***************************************************************************)
(* Which account an INVITE is for.  Every account has a transport of its   *)
(* own on the shared PJSIP endpoint; setupAccount() notes the transport's  *)
(* local port in g_portToAccount, and onIncomingCall() prefers that note   *)
(* to the account pjsua chose, because pjsua's choice is unreliable.       *)
(* Accounts come and go (reloadConfig()), so ports and transport slots are *)
(* used again.                                                             *)
(*                                                                         *)
(* An AccountState is <<name, run>>: setting an account up again makes a   *)
(* new one.  Only the main thread sets up and tears down, one account at a *)
(* time; INVITEs arrive on the PJSIP worker at any moment.  PJSIP and the  *)
(* operating system are external: a transport gets a port that is free for *)
(* its protocol, a TLS account's registration opens a connection with a    *)
(* local port of its own, and the PBX calls back over that connection.     *)
(***************************************************************************)
EXTENDS Integers, FiniteSets

CONSTANTS
    Names,         \* account names
    Tls,           \* the accounts with sip_transport=tls; the rest use UDP
    Ports,         \* ephemeral ports
    Slots,         \* bound: the size of pjsua's transport table
    MaxRuns,       \* bound: how often an account is set up
    MaxFailures    \* bound: transports not closed and ports not noted

ASSUME RoutingAssumption ==
    /\ IsFiniteSet(Names) /\ IsFiniteSet(Ports)
    /\ Tls \subseteq Names
    /\ Slots \in Nat /\ Cardinality(Names) <= Slots
    /\ MaxRuns \in Nat /\ MaxFailures \in Nat

Nobody == <<>>     \* no AccountState
NoPort == 0
ASSUME PortAssumption == NoPort \notin Ports

Runs == 0..MaxRuns
States == Names \X Runs
TlsStates == Tls \X Runs

VARIABLES
    phase,         \* each account: how far setup or teardown is
    run,           \* the number of its current, or last, AccountState
    port,          \* the local port of its transport (transportId), or NoPort
    conn,          \* the local port of its TLS connection, or NoPort
    noted,         \* g_portToAccount
    known,         \* the accounts pjsua has a BridgeAccount for
    freeSlots,     \* slots left in pjsua's transport table
    leaked,        \* the transports transportClose() failed to close
    \* history
    unnoted,       \* the AccountStates whose port could not be noted
    routed         \* the last INVITE: whose transport, and which AccountState

vars == <<phase, run, port, conn, noted, known, freeSlots, leaked, unnoted,
          routed>>

Init ==
    /\ phase = [a \in Names |-> "off"]
    /\ run = [a \in Names |-> 0]
    /\ port = [a \in Names |-> NoPort]
    /\ conn = [a \in Names |-> NoPort]
    /\ noted = [p \in Ports |-> Nobody]
    /\ known = {}
    /\ freeSlots = Slots
    /\ leaked = {}
    /\ unnoted = {}
    /\ routed = [arrived |-> Nobody, used |-> Nobody, early |-> FALSE,
                 freed |-> FALSE]

State(a) == <<a, run[a]>>

\* The AccountState is in g_accounts.
Alive(s) == s /= Nobody /\ run[s[1]] = s[2] /\ phase[s[1]] /= "off"

\* The main thread is in neither setupAccount() nor teardownAccount().
MainIdle == \A a \in Names : phase[a] \in {"off", "up"}

Move(a, p) == phase' = [phase EXCEPT ![a] = p]

Protocol(a) == IF a \in Tls THEN Tls ELSE Names \ Tls

MayFail == Cardinality(leaked) + Cardinality(unnoted) < MaxFailures

Transport(s, p) == [state |-> s, port |-> p]

\* Local ports the operating system may hand out for a's protocol.
FreePorts(a) ==
    {p \in Ports :
        /\ \A b \in Protocol(a) : p \notin {port[b], conn[b]}
        /\ \A t \in leaked : t.state[1] \in Protocol(a) => t.port /= p}

-----------------------------------------------------------------------------
(* setupAccount()                                                          *)

\* A new AccountState; the Signal side comes up.
SetupBegin(a) ==
    /\ MainIdle
    /\ phase[a] = "off"
    /\ run[a] < MaxRuns
    /\ run' = [run EXCEPT ![a] = @ + 1]
    /\ Move(a, "setup")
    /\ UNCHANGED <<port, conn, noted, known, freeSlots, leaked, unnoted,
                   routed>>

\* createAccountUdpTransport(), createAccountTlsTransport(): port 0, so any.
CreateTransport(a, p) ==
    /\ phase[a] = "setup"
    /\ freeSlots > 0
    /\ p \in FreePorts(a)
    /\ port' = [port EXCEPT ![a] = p]
    /\ freeSlots' = freeSlots - 1
    /\ Move(a, "transport")
    /\ UNCHANGED <<run, conn, noted, known, leaked, unnoted, routed>>

\* No SIP configured, no endpoint, or transportCreate() throws: the account
\* runs without SIP.
NoTransport(a) ==
    /\ phase[a] = "setup"
    /\ Move(a, "up")
    /\ UNCHANGED <<run, port, conn, noted, known, freeSlots, leaked, unnoted,
                   routed>>

\* Plausible bug: emplace() instead of operator[], which keeps an old note.
NotePortOnce(a) ==
    /\ phase[a] = "transport"
    /\ noted' = [noted EXCEPT ![port[a]] = IF @ = Nobody THEN State(a) ELSE @]
    /\ Move(a, "create")
    /\ UNCHANGED <<run, port, conn, known, freeSlots, leaked, unnoted, routed>>

\* transportGetInfo(), and g_portToAccount[port] = &acct.
NotePort(a) ==
    /\ phase[a] = "transport"
    /\ noted' = [noted EXCEPT ![port[a]] = State(a)]
    /\ Move(a, "create")
    /\ UNCHANGED <<run, port, conn, known, freeSlots, leaked, unnoted, routed>>

\* transportGetInfo() or stoi() throws, or the address has no port: logged,
\* and the account goes on without a note.
NotePortFails(a) ==
    /\ MayFail
    /\ phase[a] = "transport"
    /\ unnoted' = unnoted \cup {State(a)}
    /\ Move(a, "create")
    /\ UNCHANGED <<run, port, conn, noted, known, freeSlots, leaked, routed>>

\* BridgeAccount::create(): pjsua knows the account and registers it.
CreateAccount(a) ==
    /\ phase[a] = "create"
    /\ Move(a, "up")
    /\ known' = known \cup {a}
    /\ UNCHANGED <<run, port, conn, noted, freeSlots, leaked, unnoted, routed>>

\* Registering over TLS opens a connection, from a port of its own.
TlsConnects(a, p) ==
    /\ a \in Tls
    /\ phase[a] = "up" /\ port[a] /= NoPort /\ conn[a] = NoPort
    /\ p \in FreePorts(a)
    /\ conn' = [conn EXCEPT ![a] = p]
    /\ UNCHANGED <<phase, run, port, noted, known, freeSlots, leaked, unnoted,
                   routed>>

\* The connection is lost.
TlsDisconnects(a) ==
    /\ conn[a] /= NoPort
    /\ conn' = [conn EXCEPT ![a] = NoPort]
    /\ UNCHANGED <<phase, run, port, noted, known, freeSlots, leaked, unnoted,
                   routed>>

-----------------------------------------------------------------------------
(* teardownAccount()                                                       *)

\* Calls, worker, call manager and websocket go; SIP is still there.
TeardownBegin(a) ==
    /\ MainIdle
    /\ phase[a] = "up"
    /\ Move(a, "closing")
    /\ UNCHANGED <<run, port, conn, noted, known, freeSlots, leaked, unnoted,
                   routed>>

\* Plausible bug: destroying the objects is trusted to free the slot.
CloseTransportNot(a) ==
    /\ phase[a] = "closing"
    /\ port' = [port EXCEPT ![a] = NoPort]
    /\ conn' = [conn EXCEPT ![a] = NoPort]
    /\ Move(a, "closed")
    /\ UNCHANGED <<run, noted, known, freeSlots, leaked, unnoted, routed>>

\* Unregister, then transportClose(): the slot and the port are free again.
\* The note in g_portToAccount stays.
CloseTransport(a) ==
    /\ phase[a] = "closing"
    /\ freeSlots' = IF port[a] = NoPort THEN freeSlots ELSE freeSlots + 1
    /\ port' = [port EXCEPT ![a] = NoPort]
    /\ conn' = [conn EXCEPT ![a] = NoPort]
    /\ Move(a, "closed")
    /\ UNCHANGED <<run, noted, known, leaked, unnoted, routed>>

\* transportClose() fails, which is logged as non-fatal: the transport keeps
\* its slot and its port for good, and teardownAccount() goes on.
CloseTransportFails(a) ==
    /\ MayFail
    /\ phase[a] = "closing"
    /\ port[a] /= NoPort
    /\ leaked' = leaked \cup {Transport(State(a), port[a])}
    /\ port' = [port EXCEPT ![a] = NoPort]
    /\ conn' = [conn EXCEPT ![a] = NoPort]
    /\ Move(a, "closed")
    /\ UNCHANGED <<run, noted, known, freeSlots, unnoted, routed>>

\* g_sipAccounts.erase(), g_accounts.erase(): the AccountState is freed.
Erase(a) ==
    /\ phase[a] = "closed"
    /\ Move(a, "off")
    /\ known' = known \ {a}
    /\ UNCHANGED <<run, port, conn, noted, freeSlots, leaked, unnoted, routed>>

-----------------------------------------------------------------------------
(* onIncomingCall()                                                        *)

\* The local port INVITEs for a arrive on.
Receives(a) == IF a \in Tls THEN conn[a] ELSE port[a]

\* What an INVITE can arrive on: the accounts' transports, and the UDP
\* transports that were leaked.
Receivers ==
    {Transport(State(a), Receives(a)) : a \in {n \in Names : Receives(n) /= NoPort}}
        \cup {t \in leaked : t.state \notin TlsStates}

\* The AccountState onIncomingCall() goes on with: the one noted for the
\* local port, or else the one of the account pjsua chose.
Resolved(p, b) == IF noted[p] /= Nobody THEN noted[p] ELSE State(b)

\* setupAccount() has created the transport of s, and not noted its port yet.
NotYetNoted(s) == s = State(s[1]) /\ phase[s[1]] = "transport"

\* An INVITE arrives on transport t; for lack of a matching identity pjsua
\* hands it to any account b it knows.
OnIncomingCall(t, b) ==
    /\ t \in Receivers
    /\ b \in known
    /\ routed' = [arrived |-> t.state, used |-> Resolved(t.port, b),
                  early |-> NotYetNoted(t.state),
                  freed |-> ~Alive(Resolved(t.port, b))]
    /\ UNCHANGED <<phase, run, port, conn, noted, known, freeSlots, leaked,
                   unnoted>>

-----------------------------------------------------------------------------
Setup(a) ==
    \/ SetupBegin(a) \/ NoTransport(a) \/ NotePort(a) \/ NotePortFails(a)
    \/ CreateAccount(a)
    \/ \E p \in Ports : CreateTransport(a, p)

TearDown(a) ==
    TeardownBegin(a) \/ CloseTransport(a) \/ CloseTransportFails(a) \/ Erase(a)

Connection(a) == TlsDisconnects(a) \/ \E p \in Ports : TlsConnects(a, p)

Next ==
    \/ \E a \in Names : Setup(a) \/ TearDown(a) \/ Connection(a)
    \/ \E t \in Receivers, b \in Names : OnIncomingCall(t, b)

Spec == Init /\ [][Next]_vars

-----------------------------------------------------------------------------
(* Correctness                                                             *)

\* The variables stay in their domains.
TypeOK ==
    /\ phase \in [Names -> {"off", "setup", "transport", "create", "up", "closing",
                            "closed"}]
    /\ run \in [Names -> Runs]
    /\ port \in [Names -> Ports \cup {NoPort}]
    /\ conn \in [Names -> Ports \cup {NoPort}]
    /\ noted \in [Ports -> States \cup {Nobody}]
    /\ known \subseteq Names
    /\ freeSlots \in 0..Slots
    /\ leaked \subseteq [state : States, port : Ports]
    /\ unnoted \subseteq States
    /\ routed \in [arrived : States \cup {Nobody}, used : States \cup {Nobody},
                   early : BOOLEAN, freed : BOOLEAN]

\* "The receiving transport's own local port is ground truth"
\* (main.cpp:1530): whichever account pjsua picks, UDP accounts never get one
\* another's INVITEs, nor those of an earlier life, even when accounts were
\* torn down, their transports leaked and their ports and slots used again.
\* The exceptions: an INVITE that comes before the port is noted, an account
\* whose port could not be noted, and TLS - their INVITEs arrive on a port
\* that is not noted, and a TLS listener may have the number of a UDP port,
\* which g_portToAccount does not tell apart.
RoutedToReceiver ==
    \/ routed.used = routed.arrived
    \/ routed.early
    \/ routed.arrived \in unnoted \cup TlsStates
    \/ routed.used \in TlsStates

\* An account being set up finds a slot in pjsua's transport table, however
\* often accounts were rebuilt, unless transportClose() failed more often
\* than the table has slots to spare: each failure costs one slot and a
\* rebuilt account none (the PJ_ETOOMANY outage of BridgeAccount::transportId's
\* comment).
SlotForEveryAccount ==
    \A a \in Names :
        phase[a] = "setup" /\ Cardinality(leaked) <= Slots - Cardinality(Names)
            => freeSlots > 0

\* "the real receiving transport's own local port - which this project
\* controls and knows unambiguously" (main.cpp:757-758): the AccountState
\* noted for a port is one that is still there.
NoFreedAccountUsed == ~routed.freed
=============================================================================
