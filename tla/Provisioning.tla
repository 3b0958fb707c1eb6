---------------------------- MODULE Provisioning ----------------------------
(***************************************************************************)
(* waitForProvisionMessage() of gendb/ProvisioningClient.cpp: the thread   *)
(* of a `link` command waits for the address of its QR code and then for   *)
(* the phone's envelope, while libsignal's listener callbacks record what  *)
(* arrives on the provisioning socket and that it closed.                  *)
(*                                                                         *)
(* External: the server sends the address first, a phone that scanned the  *)
(* code sends an envelope through the server, and the socket closes at any *)
(* time - as a rule right after the envelope.  The 15 s, 10 s and 90 s     *)
(* waits may expire at any moment at which what they wait for is not there.*)
(***************************************************************************)
CONSTANT Procs     \* running gendb processes

VARIABLES
    wait,          \* where each process is in waitForProvisionMessage()
    gotAddress, result, failure

provVars == <<wait, gotAddress, result, failure>>

ProvisioningInit ==
    /\ wait = [p \in Procs |-> "off"]
    /\ gotAddress = [p \in Procs |-> FALSE]
    /\ result = [p \in Procs |-> FALSE]
    /\ failure = [p \in Procs |-> "none"]

Waits(p, place) == wait' = [wait EXCEPT ![p] = place]

\* A new ProvisioningClient; also what is left once the process is gone.
ProvisioningReset(p, place) ==
    /\ Waits(p, place)
    /\ gotAddress' = [gotAddress EXCEPT ![p] = FALSE]
    /\ result' = [result EXCEPT ![p] = FALSE]
    /\ failure' = [failure EXCEPT ![p] = "none"]

Listening(p) == wait[p] \in {"address", "envelope"}

-----------------------------------------------------------------------------
\* The connection completes in time and the listener is installed, or it
\* fails, or takes longer than 15 seconds and is abandoned.
Connect(p) ==
    /\ wait[p] = "connect"
    /\ \E place \in {"address", "threw"} : Waits(p, place)
    /\ UNCHANGED <<gotAddress, result, failure>>

OnReceivedAddress(p) ==
    /\ Listening(p)
    /\ ~gotAddress[p] /\ failure[p] /= "closed"
    /\ gotAddress' = [gotAddress EXCEPT ![p] = TRUE]
    /\ UNCHANGED <<wait, result, failure>>

\* An envelope decrypts to a ProvisionMessage, or it does not.
OnReceivedEnvelope(p) ==
    /\ Listening(p)
    /\ gotAddress[p] /\ failure[p] /= "closed"
    /\ \/ /\ result' = [result EXCEPT ![p] = TRUE]
          /\ UNCHANGED failure
       \/ /\ failure' = [failure EXCEPT ![p] = "bad"]
          /\ UNCHANGED result
    /\ UNCHANGED <<wait, gotAddress>>

\* Plausible bug: the socket closing counts as a failure in any case.
InterruptedAlways(p) ==
    /\ Listening(p)
    /\ failure' = [failure EXCEPT ![p] = "closed"]
    /\ UNCHANGED <<wait, gotAddress, result>>

\* The socket closing is a failure unless something was recorded before.
OnConnectionInterrupted(p) ==
    /\ Listening(p)
    /\ ~result[p] /\ failure[p] = "none"
    /\ failure' = [failure EXCEPT ![p] = "closed"]
    /\ UNCHANGED <<wait, gotAddress, result>>

-----------------------------------------------------------------------------
\* The first wait ends: by the address (or more), or after 10 seconds.
AddressWaitEnds(p) ==
    /\ wait[p] = "address"
    /\ Waits(p, IF (gotAddress[p] \/ result[p]) /\ failure[p] = "none"
                THEN "envelope" ELSE "threw")
    /\ UNCHANGED <<gotAddress, result, failure>>

\* The second one ends: by the message or a failure, or after 90 seconds.
EnvelopeWaitEnds(p) ==
    /\ wait[p] = "envelope"
    /\ Waits(p, IF result[p] /\ failure[p] = "none"
                THEN "returned" ELSE "threw")
    /\ UNCHANGED <<gotAddress, result, failure>>

Listener(p) ==
    OnReceivedAddress(p) \/ OnReceivedEnvelope(p) \/ OnConnectionInterrupted(p)

WaitNext(p) == Connect(p) \/ AddressWaitEnds(p) \/ EnvelopeWaitEnds(p)

-----------------------------------------------------------------------------
ProvisioningTypeOK ==
    /\ wait \in [Procs -> {"off", "connect", "address", "envelope", "returned",
                            "threw"}]
    /\ gotAddress \in [Procs -> BOOLEAN]
    /\ result \in [Procs -> BOOLEAN]
    /\ failure \in [Procs -> {"none", "bad", "closed"}]

\* A phone that completed the link is not told no: once the listener has
\* recorded its message, the wait does not throw because the socket closed
\* behind the envelope or a deadline passed at the same moment - only
\* because a second envelope could not be read.
AcceptedIsReturned ==
    \A p \in Procs : wait[p] = "threw" /\ result[p] => failure[p] = "bad"
=============================================================================
