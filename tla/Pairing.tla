------------------------------ MODULE Pairing -------------------------------
(***************************************************************************)
(* Trust between an agent and a device over BLE: the pairing commands of   *)
(* main.py on BlePairing (ble_link.py), the connection BleLink keeps, the  *)
(* trust store, and the device's side, the callbacks of ble_transport.cpp  *)
(* with its rotating tokens and the loop that hands a new token over.      *)
(*                                                                         *)
(* The device serves one central at a time.  A command of the agent is a   *)
(* task, cut at its awaits; other tasks run in between.  Tokens are        *)
(* numbered as they are minted.  The code is on the screen; that poll()    *)
(* announces it as well makes begin() wait less and nothing else.          *)
(***************************************************************************)
EXTENDS Naturals, FiniteSets

CONSTANTS
  Sessions,    \* BlePairing objects, each with the ble_pair task that makes it
  Codes,       \* ble_pair_code tasks
  TrustSlots,  \* TRUST_SLOTS
  MaxMints,    \* bound: tokens minted
  MaxFaults    \* bound: dropped connections, resets, failing GATT calls, Forget

NoOne == "none"
Link  == "link"    \* BleLink
Other == "other"   \* another host
Centrals == Sessions \cup {Link, Other}
Tokens   == 1 .. MaxMints
NoToken  == 0
Garbage  == MaxMints + 1   \* what is sent when a mint overwrites a token being copied
Slots    == 0 .. TrustSlots - 1

ASSUME PairingAssumption ==
  /\ {NoOne, Link, Other} \cap Sessions = {} /\ IsFiniteSet(Codes)
  /\ TrustSlots \in Nat \ {0} /\ MaxMints \in Nat /\ MaxFaults \in Nat

VARIABLES
  central,     \* device: who is connected
  authorized,  \* s_authorized
  tokens,      \* NVS: tk0 .. tk3
  tki,         \* NVS: one past the slot written last
  minted,      \* number of the last token, s_new_token
  pending,     \* s_token_pending
  sending,     \* poll() has taken the flag and not sent yet: "no", "taken", "torn"
  trust,       \* agent: the token kept for the device
  pairing,     \* self._pairing
  client,      \* per session: _client is not None
  got,         \* per session: _token
  pc,          \* per session: where its ble_pair task is
  old,         \* per session: the session whose cancel its task awaits
  codePc,      \* per ble_pair_code task: where it is, with the right or a wrong code
  on,          \* the session it works on
  shown,       \* the last ble_pairing_state
  linkToken,   \* BleLink: the token read when it found the device
  link,        \* "down", "auth", "hello", "acked" (hello_ack is in), "up"
  slipped,     \* history: two pairing commands overlapped, or a GATT call of one
               \* failed midway
  faults

device   == <<central, authorized, tokens, tki, minted, pending, sending>>
sessions == <<pairing, client, got, pc, old, shown>>
codeVars == <<codePc, on>>
vars == <<device, trust, sessions, codeVars, linkToken, link, slipped, faults>>

Init ==
  /\ central = NoOne /\ authorized = FALSE 
  /\ tokens = [i \in Slots |-> NoToken] /\ tki = 0 /\ minted = 0
  /\ pending = FALSE /\ sending = "no"
  /\ trust = NoToken
  /\ pairing = NoOne /\ shown = "none"
  /\ client = [s \in Sessions |-> FALSE] /\ got = [s \in Sessions |-> NoToken]
  /\ pc = [s \in Sessions |-> "idle"] /\ old = [s \in Sessions |-> NoOne]
  /\ codePc = [q \in Codes |-> "idle"] /\ on = [q \in Codes |-> NoOne]
  /\ link = "down" /\ linkToken = NoToken /\ slipped = FALSE /\ faults = 0

-----------------------------------------------------------------------------
(* The device.  A callback is one step of the NimBLE task.                 *)

Known(t) == \E i \in Slots : tokens[i] = t /\ t # NoToken

\* onConnect and onDisconnect.
Accept(c) ==
  /\ central = NoOne
  /\ central' = c
  /\ UNCHANGED <<authorized, tokens, tki, minted, pending, sending>>

Dropped ==
  /\ central' = NoOne /\ authorized' = FALSE /\ pending' = FALSE
  /\ UNCHANGED <<tokens, tki, minted, sending>>

\* Whoever hangs up, if it is still connected.
HangUp(c) == IF central = c THEN Dropped ELSE UNCHANGED device

\* auth_mint_token: the token goes to slot tki, then tki moves on.
Mut_SameSlot == tokens' = [tokens EXCEPT ![0] = minted + 1]
PutToken == tokens' = [tokens EXCEPT ![tki % TrustSlots] = minted + 1]

MintToken ==
  /\ minted < MaxMints
  /\ PutToken /\ tki' = (tki % TrustSlots) + 1 /\ minted' = minted + 1
  /\ pending' = TRUE /\ authorized' = TRUE
  /\ sending' = IF sending = "taken" THEN "torn" ELSE sending
  /\ UNCHANGED <<central>>

\* AuthCallbacks::onWrite with the right code, a wrong one, a token.
AuthWrite(right) == IF right THEN MintToken ELSE UNCHANGED device

AuthToken(t) ==
  /\ authorized' = (authorized \/ Known(t))
  /\ UNCHANGED <<central, tokens, tki, minted, pending, sending>>

\* poll(): the flag is taken, then the token is sent to whoever is connected.
PollTakes ==
  /\ pending /\ sending = "no"
  /\ pending' = FALSE /\ sending' = "taken"
  /\ UNCHANGED <<central, authorized, tokens, tki, minted>>
  /\ UNCHANGED <<trust, sessions, codeVars, linkToken, link, slipped, faults>>

PollSends ==
  /\ sending # "no" /\ sending' = "no"
  /\ \E t \in IF sending = "torn" THEN {minted, Garbage} ELSE {minted} :
       got' = [s \in Sessions |-> IF s = central THEN t ELSE got[s]]
  /\ UNCHANGED <<central, authorized, tokens, tki, minted, pending>>
  /\ UNCHANGED <<trust, pairing, client, pc, old, shown, codeVars, linkToken, link, slipped, faults>>

-----------------------------------------------------------------------------
(* ble_pair                                                                *)

Running == {s \in Sessions : pc[s] \notin {"idle", "done"}}
Coding  == {q \in Codes : codePc[q] \notin {"idle", "done"}}
Slips   == slipped' = (slipped \/ Running # {} \/ Coding # {})

\* Tasks are alike: whichever is given a name, it is the first that is free.
First(S) == {CHOOSE t \in S : TRUE : x \in S}

\* self._pairing = BlePairing(...), and begin() up to the await of connect().
Begin(s) ==
  /\ pairing' = s /\ shown' = "connecting"
  /\ pc' = [pc EXCEPT ![s] = "connect"]

\* A session that still has its client is cancelled first, which awaits.
BlePair(s) ==
  /\ s \in First({t \in Sessions : pc[t] = "idle"})
  /\ Slips
  /\ IF pairing # NoOne /\ client[pairing]
       THEN /\ pc' = [pc EXCEPT ![s] = "cancel"] /\ old' = [old EXCEPT ![s] = pairing]
            /\ UNCHANGED <<pairing, client, shown>>
       ELSE Begin(s) /\ client' = [client EXCEPT ![s] = TRUE] /\ UNCHANGED old
  /\ UNCHANGED <<device, trust, got, codeVars, linkToken, link, faults>>

Cancelled(s) ==
  /\ pc[s] = "cancel"
  /\ HangUp(old[s])
  /\ Begin(s)
  /\ client' = [client EXCEPT ![old[s]] = FALSE, ![s] = TRUE]
  /\ old' = [old EXCEPT ![s] = NoOne]
  /\ UNCHANGED <<trust, got, codeVars, linkToken, link, slipped, faults>>

\* The except clause: whatever session it is that self._pairing names goes.
Failed(s) ==
  /\ pc' = [pc EXCEPT ![s] = "done"] /\ pairing' = NoOne /\ shown' = "failed"
  /\ UNCHANGED <<client, got, old>>

\* connect() and start_notify().
Connected(s) ==
  /\ pc[s] = "connect" /\ client[s]
  /\ Accept(s)
  /\ pc' = [pc EXCEPT ![s] = "open"]
  /\ UNCHANGED <<trust, pairing, client, got, old, shown, codeVars, linkToken, link, slipped, faults>>

\* Then the stored token is written, or the code is awaited.
Presents(s) ==
  /\ pc[s] = "open" /\ client[s]
  /\ \/ trust # NoToken /\ central = s /\ AuthToken(trust)
        /\ pc' = [pc EXCEPT ![s] = "close"]
     \/ trust = NoToken /\ pc' = [pc EXCEPT ![s] = "await_code"] /\ UNCHANGED device
  /\ UNCHANGED <<trust, pairing, client, got, old, shown, codeVars, linkToken, link, slipped, faults>>

\* The connection cannot be had, is gone, or was closed by a cancel.
Breaks(s) ==
  /\ \/ pc[s] = "connect" /\ (central # NoOne \/ ~client[s])
     \/ pc[s] = "open" /\ ~client[s]
     \/ pc[s] = "open" /\ central # s /\ trust # NoToken
  /\ Failed(s)
  /\ UNCHANGED <<device, trust, codeVars, linkToken, link, slipped, faults>>

\* A GATT call fails on an open connection, which begin() does not close; a token
\* that was being written may have arrived.
FailsMidway(s) ==
  /\ pc[s] = "open" /\ central = s
  /\ faults < MaxFaults /\ faults' = faults + 1
  /\ UNCHANGED device \/ (trust # NoToken /\ AuthToken(trust))
  /\ Failed(s) /\ slipped' = TRUE
  /\ UNCHANGED <<trust, codeVars, linkToken, link>>

\* _close(), and begin() returns "paired", whatever the device made of the token.
PairedSilently(s) ==
  /\ pc[s] = "close"
  /\ HangUp(s)
  /\ client' = [client EXCEPT ![s] = FALSE]
  /\ pc' = [pc EXCEPT ![s] = "done"]
  /\ pairing' = NoOne /\ shown' = "paired"
  /\ UNCHANGED <<trust, got, old, codeVars, linkToken, link, slipped, faults>>

\* The code was announced or three seconds are over; self._pairing.code fails
\* when another task has cleared self._pairing.
AwaitsCode(s) ==
  /\ pc[s] = "await_code"
  /\ \/ pairing # NoOne /\ shown' = "awaiting_code" /\ pc' = [pc EXCEPT ![s] = "done"]
        /\ UNCHANGED <<pairing, client, got, old>>
     \/ pairing = NoOne /\ Failed(s)
  /\ UNCHANGED <<device, trust, codeVars, linkToken, link, slipped, faults>>

-----------------------------------------------------------------------------
(* ble_pair_code and ble_untrust                                           *)

CodeFailed(q) ==
  /\ codePc' = [codePc EXCEPT ![q] = "done"] /\ on' = [on EXCEPT ![q] = NoOne]
  /\ pairing' = NoOne /\ shown' = "failed"

BlePairCode(q, right) ==
  /\ q \in First({t \in Codes : codePc[t] = "idle"})
  /\ Slips
  /\ IF pairing # NoOne /\ client[pairing]
       THEN /\ codePc' = [codePc EXCEPT ![q] = IF right THEN "right" ELSE "wrong"] /\ on' = [on EXCEPT ![q] = pairing]
            /\ UNCHANGED <<pairing, shown>>
       ELSE CodeFailed(q)
  /\ UNCHANGED <<device, trust, client, got, pc, old, linkToken, link, faults>>

Written(q) ==
  /\ codePc[q] \in {"right", "wrong"}
  /\ \/ central = on[q] /\ AuthWrite(codePc[q] = "right")
        /\ codePc' = [codePc EXCEPT ![q] = "wait"] /\ UNCHANGED <<on, pairing, shown>>
     \/ central # on[q] /\ CodeFailed(q) /\ UNCHANGED device
  /\ UNCHANGED <<trust, client, got, pc, old, linkToken, link, slipped, faults>>

\* The write fails on an open connection, ahead of the try whose finally would
\* close it; the code may have arrived.
WriteFails(q) ==
  /\ codePc[q] \in {"right", "wrong"} /\ central = on[q]
  /\ faults < MaxFaults /\ faults' = faults + 1
  /\ UNCHANGED device \/ AuthWrite(codePc[q] = "right")
  /\ CodeFailed(q) /\ slipped' = TRUE
  /\ UNCHANGED <<trust, client, got, pc, old, linkToken, link>>

\* submit_code: the token came, or the 15 s are over; the client is closed
\* either way, and a token is remembered.  The reply needs self._pairing.
Mut_NoFinally(q) ==
  /\ codePc[q] = "wait"
  /\ codePc' = [codePc EXCEPT ![q] = "done"] /\ on' = [on EXCEPT ![q] = NoOne]
  /\ IF got[on[q]] # NoToken THEN HangUp(on[q]) /\ client' = [client EXCEPT ![on[q]] = FALSE]
     ELSE UNCHANGED <<device, client>>
  /\ trust' = IF got[on[q]] # NoToken THEN got[on[q]] ELSE trust
  /\ shown' = IF got[on[q]] # NoToken /\ pairing # NoOne THEN "paired" ELSE "failed"
  /\ pairing' = NoOne
  /\ UNCHANGED <<got, pc, old, linkToken, link, slipped, faults>>
Mut_SilentFailure(q) ==
  /\ codePc[q] = "wait"
  /\ codePc' = [codePc EXCEPT ![q] = "done"] /\ on' = [on EXCEPT ![q] = NoOne]
  /\ HangUp(on[q])
  /\ client' = [client EXCEPT ![on[q]] = FALSE] /\ got' = [got EXCEPT ![on[q]] = NoToken]
  /\ trust' = IF got[on[q]] # NoToken THEN got[on[q]] ELSE trust
  /\ shown' = IF got[on[q]] # NoToken /\ pairing # NoOne THEN "paired" ELSE shown
  /\ pairing' = NoOne
  /\ UNCHANGED <<pc, old, linkToken, link, slipped, faults>>
Submitted(q) ==
  /\ codePc[q] = "wait"
  /\ codePc' = [codePc EXCEPT ![q] = "done"] /\ on' = [on EXCEPT ![q] = NoOne]
  /\ HangUp(on[q])
  /\ client' = [client EXCEPT ![on[q]] = FALSE] /\ got' = [got EXCEPT ![on[q]] = NoToken]
  /\ trust' = IF got[on[q]] # NoToken THEN got[on[q]] ELSE trust
  /\ shown' = IF got[on[q]] # NoToken /\ pairing # NoOne THEN "paired" ELSE "failed"
  /\ pairing' = NoOne
  /\ UNCHANGED <<pc, old, linkToken, link, slipped, faults>>

Untrust ==
  /\ trust # NoToken /\ faults < MaxFaults
  /\ trust' = NoToken /\ faults' = faults + 1
  /\ UNCHANGED <<device, sessions, codeVars, linkToken, link, slipped>>

-----------------------------------------------------------------------------
(* BleLink._connect_once                                                   *)

apart == <<trust, sessions, codeVars, slipped, faults>>

LinkConnects ==
  /\ link = "down" /\ trust # NoToken
  /\ Accept(Link) /\ link' = "auth" /\ linkToken' = trust
  /\ UNCHANGED apart

\* The token may have been forgotten meanwhile.
Mut_NoAuth ==
  /\ link = "auth" /\ linkToken' = NoToken
  /\ link' = IF central = Link THEN "hello" ELSE "down"
  /\ UNCHANGED <<device, apart>>
LinkAuth ==
  /\ link = "auth" /\ linkToken' = NoToken
  /\ \/ central = Link /\ AuthToken(linkToken) /\ link' = "hello"
     \/ central # Link /\ link' = "down" /\ UNCHANGED device
  /\ UNCHANGED apart

\* The device answers a hello only when the central is authorised.
HelloAck ==
  /\ link = "hello" /\ central = Link /\ authorized
  /\ link' = "acked"
  /\ UNCHANGED <<device, linkToken, apart>>

Mut_NoAckNeeded ==
  /\ link \in {"hello", "acked"}
  /\ link' = "up"
  /\ UNCHANGED <<device, linkToken, apart>>
LinkUp ==
  /\ link = "acked"
  /\ link' = "up"
  /\ UNCHANGED <<device, linkToken, apart>>

\* Six seconds without an answer.
LinkGivesUp ==
  /\ link = "hello" /\ ~(central = Link /\ authorized)
  /\ HangUp(Link) /\ link' = "down"
  /\ UNCHANGED <<linkToken, apart>>

\* A GATT call fails on an open connection: start_notify or a write, which leaves
\* _connect_once without closing it (the token may have arrived), or a send, after
\* which the link is taken for down.  BleLink has no other use for that client.
LinkFails ==
  /\ central = Link /\ link' = "down"
  /\ faults < MaxFaults /\ faults' = faults + 1
  /\ \/ link = "auth" /\ linkToken' = NoToken /\ (UNCHANGED device \/ AuthToken(linkToken))
     \/ link = "up" /\ UNCHANGED <<device, linkToken>>
  /\ UNCHANGED <<trust, sessions, codeVars, slipped>>

\* The disconnect callback, or a send on what is not connected any more.
LinkLost ==
  /\ link = "up" /\ central # Link
  /\ link' = "down"
  /\ UNCHANGED <<device, linkToken, apart>>

-----------------------------------------------------------------------------
(* Everything else                                                         *)

\* Another host pairs with the code on the screen, and leaves some time.
\* Enough tokens are left for the codes still to be written.
Spare == minted + Cardinality({q \in Codes : codePc[q] \in {"idle", "right"}}) < MaxMints

OtherConnects == Accept(Other) /\ Spare /\ UNCHANGED <<apart, linkToken, link>>

OtherPairs ==
  /\ central = Other /\ ~authorized /\ Spare
  /\ AuthWrite(TRUE)
  /\ UNCHANGED <<apart, linkToken, link>>

OtherLeaves == central = Other /\ Dropped /\ UNCHANGED <<apart, linkToken, link>>

\* The radio loses the connection.
Lost ==
  /\ central # NoOne /\ faults < MaxFaults /\ faults' = faults + 1
  /\ Dropped
  /\ UNCHANGED <<trust, sessions, codeVars, linkToken, link, slipped>>

\* The device resets, between two callbacks or between the two NVS writes of a
\* mint.
Reset ==
  /\ faults < MaxFaults /\ faults' = faults + 1
  /\ \/ UNCHANGED <<tokens, minted>>
     \/ central # NoOne /\ ~authorized /\ Spare /\ PutToken /\ minted' = minted + 1
  /\ central' = NoOne /\ authorized' = FALSE
  /\ pending' = FALSE /\ sending' = "no" /\ tki' = tki
  /\ UNCHANGED <<trust, sessions, codeVars, linkToken, link, slipped>>

PairStep(s) ==
  \/ Cancelled(s) \/ Connected(s) \/ Breaks(s)
  \/ Presents(s) \/ PairedSilently(s) \/ AwaitsCode(s)
CodeStep(q) == Written(q) \/ Submitted(q)
LinkStep == LinkConnects \/ LinkAuth \/ HelloAck \/ LinkUp \/ LinkGivesUp \/ LinkLost
PollStep == PollTakes \/ PollSends

Next ==
  \/ \E s \in Sessions : BlePair(s) \/ PairStep(s) \/ FailsMidway(s)
  \/ \E q \in Codes : CodeStep(q) \/ WriteFails(q) \/ \E right \in BOOLEAN : BlePairCode(q, right)
  \/ LinkStep \/ LinkFails \/ PollStep
  \/ Untrust \/ OtherConnects \/ OtherPairs \/ OtherLeaves \/ Lost \/ Reset

\* Tasks, BleLink's retries and the loop go on; another host leaves some time.
Spec ==
  /\ Init
  /\ [][Next]_vars
  /\ \A s \in Sessions : WF_vars(PairStep(s))
  /\ \A q \in Codes : WF_vars(CodeStep(q))
  /\ WF_vars(LinkStep) /\ WF_vars(PollStep) /\ WF_vars(OtherLeaves)
-----------------------------------------------------------------------------
\* Every variable has its type; a token is sent whole unless one is minted
\* while it is copied.
TypeOK ==
  /\ central \in Centrals \cup {NoOne}
  /\ authorized \in BOOLEAN /\ pending \in BOOLEAN /\ slipped \in BOOLEAN
  /\ tokens \in [Slots -> Tokens \cup {NoToken}] /\ tki \in 0 .. TrustSlots
  /\ minted \in 0 .. MaxMints /\ sending \in {"no", "taken", "torn"}
  /\ trust \in 0 .. Garbage /\ linkToken \in 0 .. Garbage
  /\ pairing \in Sessions \cup {NoOne}
  /\ client \in [Sessions -> BOOLEAN] /\ got \in [Sessions -> 0 .. Garbage]
  /\ pc \in [Sessions -> {"idle", "cancel", "connect", "open", "await_code", "close", "done"}]
  /\ old \in [Sessions -> Sessions \cup {NoOne}]
  /\ codePc \in [Codes -> {"idle", "right", "wrong", "wait", "done"}]
  /\ on \in [Codes -> Sessions \cup {NoOne}]
  /\ \A q \in Codes : codePc[q] \in {"right", "wrong", "wait"} => on[q] \in Sessions
  /\ shown \in {"none", "connecting", "awaiting_code", "paired", "failed"}
  /\ link \in {"down", "auth", "hello", "acked", "up"}
  /\ faults \in 0 .. MaxFaults

\* "Any prior session is cancelled" only through self._pairing: a session that
\* has the device's one connection is the one named there, so that the next
\* command can close it, unless commands overlapped or a GATT call failed midway:
\* in begin(), or the write of submit_code().
NoLeak == ~slipped /\ central \in Sessions => pairing = central /\ client[central]

\* While the pane asks for the code, the code will be taken: ipc.md, "submits it
\* with ble_pair_code"; with the same exceptions.
CodeIsHeard == ~slipped /\ shown = "awaiting_code" => pairing # NoOne /\ client[pairing]

\* A token is remembered only if the device keeps it, and the device forgets it
\* only for as many newer ones as it has slots, a reset amid a mint included.
TrustKnown == trust \in Tokens => Known(trust) \/ minted >= trust + TrustSlots

\* ble_link.py: when the token is stale "we must not report a live connection":
\* while BleLink reports one and it is open, the device acts on its frames.
LiveMeansAuthorized == link = "up" /\ central = Link => authorized

\* BleLink has left a connection open that it takes for down: the device keeps
\* its one central and is not found, until the radio loses it or it resets.
LeftOpen == central = Link /\ link = "down"

\* README: "future connects to that device skip the code": with a token the
\* device knows and no pairing or other host around, BleLink gets through, unless
\* a GATT call failed and left its connection open.
LinkComesUp ==
  <>[](Known(trust) /\ pairing = NoOne /\ ~slipped /\ central # Other /\ ~LeftOpen)
    => []<>(link = "up")
=============================================================================
