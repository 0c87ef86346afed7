--------------------------- MODULE PairingProofs ----------------------------
(***************************************************************************)
(* For any number of sessions, codes, token slots and faults: a session    *)
(* that has the device's connection is the one the agent would close, the  *)
(* code asked for is taken, a token that is remembered is forgotten only   *)
(* for as many newer ones as there are slots, and BleLink reports no       *)
(* connection the device does not act on.                                  *)
(***************************************************************************)
EXTENDS Pairing, TLAPS, FiniteSetTheorems

\* The slot the next token goes to, and how many tokens go elsewhere before
\* slot i is written.
NextSlot == tki % TrustSlots
Distance(i, n) == IF i >= n THEN i - n ELSE i - n + TrustSlots
Ahead(i) == Distance(i, NextSlot)

\* The tokens that are or may come to be held lie in a slot that is written
\* the later the newer they are.
Recent(v) ==
  \/ minted >= v + TrustSlots
  \/ \E i \in Slots : tokens[i] = v /\ minted + 1 + Ahead(i) >= v + TrustSlots

HeldRecent ==
  /\ trust \in Tokens => Recent(trust)
  /\ \A s \in Sessions : got[s] \in Tokens => Recent(got[s])
  /\ pending \/ sending # "no" => Recent(minted)

\* Without overlap one task runs, and it works on the session self._pairing
\* names.
Alone ==
  /\ \A s, t \in Running : s = t
  /\ \A q, r \in Coding : q = r
  /\ Running = {} \/ Coding = {}

Owned ==
  /\ central \in Sessions => pairing = central /\ client[central]
  /\ \A s \in Sessions :
       /\ pc[s] \in {"connect", "open", "await_code", "close"} => pairing = s /\ client[s]
       /\ pc[s] = "cancel" => pairing = old[s] /\ pairing # NoOne /\ client[pairing]
       /\ pc[s] = "connect" => central # s
  /\ \A q \in Codes :
       codePc[q] \in {"right", "wrong", "wait"} => pairing = on[q] /\ client[pairing]
  /\ shown = "awaiting_code" => pairing # NoOne /\ client[pairing]

Tidy == ~slipped => Alone /\ Owned

\* What hello_ack has shown lasts as long as the connection.
Acked == link \in {"acked", "up"} /\ central = Link => authorized

-----------------------------------------------------------------------------
\* tki is one past a slot, or none has been written.
LEMMA Modulus ==
  ASSUME NEW a \in 0 .. TrustSlots
  PROVE  a % TrustSlots = IF a = TrustSlots THEN 0 ELSE a
BY PairingAssumption

LEMMA SlotFacts ==
  ASSUME tki \in 0 .. TrustSlots
  PROVE  NextSlot = IF tki = TrustSlots THEN 0 ELSE tki
BY Modulus DEF NextSlot

\* A task that is given a name gets a free one.
LEMMA FirstIsIn == ASSUME NEW S, NEW x \in First(S) PROVE x \in S
BY DEF First

\* Enough tokens are left when another host is given one.
LEMMA SpareMeansSome == ASSUME minted \in Nat, Spare PROVE minted < MaxMints
<1>1. Cardinality({q \in Codes : codePc[q] \in {"idle", "right"}}) \in Nat
  BY PairingAssumption, FS_Subset, FS_CardinalityType
<1>2. QED  BY <1>1, PairingAssumption DEF Spare

-----------------------------------------------------------------------------
(* Types: the numbers, and the rest.                                       *)

Numbers ==
  /\ tokens \in [Slots -> Tokens \cup {NoToken}] /\ tki \in 0 .. TrustSlots
  /\ minted \in 0 .. MaxMints
  /\ trust \in 0 .. Garbage /\ linkToken \in 0 .. Garbage
  /\ got \in [Sessions -> 0 .. Garbage]
  /\ faults \in 0 .. MaxFaults

Control ==
  /\ central \in Centrals \cup {NoOne}
  /\ authorized \in BOOLEAN /\ pending \in BOOLEAN /\ slipped \in BOOLEAN
  /\ sending \in {"no", "taken", "torn"}
  /\ pairing \in Sessions \cup {NoOne}
  /\ client \in [Sessions -> BOOLEAN]
  /\ pc \in [Sessions -> {"idle", "cancel", "connect", "open", "await_code", "close", "done"}]
  /\ old \in [Sessions -> Sessions \cup {NoOne}]
  /\ codePc \in [Codes -> {"idle", "right", "wrong", "wait", "done"}]
  /\ on \in [Codes -> Sessions \cup {NoOne}]
  /\ \A q \in Codes : codePc[q] \in {"right", "wrong", "wait"} => on[q] \in Sessions
  /\ shown \in {"none", "connecting", "awaiting_code", "paired", "failed"}
  /\ link \in {"down", "auth", "hello", "acked", "up"}

LEMMA TypeSplit == TypeOK <=> Numbers /\ Control
BY DEF TypeOK, Numbers, Control

LEMMA InitType == Init => TypeOK
<1> SUFFICES ASSUME Init PROVE TypeOK
  OBVIOUS
<1>1. Numbers
  BY PairingAssumption DEF Init, Numbers, NoToken, Garbage
<1>2. Control
  BY DEF Init, Control
<1>3. QED  BY <1>1, <1>2, TypeSplit

\* A mint stores a whole token.
LEMMA PutNumbers ==
  ASSUME Numbers, PutToken, minted < MaxMints, minted' = minted + 1
  PROVE  tokens' \in [Slots -> Tokens \cup {NoToken}] /\ minted' \in 0 .. MaxMints
<1>1. minted + 1 \in Tokens /\ minted + 1 \in 0 .. MaxMints
  BY PairingAssumption DEF Numbers, Tokens
<1>2. QED  BY <1>1 DEF Numbers, PutToken

LEMMA MintNumbers ==
  ASSUME Numbers, MintToken, UNCHANGED <<trust, linkToken>>, got' \in [Sessions -> 0 .. Garbage],
         faults' = faults
  PROVE  Numbers'
<1>1. tki' \in 0 .. TrustSlots
  BY SlotFacts, PairingAssumption DEF Numbers, MintToken, NextSlot
<1>2. QED  BY <1>1, PutNumbers DEF Numbers, MintToken

\* The other operations of the device leave its numbers alone.
LEMMA KeepsTokens ==
  ASSUME \/ \E c \in Centrals : Accept(c) \/ HangUp(c)
         \/ Dropped
         \/ \E t \in 0 .. Garbage : AuthToken(t)
         \/ UNCHANGED device
  PROVE  UNCHANGED <<tokens, tki, minted>>
BY DEF Accept, HangUp, Dropped, AuthToken, device

LEMMA KeepsControl ==
  ASSUME Control,
         \/ \E c \in Centrals : Accept(c) \/ HangUp(c)
         \/ Dropped
         \/ \E t \in 0 .. Garbage : AuthToken(t)
         \/ \E right \in BOOLEAN : AuthWrite(right)
         \/ UNCHANGED device
  PROVE  /\ central' \in Centrals \cup {NoOne}
         /\ authorized' \in BOOLEAN /\ pending' \in BOOLEAN
         /\ sending' \in {"no", "taken", "torn"}
BY DEF Control, Accept, HangUp, Dropped, AuthToken, AuthWrite, MintToken, device

-----------------------------------------------------------------------------
(* TypeOK is kept                                                          *)

PairAct(s) == BlePair(s) \/ PairStep(s) \/ FailsMidway(s)
CodeAct(q) == CodeStep(q) \/ WriteFails(q) \/ \E right \in BOOLEAN : BlePairCode(q, right)
Rest == Untrust \/ OtherConnects \/ OtherPairs \/ OtherLeaves \/ Lost \/ Reset

\* Every step is one of these.
LEMMA Steps ==
  Next <=> \/ \E s \in Sessions : PairAct(s)
           \/ \E q \in Codes : CodeAct(q)
           \/ LinkStep \/ LinkFails \/ PollStep \/ Rest
BY DEF Next, PairAct, CodeAct, Rest

LEMMA PairNumbers == ASSUME TypeOK, NEW s \in Sessions, PairAct(s) PROVE Numbers'
<1> USE TypeSplit
<1>c. \A c \in Sessions : c \in Centrals
  BY DEF Centrals
<1>1. UNCHANGED <<tokens, tki, minted>>
  BY <1>c, KeepsTokens DEF Numbers, Control, PairAct, PairStep, BlePair, Cancelled, Connected, Breaks,
     Presents, PairedSilently, AwaitsCode, FailsMidway, HangUp, Dropped, device
<1>2. UNCHANGED <<trust, linkToken, got>> /\ faults' \in 0 .. MaxFaults
  BY PairingAssumption DEF Numbers, PairAct, PairStep, BlePair, Cancelled, Connected, Breaks,
     Presents, PairedSilently, AwaitsCode, FailsMidway, Failed
<1>3. QED  BY <1>1, <1>2 DEF Numbers

LEMMA PairControl == ASSUME TypeOK, NEW s \in Sessions, PairAct(s) PROVE Control'
<1> USE TypeSplit
<1>c. \A c \in Sessions : c \in Centrals
  BY DEF Centrals
<1>1. CASE BlePair(s)
  <2>1. slipped' \in BOOLEAN
    BY <1>1 DEF BlePair, Slips, Control
  <2>2. QED  BY <1>1, <2>1 DEF BlePair, Begin, Control, device, codeVars
<1>2. CASE Cancelled(s)
  BY <1>2 DEF Cancelled, HangUp, Control, Dropped, device, Begin, codeVars
<1>3. CASE Connected(s)
  BY <1>3, <1>c DEF Connected, Accept, Control, codeVars
<1>4. CASE Breaks(s)
  BY <1>4 DEF Breaks, Failed, Control, device, codeVars
<1>5. CASE Presents(s)
  <2>1. authorized' \in BOOLEAN
    BY <1>5 DEF Presents, AuthToken, Control, device
  <2>2. QED  BY <1>5, <2>1 DEF Presents, AuthToken, Control, codeVars, device
<1>6. CASE PairedSilently(s)
  BY <1>6 DEF PairedSilently, HangUp, Dropped, Control, codeVars, device
<1>7. CASE AwaitsCode(s)
  BY <1>7 DEF AwaitsCode, Failed, Control, device, codeVars
<1>8. CASE FailsMidway(s)
  <2>1. authorized' \in BOOLEAN
    BY <1>8 DEF FailsMidway, AuthToken, Control, device
  <2>2. QED  BY <1>8, <2>1 DEF FailsMidway, Failed, AuthToken, Control, device, codeVars
<1>9. QED  BY <1>1, <1>2, <1>3, <1>4, <1>5, <1>6, <1>7, <1>8 DEF PairAct, PairStep

LEMMA CodeNumbers == ASSUME TypeOK, NEW q \in Codes, CodeAct(q) PROVE Numbers'
<1> USE TypeSplit
<1>1. CASE Written(q)
  <2>1. CASE MintToken
    BY <1>1, <2>1, MintNumbers DEF Written, Numbers
  <2>2. CASE UNCHANGED device
    BY <1>1, <2>2 DEF Written, Numbers, device
  <2>3. QED  BY <1>1, <2>1, <2>2 DEF Written, AuthWrite
<1>2. CASE Submitted(q)
  <2>1. got[on[q]] \in 0 .. Garbage
    BY <1>2 DEF Submitted, Numbers, Control
  <2>2. UNCHANGED <<tokens, tki, minted>>
    BY <1>2 DEF Submitted, HangUp, Dropped, device
  <2>3. trust' \in 0 .. Garbage /\ UNCHANGED <<linkToken, faults>>
    BY <1>2, <2>1 DEF Submitted, Numbers
  <2>4. got' \in [Sessions -> 0 .. Garbage]
    <3>1. NoToken \in 0 .. Garbage
      BY PairingAssumption DEF NoToken, Garbage
    <3>2. QED  BY <1>2, <3>1 DEF Submitted, Numbers
  <2>5. QED  BY <2>2, <2>3, <2>4 DEF Numbers
<1>3. CASE \E right \in BOOLEAN : BlePairCode(q, right)
  BY <1>3 DEF BlePairCode, device, Numbers
<1>4. CASE WriteFails(q)
  <2>1. /\ UNCHANGED <<trust, linkToken>> /\ got' \in [Sessions -> 0 .. Garbage]
        /\ faults' \in 0 .. MaxFaults
    BY <1>4, PairingAssumption DEF WriteFails, Numbers
  <2>2. CASE UNCHANGED device
    BY <2>1, <2>2 DEF Numbers, device
  <2>3. CASE MintToken
    <3>1. tki' \in 0 .. TrustSlots
      BY <2>3, SlotFacts, PairingAssumption DEF Numbers, MintToken, NextSlot
    <3>2. tokens' \in [Slots -> Tokens \cup {NoToken}] /\ minted' \in 0 .. MaxMints
      BY <2>3, PutNumbers DEF MintToken
    <3>3. QED  BY <2>1, <3>1, <3>2 DEF Numbers
  <2>4. QED  BY <1>4, <2>2, <2>3 DEF WriteFails, AuthWrite
<1>5. QED  BY <1>1, <1>2, <1>3, <1>4 DEF CodeAct, CodeStep

LEMMA CodeControl == ASSUME TypeOK, NEW q \in Codes, CodeAct(q) PROVE Control'
<1> USE TypeSplit
<1>1. CASE Written(q)
  BY <1>1, KeepsControl DEF Written, CodeFailed, Control, device
<1>2. CASE Submitted(q)
  BY <1>2 DEF Submitted, HangUp, Dropped, device, Control
<1>3. ASSUME NEW right \in BOOLEAN, BlePairCode(q, right) PROVE Control'
  <2>1. slipped' \in BOOLEAN
    BY <1>3 DEF BlePairCode, Slips, Control
  <2>2. QED  BY <1>3, <2>1 DEF BlePairCode, CodeFailed, Control, device
<1>4. CASE WriteFails(q)
  BY <1>4, KeepsControl DEF WriteFails, CodeFailed, Control, device
<1>5. QED  BY <1>1, <1>2, <1>3, <1>4 DEF CodeAct, CodeStep

LEMMA LinkType == ASSUME TypeOK, LinkStep PROVE TypeOK'
<1> USE TypeSplit
<1>1. UNCHANGED <<tokens, tki, minted>>
  BY DEF LinkStep, LinkConnects, LinkAuth, HelloAck, LinkUp, LinkGivesUp, LinkLost,
         Accept, AuthToken, HangUp, Dropped, device
<1>2. linkToken' \in 0 .. Garbage /\ UNCHANGED <<trust, got, faults>>
  BY PairingAssumption DEF LinkStep, LinkConnects, LinkAuth, HelloAck, LinkUp, LinkGivesUp, LinkLost,
         apart, sessions, Numbers, NoToken, Garbage
<1>3. authorized' \in BOOLEAN
  BY DEF LinkStep, LinkConnects, LinkAuth, HelloAck, LinkUp, LinkGivesUp, LinkLost,
         Accept, AuthToken, HangUp, Dropped, device, Control
<1>4. Control'
  BY <1>3 DEF LinkStep, LinkConnects, LinkAuth, HelloAck, LinkUp, LinkGivesUp, LinkLost,
         Accept, AuthToken, HangUp, Dropped, device, apart, sessions, codeVars, Control, Centrals
<1>5. Numbers'
  BY <1>1, <1>2 DEF Numbers
<1>6. QED  BY <1>4, <1>5 DEF TypeOK, Numbers, Control

LEMMA LinkFailsType == ASSUME TypeOK, LinkFails PROVE TypeOK'
<1> USE TypeSplit
<1>1. UNCHANGED <<tokens, tki, minted, trust, got>>
  BY DEF LinkFails, AuthToken, device, sessions
<1>2. linkToken' \in 0 .. Garbage /\ faults' \in 0 .. MaxFaults
  BY PairingAssumption DEF LinkFails, Numbers, NoToken, Garbage
<1>3. authorized' \in BOOLEAN
  BY DEF LinkFails, AuthToken, device, Control
<1>4. Control'
  BY <1>3 DEF LinkFails, AuthToken, device, sessions, codeVars, Control
<1>5. Numbers'
  BY <1>1, <1>2 DEF Numbers
<1>6. QED  BY <1>4, <1>5 DEF TypeOK, Numbers, Control

LEMMA PollType == ASSUME TypeOK, PollStep PROVE TypeOK'
<1> USE TypeSplit
<1>1. Control'
  BY DEF PollStep, PollTakes, PollSends, Control, sessions, codeVars
<1>2. got' \in [Sessions -> 0 .. Garbage]
  <2>1. minted \in 0 .. Garbage /\ Garbage \in 0 .. Garbage
    BY PairingAssumption DEF Numbers, Garbage
  <2>2. CASE PollTakes
    BY <2>2 DEF PollTakes, sessions, Numbers
  <2>3. CASE PollSends
    BY <2>3, <2>1 DEF PollSends, Numbers
  <2>4. QED  BY <2>2, <2>3 DEF PollStep
<1>3. Numbers'
  BY <1>2 DEF PollStep, PollTakes, PollSends, Numbers
<1>4. QED  BY <1>1, <1>3 DEF TypeOK, Numbers, Control

LEMMA RestControl == ASSUME TypeOK, Rest PROVE Control'
<1> USE TypeSplit
<1>1. CASE Untrust
  BY <1>1 DEF Untrust, device, sessions, codeVars, Control
<1>2. CASE OtherConnects \/ OtherPairs \/ OtherLeaves
  BY <1>2 DEF OtherConnects, OtherPairs, OtherLeaves, Accept, AuthWrite, MintToken, Dropped,
     apart, sessions, codeVars, Control, Centrals
<1>3. CASE Lost \/ Reset
  BY <1>3 DEF Lost, Reset, Dropped, sessions, codeVars, Control
<1>4. QED  BY <1>1, <1>2, <1>3 DEF Rest

LEMMA RestNumbers == ASSUME TypeOK, Rest PROVE Numbers'
<1> USE TypeSplit
<1>1. NoToken \in 0 .. Garbage
  BY PairingAssumption DEF NoToken, Garbage
<1>2. UNCHANGED <<got, linkToken>>
  BY DEF Rest, Untrust, OtherConnects, OtherPairs, OtherLeaves, Lost, Reset, apart, sessions
<1>3. trust' \in 0 .. Garbage
  BY <1>1 DEF Rest, Untrust, OtherConnects, OtherPairs, OtherLeaves, Lost, Reset, apart, Numbers
<1>4. faults' \in 0 .. MaxFaults
  <2>1. CASE OtherConnects \/ OtherPairs \/ OtherLeaves
    <3>1. UNCHANGED faults
      BY <2>1 DEF OtherConnects, OtherPairs, OtherLeaves, apart
    <3>2. QED  BY <3>1 DEF Numbers
  <2>2. CASE Untrust \/ Lost \/ Reset
    BY <2>2, PairingAssumption DEF Untrust, Lost, Reset, Numbers
  <2>3. QED  BY <2>1, <2>2 DEF Rest
<1>5. tki' \in 0 .. TrustSlots /\ tokens' \in [Slots -> Tokens \cup {NoToken}]
      /\ minted' \in 0 .. MaxMints
  <2>1. CASE OtherPairs
    <3>1. MintToken /\ minted < MaxMints /\ minted' = minted + 1 /\ PutToken
      BY <2>1 DEF OtherPairs, AuthWrite, MintToken
    <3>2. tki' \in 0 .. TrustSlots
      BY <3>1, SlotFacts, PairingAssumption DEF Numbers, MintToken, NextSlot
    <3>3. QED  BY <3>1, <3>2, PutNumbers
  <2>2. CASE Reset
    BY <2>2, PutNumbers, SpareMeansSome, PairingAssumption DEF Reset, Numbers
  <2>3. CASE Untrust \/ OtherConnects \/ OtherLeaves \/ Lost
    BY <2>3 DEF Untrust, OtherConnects, OtherLeaves, Lost, Accept, Dropped, device, Numbers
  <2>4. QED  BY <2>1, <2>2, <2>3 DEF Rest
<1>6. QED  BY <1>2, <1>3, <1>4, <1>5 DEF Numbers

\* A stuttering step.
LEMMA StutterType == ASSUME TypeOK, UNCHANGED vars PROVE TypeOK'
<1>1. Numbers'
  BY TypeSplit DEF Numbers, vars, device, sessions, codeVars
<1>2. Control'
  BY TypeSplit DEF Control, vars, device, sessions, codeVars
<1>3. QED  BY <1>1, <1>2 DEF TypeOK, Numbers, Control

LEMMA TypeKept == ASSUME TypeOK, [Next]_vars PROVE TypeOK'
<1>1. CASE LinkStep \/ LinkFails \/ PollStep \/ UNCHANGED vars
  BY <1>1, LinkType, LinkFailsType, PollType, StutterType
<1>2. CASE (\E s \in Sessions : PairAct(s)) \/ (\E q \in Codes : CodeAct(q)) \/ Rest
  <2>1. Numbers' /\ Control'
    BY <1>2, PairNumbers, PairControl, CodeNumbers, CodeControl, RestNumbers, RestControl
  <2>2. QED  BY <2>1 DEF TypeOK, Numbers, Control
<1>3. QED  BY <1>1, <1>2, Steps

\* Every variable keeps its type: no token is above the last one there can be
\* but for a garbled one, and a task that writes a code has a session.
THEOREM TypeCorrect == Spec => []TypeOK
<1>1. TypeOK /\ [Next]_vars => TypeOK'
  BY TypeKept
<1>2. QED  BY InitType, <1>1, PTL DEF Spec

-----------------------------------------------------------------------------
(* TrustKnown                                                              *)

\* Moving on by one slot brings every other slot nearer by one.
LEMMA DistanceShrinks ==
  ASSUME NEW i \in 0 .. TrustSlots - 1, NEW n \in 0 .. TrustSlots - 1
  PROVE  /\ Distance(i, n) \in Nat
         /\ \A m \in 0 .. TrustSlots - 1 :
              (m = n \/ m = IF n + 1 = TrustSlots THEN 0 ELSE n + 1) /\ i # n
                => Distance(i, m) + 1 >= Distance(i, n)
BY PairingAssumption DEF Distance

\* A mint ages the other tokens by one, whether or not tki gets to flash.
LEMMA MintAges ==
  ASSUME Numbers, Numbers', PutToken, minted' = minted + 1,
         tki' = NextSlot + 1 \/ tki' = tki,
         NEW v \in Nat, Recent(v)
  PROVE  Recent(v)'
<1> USE PairingAssumption
<1>1. CASE minted >= v + TrustSlots
  BY <1>1 DEF Numbers, Recent
<1>2. CASE \E i \in Slots : tokens[i] = v /\ minted + 1 + Ahead(i) >= v + TrustSlots
  <2>1. PICK i \in Slots : tokens[i] = v /\ minted + 1 + Ahead(i) >= v + TrustSlots
    BY <1>2
  <2>2. NextSlot = IF tki = TrustSlots THEN 0 ELSE tki
    BY SlotFacts DEF Numbers
  <2>3. NextSlot' = IF tki' = TrustSlots THEN 0 ELSE tki'
    BY Modulus DEF Numbers, NextSlot
  <2>4. CASE i = NextSlot
    BY <2>1, <2>4 DEF Recent, Ahead, Distance, Numbers, Slots
  <2>5. CASE i # NextSlot
    <3>1. tokens'[i] = v
      BY <2>1, <2>5 DEF PutToken, NextSlot, Numbers
    <3>a. /\ i \in 0 .. TrustSlots - 1 /\ TrustSlots \in Nat \ {0}
          /\ NextSlot \in 0 .. TrustSlots - 1 /\ NextSlot' \in 0 .. TrustSlots - 1
      BY <2>2, <2>3 DEF Slots, Numbers
    <3>b. \/ NextSlot' = NextSlot
          \/ NextSlot' = IF NextSlot + 1 = TrustSlots THEN 0 ELSE NextSlot + 1
      BY <2>2, <2>3, <3>a DEF Numbers
    <3>2. Ahead(i)' + 1 >= Ahead(i)
      BY <2>5, <3>a, <3>b, DistanceShrinks DEF Ahead
    <3>3. Ahead(i) \in Nat /\ Ahead(i)' \in Nat
      BY <3>a, DistanceShrinks DEF Ahead
    <3>4. minted' + 1 + Ahead(i)' >= v + TrustSlots
      BY <2>1, <3>2, <3>3 DEF Numbers
    <3>5. QED  BY <3>1, <3>4 DEF Recent
  <2>6. QED  BY <2>4, <2>5
<1>3. QED  BY <1>1, <1>2 DEF Recent

\* The token minted lies in the slot that is written last.
LEMMA MintIsRecent ==
  ASSUME Numbers, Numbers', PutToken, minted' = minted + 1, tki' = NextSlot + 1
  PROVE  Recent(minted)'
<1> USE PairingAssumption
<1>1. NextSlot = IF tki = TrustSlots THEN 0 ELSE tki
  BY SlotFacts DEF Numbers
<1>2. NextSlot' = IF tki' = TrustSlots THEN 0 ELSE tki'
  BY Modulus DEF Numbers, NextSlot
<1>3. NextSlot \in Slots
  BY <1>1 DEF Slots, Numbers
<1>4. tokens'[NextSlot] = minted'
  BY <1>3 DEF PutToken, NextSlot, Numbers
<1>5. PICK i \in Slots : i = NextSlot
  BY <1>3
<1>6. Ahead(i)' = TrustSlots - 1
  BY <1>1, <1>2, <1>5 DEF Ahead, Distance, Slots, Numbers
<1>7. tokens'[i] = minted' /\ minted' + 1 + Ahead(i)' >= minted' + TrustSlots
  BY <1>4, <1>5, <1>6 DEF Numbers
<1>8. QED  BY <1>7 DEF Recent

LEMMA StaysRecent ==
  ASSUME UNCHANGED <<tokens, tki, minted>>, NEW v
  PROVE  Recent(v)' <=> Recent(v)
BY DEF Recent, Ahead, NextSlot

\* What the agent holds comes from what it held.
LEMMA HeldKept ==
  ASSUME HeldRecent, \A v \in Tokens : Recent(v) => Recent(v)',
         trust' \in {trust, NoToken} \cup {got[s] : s \in Sessions},
         \A s \in Sessions : got'[s] \in {got[s], NoToken},
         pending' \/ sending' # "no" => Recent(minted)'
  PROVE  HeldRecent'
<1>1. NoToken \notin Tokens
  BY PairingAssumption DEF NoToken, Tokens
<1>2. QED  BY <1>1 DEF HeldRecent

\* So it is when no token is minted and no delivery begins.
LEMMA QuietHeld ==
  ASSUME HeldRecent, UNCHANGED <<tokens, tki, minted>>,
         trust' \in {trust, NoToken} \cup {got[s] : s \in Sessions},
         \A s \in Sessions : got'[s] \in {got[s], NoToken},
         pending' \/ sending' # "no" => pending \/ sending # "no"
  PROVE  HeldRecent'
<1>1. \A v : Recent(v)' <=> Recent(v)
  BY StaysRecent
<1>2. Recent(minted) => Recent(minted)'
  BY DEF Recent, Ahead, NextSlot
<1>3. QED  BY <1>1, <1>2, HeldKept DEF HeldRecent

LEMMA PairHeld == ASSUME TypeOK, HeldRecent, NEW s \in Sessions, PairAct(s) PROVE HeldRecent'
<1>1. UNCHANGED <<tokens, tki, minted, trust, got, sending>>
  BY DEF PairAct, PairStep, BlePair, Cancelled, Connected, Breaks, Presents, PairedSilently,
     AwaitsCode, FailsMidway, Failed, Accept, AuthToken, HangUp, Dropped, device
<1>2. pending' => pending
  BY DEF PairAct, PairStep, BlePair, Cancelled, Connected, Breaks, Presents, PairedSilently,
     AwaitsCode, FailsMidway, Failed, Accept, AuthToken, HangUp, Dropped, device
<1>3. QED  BY <1>1, <1>2, QuietHeld

LEMMA MintHeld ==
  ASSUME Numbers, Numbers', HeldRecent, MintToken, UNCHANGED <<trust, got>>
  PROVE  HeldRecent'
<1>1. tki' = NextSlot + 1 /\ minted' = minted + 1 /\ PutToken
  BY DEF MintToken, NextSlot
<1>2. \A v \in Tokens : Recent(v) => Recent(v)'
  BY <1>1, MintAges, PairingAssumption DEF Tokens
<1>3. Recent(minted)'
  BY <1>1, MintIsRecent
<1>4. QED  BY <1>2, <1>3, HeldKept

LEMMA CodeHeld ==
  ASSUME TypeOK, Numbers', HeldRecent, NEW q \in Codes, CodeAct(q)
  PROVE  HeldRecent'
<1> USE TypeSplit
<1>1. CASE Written(q)
  <2>1. CASE MintToken
    BY <1>1, <2>1, MintHeld DEF Written
  <2>2. CASE UNCHANGED device
    BY <1>1, <2>2, QuietHeld DEF Written, device
  <2>3. QED  BY <1>1, <2>1, <2>2 DEF Written, AuthWrite
<1>2. CASE Submitted(q)
  <2>1. UNCHANGED <<tokens, tki, minted, sending>> /\ (pending' => pending)
    BY <1>2 DEF Submitted, HangUp, Dropped, device
  <2>2. on[q] \in Sessions
    BY <1>2 DEF Submitted, Control
  <2>3. trust' \in {trust, NoToken} \cup {got[s] : s \in Sessions}
    BY <1>2, <2>2 DEF Submitted
  <2>4. \A s \in Sessions : got'[s] \in {got[s], NoToken}
    BY <1>2 DEF Submitted, Numbers
  <2>5. QED  BY <2>1, <2>3, <2>4, QuietHeld
<1>3. CASE \E right \in BOOLEAN : BlePairCode(q, right)
  BY <1>3, QuietHeld DEF BlePairCode, device
<1>4. CASE WriteFails(q)
  <2>1. CASE MintToken
    BY <1>4, <2>1, MintHeld DEF WriteFails
  <2>2. CASE UNCHANGED device
    BY <1>4, <2>2, QuietHeld DEF WriteFails, device
  <2>3. QED  BY <1>4, <2>1, <2>2 DEF WriteFails, AuthWrite
<1>5. QED  BY <1>1, <1>2, <1>3, <1>4 DEF CodeAct, CodeStep

LEMMA LinkHeld == ASSUME TypeOK, HeldRecent, LinkStep \/ LinkFails PROVE HeldRecent'
<1>1. UNCHANGED <<tokens, tki, minted, trust, got, sending>>
  BY DEF LinkStep, LinkConnects, LinkAuth, HelloAck, LinkUp, LinkGivesUp, LinkLost, LinkFails,
         Accept, AuthToken, HangUp, Dropped, device, apart, sessions
<1>2. pending' => pending
  BY DEF LinkStep, LinkConnects, LinkAuth, HelloAck, LinkUp, LinkGivesUp, LinkLost, LinkFails,
         Accept, AuthToken, HangUp, Dropped, device
<1>3. QED  BY <1>1, <1>2, QuietHeld

\* What poll() hands over is the newest token, or garbled.
LEMMA PollHeld == ASSUME TypeOK, HeldRecent, PollStep PROVE HeldRecent'
<1>1. CASE PollTakes
  BY <1>1, QuietHeld DEF PollTakes, sessions
<1>2. CASE PollSends
  <2>1. UNCHANGED <<tokens, tki, minted, trust, pending>> /\ sending # "no" /\ sending' = "no"
    BY <1>2 DEF PollSends
  <2>2. \A v : Recent(v)' <=> Recent(v)
    BY <2>1, StaysRecent
  <2>3. Recent(minted) /\ Recent(minted)'
    BY <2>1 DEF HeldRecent, Recent, Ahead, NextSlot
  <2>4. \A s \in Sessions : got'[s] \in {got[s], minted, Garbage}
    BY <1>2 DEF PollSends
  <2>5. Garbage \notin Tokens
    BY PairingAssumption DEF Garbage, Tokens
  <2>6. QED  BY <2>1, <2>2, <2>3, <2>4, <2>5 DEF HeldRecent
<1>3. QED  BY <1>1, <1>2 DEF PollStep

LEMMA RestHeld == ASSUME TypeOK, Numbers', HeldRecent, Rest PROVE HeldRecent'
<1> USE TypeSplit
<1>1. CASE Untrust
  BY <1>1, QuietHeld DEF Untrust, device, sessions
<1>2. CASE OtherPairs
  BY <1>2, MintHeld DEF OtherPairs, AuthWrite, apart, sessions
<1>3. CASE OtherConnects \/ OtherLeaves \/ Lost
  BY <1>3, QuietHeld DEF OtherConnects, OtherLeaves, Lost, Accept, Dropped, apart, sessions
<1>4. CASE Reset
  <2>1. UNCHANGED <<trust, got>> /\ ~pending' /\ sending' = "no" /\ tki' = tki
    BY <1>4 DEF Reset, sessions
  <2>2. CASE UNCHANGED <<tokens, minted>>
    BY <2>1, <2>2, QuietHeld
  <2>3. CASE PutToken /\ minted' = minted + 1
    <3>1. \A v \in Tokens : Recent(v) => Recent(v)'
      BY <2>1, <2>3, MintAges, PairingAssumption DEF Tokens
    <3>2. QED  BY <2>1, <3>1, HeldKept
  <2>4. QED  BY <1>4, <2>2, <2>3 DEF Reset
<1>5. QED  BY <1>1, <1>2, <1>3, <1>4 DEF Rest

-----------------------------------------------------------------------------
(* LiveMeansAuthorized                                                     *)

\* Nothing but the end of the connection takes BleLink's right to command.
LEMMA AckedKept == ASSUME TypeOK, Acked, [Next]_vars PROVE Acked'
<1> USE PairingAssumption
<1>0. Link # NoOne /\ Link # Other /\ Link \notin Sessions /\ Sessions \subseteq Centrals
      /\ Other \in Centrals /\ Link \in Centrals
  BY DEF Link, NoOne, Other, Centrals
<1>t. trust \in 0 .. Garbage /\ linkToken \in 0 .. Garbage
  BY DEF TypeOK
<1>1. ASSUME NEW s \in Sessions, PairAct(s) PROVE Acked'
  <2>1. link' = link
    BY <1>1 DEF PairAct, PairStep, BlePair, Cancelled, Connected, Breaks, Presents, PairedSilently,
       AwaitsCode, FailsMidway
  <2>2. central' = Link => central = Link /\ (authorized => authorized')
    BY <1>0, <1>1 DEF PairAct, PairStep, BlePair, Cancelled, Connected, Breaks, Presents,
       PairedSilently, AwaitsCode, FailsMidway, Accept, AuthToken, HangUp, Dropped, device
  <2>3. QED  BY <2>1, <2>2 DEF Acked
<1>2. ASSUME NEW q \in Codes, CodeAct(q) PROVE Acked'
  <2>1. link' = link
    BY <1>2 DEF CodeAct, CodeStep, Written, WriteFails, Submitted, BlePairCode
  <2>2. central' = Link => central = Link /\ (authorized => authorized')
    BY <1>0, <1>2 DEF CodeAct, CodeStep, Written, WriteFails, Submitted, BlePairCode, AuthWrite,
       MintToken, HangUp, Dropped, device
  <2>3. QED  BY <2>1, <2>2 DEF Acked
<1>3. CASE LinkStep
  <2>1. CASE LinkConnects \/ LinkAuth \/ LinkGivesUp
    BY <2>1 DEF LinkConnects, LinkAuth, LinkGivesUp, Acked
  <2>2. CASE HelloAck \/ LinkUp \/ LinkLost
    BY <2>2 DEF HelloAck, LinkUp, LinkLost, device, Acked
  <2>3. QED  BY <1>3, <2>1, <2>2 DEF LinkStep
<1>4. CASE PollStep \/ UNCHANGED vars
  BY <1>4 DEF PollStep, PollTakes, PollSends, vars, device, Acked
<1>5. CASE Rest
  <2>1. link' = link
    BY <1>5 DEF Rest, Untrust, OtherConnects, OtherPairs, OtherLeaves, Lost, Reset
  <2>2. central' = Link => central = Link /\ (authorized => authorized')
    BY <1>0, <1>5 DEF Rest, Untrust, OtherConnects, OtherPairs, OtherLeaves, Lost, Reset,
       Accept, AuthWrite, MintToken, Dropped, device
  <2>3. QED  BY <2>1, <2>2 DEF Acked
<1>6. CASE LinkFails
  BY <1>6 DEF LinkFails, Acked
<1>7. QED  BY <1>1, <1>2, <1>3, <1>4, <1>5, <1>6, Steps

-----------------------------------------------------------------------------
(* NoLeak and CodeIsHeard                                                  *)

\* A command that starts on its own while others run makes them slip.
LEMMA SlipsFacts == ASSUME Slips, ~slipped' PROVE ~slipped /\ Running = {} /\ Coding = {}
<1>1. slipped' = slipped \/ slipped' = (slipped \/ Running # {} \/ Coding # {})
  BY DEF Slips
<1>2. QED  BY Zenon DEF Slips

\* Tasks that go on, or end, stay alone.
LEMMA AloneKept ==
  ASSUME Alone, \A s \in Sessions : pc'[s] \notin {"idle", "done"} => pc[s] \notin {"idle", "done"},
         \A q \in Codes : codePc'[q] \notin {"idle", "done"} => codePc[q] \notin {"idle", "done"}
  PROVE  Alone'
<1>1. Running' \subseteq Running /\ Coding' \subseteq Coding
  BY DEF Running, Coding
<1>2. QED  BY <1>1 DEF Alone

LEMMA TidyBlePair ==
  ASSUME TypeOK, Tidy, NEW s \in Sessions, BlePair(s), ~slipped'
  PROVE  Alone' /\ Owned'
<1>1. ~slipped /\ Running = {} /\ Coding = {} /\ Alone /\ Owned
  BY SlipsFacts DEF BlePair, Tidy
<1>2. \A t \in Sessions : pc[t] \in {"idle", "done"}
  BY <1>1 DEF Running
<1>3. \A q \in Codes : codePc[q] \in {"idle", "done"} /\ codePc' = codePc
  BY <1>1 DEF Coding, BlePair, codeVars
<1>4. pc[s] = "idle" /\ central' = central
  BY FirstIsIn DEF BlePair, device
<1>5. \A t \in Sessions \ {s} : pc'[t] = pc[t]
  BY DEF BlePair, Begin, TypeOK
<1>6. Alone'
  <2>1. Running' \subseteq {s} /\ Coding' = {}
    BY <1>2, <1>3, <1>5 DEF Running, Coding
  <2>2. QED  BY <2>1 DEF Alone
<1>7. CASE pairing # NoOne /\ client[pairing]
  <2>1. /\ pc' = [pc EXCEPT ![s] = "cancel"] /\ old' = [old EXCEPT ![s] = pairing]
        /\ UNCHANGED <<pairing, client, shown>>
    BY <1>7 DEF BlePair
  <2>2. QED  BY <1>1, <1>2, <1>3, <1>4, <1>5, <1>6, <1>7, <2>1 DEF Owned, TypeOK
<1>8. CASE ~(pairing # NoOne /\ client[pairing])
  <2>1. Begin(s) /\ client' = [client EXCEPT ![s] = TRUE] /\ UNCHANGED old
    BY <1>8 DEF BlePair
  <2>2. central \notin Sessions
    BY <1>1, <1>8, PairingAssumption DEF Owned
  <2>3. QED  BY <1>1, <1>2, <1>3, <1>4, <1>5, <1>6, <2>1, <2>2 DEF Owned, TypeOK, Begin
<1>9. QED  BY <1>7, <1>8

LEMMA TidyCode ==
  ASSUME TypeOK, Tidy, NEW q \in Codes, CodeAct(q), ~slipped'
  PROVE  Alone' /\ Owned'
<1> USE PairingAssumption
<1>1. CASE Written(q)
  <2>1. Alone /\ Owned /\ \A s \in Sessions : pc[s] \in {"idle", "done"}
    BY <1>1 DEF Written, Tidy, Alone, Coding, Running
  <2>2. \A r \in Codes \ {q} : codePc[r] \in {"idle", "done"} /\ codePc'[r] = codePc[r]
    BY <1>1, <2>1 DEF Written, CodeFailed, Alone, Coding, TypeOK
  <2>3. Alone'
    BY <1>1, <2>1, <2>2, AloneKept DEF Written
  <2>4. CASE central = on[q] /\ codePc' = [codePc EXCEPT ![q] = "wait"] /\ UNCHANGED <<on, pairing, shown>>
    BY <1>1, <2>1, <2>2, <2>3, <2>4 DEF Written, Owned, AuthWrite, MintToken, device, TypeOK
  <2>5. CASE central # on[q] /\ CodeFailed(q) /\ UNCHANGED device
    BY <1>1, <2>1, <2>2, <2>3, <2>5 DEF Written, Owned, CodeFailed, device, TypeOK
  <2>6. QED  BY <1>1, <2>4, <2>5 DEF Written
<1>2. CASE Submitted(q)
  <2>1. Alone /\ Owned /\ \A s \in Sessions : pc[s] \in {"idle", "done"}
    BY <1>2 DEF Submitted, Tidy, Alone, Coding, Running
  <2>2. \A r \in Codes \ {q} : codePc[r] \in {"idle", "done"} /\ codePc'[r] = codePc[r]
    BY <1>2, <2>1 DEF Submitted, Alone, Coding, TypeOK
  <2>3. Alone'
    BY <1>2, <2>1, <2>2, AloneKept DEF Submitted
  <2>4. central' \notin Sessions
    BY <1>2, <2>1 DEF Submitted, Owned, HangUp, Dropped, device, NoOne
  <2>5. QED  BY <1>2, <2>1, <2>2, <2>3, <2>4 DEF Submitted, Owned, TypeOK
<1>3. ASSUME NEW right \in BOOLEAN, BlePairCode(q, right) PROVE Alone' /\ Owned'
  <2>1. ~slipped /\ Running = {} /\ Coding = {} /\ Alone /\ Owned
    BY <1>3, SlipsFacts DEF BlePairCode, Tidy
  <2>2. \A s \in Sessions : pc[s] \in {"idle", "done"} /\ pc' = pc
    BY <1>3, <2>1 DEF Running, BlePairCode
  <2>3. \A r \in Codes \ {q} : codePc[r] \in {"idle", "done"} /\ codePc'[r] = codePc[r]
    BY <1>3, <2>1 DEF BlePairCode, CodeFailed, Coding, TypeOK
  <2>4. Alone'
    <3>1. Coding' \subseteq {q} /\ Running' = {}
      BY <2>2, <2>3 DEF Running, Coding
    <3>2. QED  BY <3>1 DEF Alone
  <2>5. CASE pairing # NoOne /\ client[pairing]
    BY <1>3, <2>1, <2>2, <2>3, <2>4, <2>5 DEF BlePairCode, Owned, device, TypeOK
  <2>6. CASE ~(pairing # NoOne /\ client[pairing])
    BY <1>3, <2>1, <2>2, <2>3, <2>4, <2>6 DEF BlePairCode, CodeFailed, Owned, device, TypeOK
  <2>7. QED  BY <2>5, <2>6
<1>4. ~WriteFails(q)
  BY DEF WriteFails
<1>5. QED  BY <1>1, <1>2, <1>3, <1>4 DEF CodeAct, CodeStep

LEMMA TidyPairStep ==
  ASSUME TypeOK, Tidy, NEW s \in Sessions, PairStep(s), ~slipped'
  PROVE  Alone' /\ Owned'
<1> USE PairingAssumption
<1>0. ~slipped /\ Alone /\ Owned
  BY DEF PairStep, Cancelled, Connected, Breaks, Presents, PairedSilently, AwaitsCode, Tidy
<1>1. s \in Running
  BY DEF PairStep, Cancelled, Connected, Breaks, Presents, PairedSilently, AwaitsCode, Running
<1>2. /\ \A t \in Sessions \ {s} : pc[t] \in {"idle", "done"} /\ pc'[t] = pc[t]
      /\ \A q \in Codes : codePc[q] \in {"idle", "done"} /\ codePc'[q] = codePc[q]
  <2>1. \A t \in Sessions \ {s} : pc[t] \in {"idle", "done"}
    BY <1>0, <1>1 DEF Alone, Running
  <2>2. \A q \in Codes : codePc[q] \in {"idle", "done"}
    BY <1>0, <1>1 DEF Alone, Coding
  <2>3. codePc' = codePc
    BY DEF PairStep, Cancelled, Connected, Breaks, Presents, PairedSilently, AwaitsCode, codeVars
  <2>4. \A t \in Sessions \ {s} : pc'[t] = pc[t]
    BY DEF PairStep, Cancelled, Begin, Connected, Breaks, Failed, Presents, PairedSilently,
       AwaitsCode, TypeOK
  <2>5. QED  BY <2>1, <2>2, <2>3, <2>4
<1>3. Alone'
  BY <1>0, <1>1, <1>2, AloneKept DEF Running
<1> HIDE PairingAssumption
<1>4. CASE Cancelled(s)
  <2>1. pairing = old[s] /\ pairing # NoOne /\ client[pairing]
    BY <1>0, <1>4 DEF Cancelled, Owned
  <2>2. central' \notin Sessions
    BY <1>0, <1>4, <2>1, PairingAssumption DEF Cancelled, Owned, HangUp, Dropped, device
  <2>3. QED  BY <1>2, <1>3, <1>4, <2>2 DEF Cancelled, Begin, Owned, TypeOK
<1>5. CASE Connected(s)
  <2>1. central = NoOne /\ central' = s /\ pairing = s /\ client[s]
    BY <1>0, <1>5 DEF Connected, Accept, Owned
  <2>2. QED  BY <1>0, <1>2, <1>3, <1>5, <2>1 DEF Connected, Owned, TypeOK
<1>6. CASE Breaks(s)
  <2>1. pairing = s /\ client[s]
    BY <1>0, <1>6 DEF Breaks, Owned
  <2>2. central \notin Sessions
    BY <1>0, <1>6, <2>1 DEF Breaks, Owned
  <2>3. QED  BY <1>2, <1>3, <1>6, <2>2 DEF Breaks, Failed, Owned, device, TypeOK
<1>7. CASE Presents(s)
  <2>1. central' = central /\ pairing = s /\ client[s]
    BY <1>0, <1>7 DEF Presents, AuthToken, device, Owned
  <2>2. QED  BY <1>0, <1>2, <1>3, <1>7, <2>1 DEF Presents, Owned, TypeOK
<1>8. CASE PairedSilently(s)
  <2>1. central' \notin Sessions
    BY <1>0, <1>8, PairingAssumption DEF PairedSilently, Owned, HangUp, Dropped, device
  <2>2. QED  BY <1>2, <1>3, <1>8, <2>1 DEF PairedSilently, Owned, TypeOK
<1>9. CASE AwaitsCode(s)
  <2>1. pairing = s /\ client[s] /\ pairing # NoOne
    BY <1>0, <1>9, PairingAssumption DEF AwaitsCode, Owned
  <2>2. /\ shown' = "awaiting_code" /\ pc' = [pc EXCEPT ![s] = "done"]
        /\ UNCHANGED <<pairing, client, got, old>>
    BY <1>9, <2>1 DEF AwaitsCode
  <2>3. QED  BY <1>0, <1>2, <1>3, <1>9, <2>1, <2>2 DEF AwaitsCode, Owned, device, TypeOK
<1>10. QED  BY <1>4, <1>5, <1>6, <1>7, <1>8, <1>9 DEF PairStep

\* BleLink, poll(), the radio and other hosts leave the sessions alone, and
\* give none of them the connection.
LEMMA TidyElse ==
  ASSUME TypeOK, Tidy, LinkStep \/ LinkFails \/ PollStep \/ Rest \/ UNCHANGED vars
  PROVE  Tidy'
<1>1. UNCHANGED <<pairing, client, pc, old, shown, codePc, on, slipped>>
  BY DEF LinkStep, LinkConnects, LinkAuth, HelloAck, LinkUp, LinkGivesUp, LinkLost, LinkFails, PollStep,
     PollTakes, PollSends, Rest, Untrust, OtherConnects, OtherPairs, OtherLeaves, Lost, Reset,
     apart, sessions, codeVars, vars
<1>2. central' = central \/ central' \in {NoOne, Link, Other}
  BY DEF LinkStep, LinkConnects, LinkAuth, HelloAck, LinkUp, LinkGivesUp, LinkLost, LinkFails, PollStep,
     PollTakes, PollSends, Rest, Untrust, OtherConnects, OtherPairs, OtherLeaves, Lost, Reset,
     Accept, AuthToken, AuthWrite, MintToken, HangUp, Dropped, device, vars
<1>3. Alone => Alone'
  BY <1>1 DEF Alone, Running, Coding
<1>4. Owned => Owned'
  BY <1>1, <1>2, PairingAssumption DEF Owned
<1>5. QED  BY <1>1, <1>3, <1>4 DEF Tidy

LEMMA TidyKept == ASSUME TypeOK, Tidy, [Next]_vars PROVE Tidy'
<1>1. ASSUME NEW s \in Sessions, FailsMidway(s) PROVE slipped'
  BY <1>1 DEF FailsMidway
<1>2. QED
  BY <1>1, Steps, TidyBlePair, TidyPairStep, TidyCode, TidyElse DEF Tidy, PairAct

-----------------------------------------------------------------------------
(* The theorems                                                            *)

Inv == TypeOK /\ HeldRecent /\ Acked /\ Tidy

LEMMA InitInv == Init => Inv
<1> SUFFICES ASSUME Init PROVE Inv
  OBVIOUS
<1>1. HeldRecent
  BY PairingAssumption DEF Init, HeldRecent, NoToken, Tokens
<1>2. Acked
  BY DEF Init, Acked, NoOne, Link
<1>3. Tidy
  BY PairingAssumption DEF Init, Tidy, Alone, Owned, Running, Coding
<1>4. QED  BY <1>1, <1>2, <1>3, InitType DEF Inv

LEMMA Inductive == ASSUME Inv, [Next]_vars PROVE Inv'
<1> USE DEF Inv
<1>1. TypeOK' /\ Numbers'
  BY TypeKept DEF TypeOK, Numbers
<1>2. HeldRecent'
  <2>1. CASE UNCHANGED vars
    BY <2>1, QuietHeld DEF vars, device, sessions
  <2>2. QED
    BY <1>1, <2>1, Steps, PairHeld, CodeHeld, LinkHeld, PollHeld, RestHeld
<1>3. QED  BY <1>1, <1>2, AckedKept, TidyKept

LEMMA Invariant == Spec => []Inv
<1>1. Inv /\ [Next]_vars => Inv'
  BY Inductive
<1>2. QED  BY InitInv, <1>1, PTL DEF Spec

\* A session that has the device's connection can be closed by the next
\* command, unless commands overlapped or a GATT call of one failed midway.
THEOREM LeavesNoLeak == Spec => []NoLeak
<1>1. Inv => NoLeak
  BY DEF Inv, Tidy, Owned, NoLeak
<1>2. QED  BY Invariant, <1>1, PTL

\* While the pane asks for the code there is a session to take it.
THEOREM HearsCode == Spec => []CodeIsHeard
<1>1. Inv => CodeIsHeard
  BY DEF Inv, Tidy, Owned, CodeIsHeard
<1>2. QED  BY Invariant, <1>1, PTL

\* With any number of slots, and with resets in the middle of a mint, the
\* device keeps a remembered token until as many newer ones have been minted.
THEOREM KeepsTrust == Spec => []TrustKnown
<1>1. Inv => TrustKnown
  <2> SUFFICES ASSUME Inv, trust \in Tokens PROVE Known(trust) \/ minted >= trust + TrustSlots
    BY DEF TrustKnown
  <2>1. trust # NoToken
    BY PairingAssumption DEF Tokens, NoToken
  <2>2. Recent(trust)
    BY DEF Inv, HeldRecent
  <2>3. QED  BY <2>1, <2>2 DEF Recent, Known
<1>2. QED  BY Invariant, <1>1, PTL

\* A connection that BleLink reports, while it is open, is one the device has
\* authorised.
THEOREM LiveIsAuthorized == Spec => []LiveMeansAuthorized
<1>1. Inv => LiveMeansAuthorized
  BY DEF Inv, Acked, LiveMeansAuthorized
<1>2. QED  BY Invariant, <1>1, PTL

=============================================================================
