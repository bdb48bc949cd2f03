------------------------ MODULE ProtocolSessionProofs ------------------------
(***************************************************************************)
(* What the session promises, for every client program, every user table    *)
(* and every number of login attempts: it implements SessionPhases, no      *)
(* answer ends the worker, the keys of the two sides stay agreed, who is    *)
(* told so is authenticated, an echo is the echo of one's own request, and  *)
(* answers come in the order of the requests.                               *)
(*                                                                          *)
(* Inductive invariants carry them: KeyInv and KeyFirst say how a session   *)
(* begins, UpFrame and DownFrame of every frame under way what its sender   *)
(* meant by it, and a frame is read as its sender meant it because of what  *)
(* the lemmas on Messages say about serialising and parsing.                *)
(*                                                                          *)
(* The last part is about the message classes themselves, for any sequence  *)
(* of operations on two objects (MessageObjects): nothing is retained, the  *)
(* classes are maps from fields to values, and the computed sizes are exact.*)
(***************************************************************************)
EXTENDS ProtocolSession, MessageObjects, SequenceTheorems, WellFoundedInduction,
        FiniteSetTheorems, TLAPS

\* The part of the session's state that the phases are read from.
phaseVars == <<state, isKexComplete, remainingAttempts, presented, authenticator, userTable>>

PhaseInv ==
    /\ state \in {"connected", "authentication", "user", "null", "terminated"}
    /\ isKexComplete \in BOOLEAN
    /\ remainingAttempts \in 0..Attempts
    /\ state = "connected" => remainingAttempts = Attempts

-----------------------------------------------------------------------------
(* What a step does to that part. *)

KexAgreed ==
    /\ state = "connected" /\ ~isKexComplete /\ isKexComplete' = TRUE
    /\ UNCHANGED <<state, remainingAttempts, presented, authenticator, userTable>>

LoginAsked ==
    /\ state = "connected" /\ isKexComplete
    /\ state' = "authentication" /\ remainingAttempts' = Attempts
    /\ UNCHANGED <<isKexComplete, presented, authenticator, userTable>>

LoginTried ==
    /\ state = "authentication" /\ presented \subseteq presented'
    /\ UNCHANGED <<isKexComplete, authenticator, userTable>>
    /\ \/ UNCHANGED <<state, remainingAttempts>>
       \/ /\ \E c \in presented' : authenticate(Users, c)
          /\ state' \in {"user", "null"} /\ UNCHANGED remainingAttempts
       \/ /\ remainingAttempts > 0 /\ remainingAttempts' = remainingAttempts - 1
          /\ UNCHANGED state
       \/ /\ remainingAttempts = 0 /\ state' = "null" /\ UNCHANGED remainingAttempts

Served ==
    /\ state = "user" /\ state' \in {"user", "terminated"}
    /\ UNCHANGED <<isKexComplete, remainingAttempts, presented, authenticator, userTable>>

UsersChanged == UNCHANGED <<state, isKexComplete, remainingAttempts, presented, authenticator>>

PhaseStep ==
    \/ KexAgreed \/ LoginAsked \/ LoginTried \/ Served \/ UsersChanged

LEMMA ConnectedStep ==
    ASSUME NEW f, connectedFrame(f), UNCHANGED authVars
    PROVE  KexAgreed \/ LoginAsked \/ UNCHANGED phaseVars
<1>1. state = "connected" /\ UNCHANGED <<presented, authenticator, userTable>>
  BY DEF connectedFrame, authVars
<1>2. ASSUME UNCHANGED handlerVars PROVE UNCHANGED phaseVars
  BY <1>1, <1>2 DEF handlerVars, phaseVars
<1>3. ASSUME NEW m, handleKex(f, m) PROVE KexAgreed \/ UNCHANGED handlerVars
  BY <1>1, <1>3, Zenon DEF handleKex, KexAgreed
<1>4. ASSUME handleAuthRequest(f) PROVE LoginAsked \/ UNCHANGED handlerVars
  BY <1>1, <1>4, Zenon DEF handleAuthRequest, LoginAsked
<1>5. \/ \E m : handleKex(f, m)
      \/ handleAuthRequest(f)
      \/ UNCHANGED handlerVars
  BY Zenon DEF connectedFrame, handlerVars
<1>6. QED
  BY <1>2, <1>3, <1>4, <1>5

LEMMA LoginStep ==
    ASSUME NEW f, authFrame(f), UNCHANGED authVars
    PROVE  LoginTried
<1>1. PICK r \in decode(scoder, f, "ClientAuthRequest", areq) :
        /\ presented' = IF IsSupply(r.msg) THEN presented \union {CredentialsOf(r.msg)}
                        ELSE presented
        /\ \/ IsSupply(r.msg)
              /\ doAuth(r.msg, IF r.ok THEN <<>> ELSE <<AuthResp("DECODE_ERROR")>>, f.tag)
           \/ otherAuthRequest(IF r.ok THEN <<>> ELSE <<AuthResp("DECODE_ERROR")>>, f.tag)
  BY Zenon DEF authFrame
<1>2. /\ state = "authentication"
      /\ UNCHANGED <<isKexComplete, authenticator, userTable>>
      /\ presented \subseteq presented'
  BY <1>1 DEF authFrame, authVars
<1>3. ASSUME NEW before, otherAuthRequest(before, f.tag)
      PROVE  LoginTried
  BY <1>2, <1>3 DEF otherAuthRequest, LoginTried
<1>4. ASSUME NEW before, IsSupply(r.msg), doAuth(r.msg, before, f.tag)
      PROVE  LoginTried
  <2>1. CredentialsOf(r.msg) \in presented'
    BY <1>1, <1>4
  <2>2. FinalState \in {"user", "null"}
    BY DEF FinalState
  <2>3. \/ /\ authenticate(Users, CredentialsOf(r.msg))
           /\ state' = FinalState /\ UNCHANGED remainingAttempts
        \/ /\ remainingAttempts > 0 /\ remainingAttempts' = remainingAttempts - 1
           /\ UNCHANGED state
        \/ /\ remainingAttempts = 0 /\ state' = "null" /\ UNCHANGED remainingAttempts
    BY <1>4, Zenon DEF doAuth
  <2>4. QED
    BY <1>2, <2>1, <2>2, <2>3, Zenon DEF LoginTried
<1>5. QED
  BY <1>1, <1>3, <1>4, Zenon

LEMMA ServiceStep ==
    ASSUME NEW f, userFrame(f), UNCHANGED authVars
    PROVE  Served
<1>1. state = "user" /\ state' \in {state, "terminated"}
  BY Zenon DEF userFrame
<1>2. UNCHANGED <<isKexComplete, remainingAttempts, presented, authenticator, userTable>>
  BY DEF userFrame, authVars
<1>3. QED
  BY <1>1, <1>2 DEF Served

LEMMA StepOfPhases ==
    ASSUME [PSNext]_vars
    PROVE  PhaseStep
<1>1. ASSUME handleFrame PROVE PhaseStep
  <2>1. UNCHANGED authVars
    BY <1>1 DEF handleFrame
  <2>2. connectedFrame(Head(up)) \/ authFrame(Head(up)) \/ userFrame(Head(up))
    BY <1>1 DEF handleFrame
  <2>3. UNCHANGED phaseVars => UsersChanged
    BY DEF phaseVars, UsersChanged
  <2>4. QED
    BY <2>1, <2>2, <2>3, ConnectedStep, LoginStep, ServiceStep DEF PhaseStep
<1>2. ASSUME NEW table, changeUsers(table) PROVE UsersChanged
  BY <1>2 DEF changeUsers, serverVars, handlerVars, UsersChanged
<1>3. ASSUME addUser \/ delUser PROVE PhaseStep
  BY <1>2, <1>3, Zenon DEF addUser, delUser, PhaseStep
<1>4. ASSUME closeClient PROVE UsersChanged
  BY <1>4 DEF closeClient, handlerVars, authVars, UsersChanged
<1>5. ASSUME UNCHANGED <<serverVars, authVars>> PROVE UsersChanged
  BY <1>5 DEF serverVars, handlerVars, authVars, UsersChanged
<1>6. ASSUME TakeAnswer \/ timeOut \/ readEof \/ readReset \/ otherFrame
      PROVE  UNCHANGED <<serverVars, authVars>>
  BY <1>6, Zenon DEF TakeAnswer, timeOut, readEof, readReset, otherFrame
<1>7. ASSUME NEW o, Call(o) PROVE UNCHANGED <<serverVars, authVars>>
  BY <1>7, Zenon DEF Call
<1>8. ASSUME ClientReads PROVE TakeAnswer \/ readEof \/ readReset
  BY <1>8, Zenon DEF ClientReads, kexAnswer, askAuthAnswer, authAnswer, requestAnswer
<1>9. ASSUME ClientCalls PROVE \E o : Call(o)
  BY <1>9, Zenon DEF ClientCalls, connect, connectRefused, authenticateAs, fetchRequest
<1>10. ASSUME UNCHANGED vars PROVE UNCHANGED <<serverVars, authVars>>
  BY <1>10 DEF vars
<1>11. QED
  BY <1>1, <1>3, <1>4, <1>5, <1>6, <1>7, <1>8, <1>9, <1>10, Zenon
     DEF PSNext, Server, PhaseStep

-----------------------------------------------------------------------------
(* The invariant. *)

LEMMA PhaseInvStep ==
    ASSUME PhaseInv, PhaseStep
    PROVE  PhaseInv'
<1> USE SessionAssumption DEF PhaseInv
<1>1. CASE KexAgreed
  BY <1>1 DEF KexAgreed
<1>2. CASE LoginAsked
  BY <1>2 DEF LoginAsked
<1>3. CASE LoginTried
  BY <1>3 DEF LoginTried
<1>4. CASE Served
  BY <1>4 DEF Served
<1>5. CASE UsersChanged
  BY <1>5 DEF UsersChanged
<1>6. QED
  BY <1>1, <1>2, <1>3, <1>4, <1>5 DEF PhaseStep

LEMMA PhaseInvHolds == PSSpec => []PhaseInv
<1>1. ASSUME PSInit PROVE PhaseInv
  <2>1. Attempts \in 0..Attempts
    BY SessionAssumption
  <2>2. isKexComplete \in BOOLEAN
    BY <1>1, Zenon DEF PSInit
  <2>3. state = "connected" /\ remainingAttempts = Attempts
    BY <1>1, Zenon DEF PSInit
  <2>4. QED
    BY <2>1, <2>2, <2>3 DEF PhaseInv
<1>2. PhaseInv /\ [PSNext]_vars => PhaseInv'
  BY StepOfPhases, PhaseInvStep
<1>3. QED
  BY <1>1, <1>2, PTL DEF PSSpec

-----------------------------------------------------------------------------
(* The refinement. *)

\* The phase a session is in.
phase == CASE state = "connected" -> IF isKexComplete THEN "keyed" ELSE "hello"
           [] state = "authentication" -> "login"
           [] state = "user" -> "service"
           [] state = "null" -> "over"
           [] OTHER -> state
refusals == Attempts - remainingAttempts

LEMMA AcceptedIsEntitled ==
    ASSUME NEW c, authenticate(Users, c)
    PROVE  Entitled(Users, c)
  BY DEF authenticate, Entitled, verify

LEMMA PhaseRefined ==
    ASSUME PhaseInv, WorkerSurvives', PhaseStep
    PROVE  [Phases!SPNext]_<<phase, refusals, presented, Users>>
<1> USE SessionAssumption
<1>1. CASE KexAgreed
  <2>1. phase = "hello" /\ phase' = "keyed"
    BY <1>1 DEF KexAgreed, phase
  <2>2. UNCHANGED <<refusals, presented, Users>>
    BY <1>1 DEF KexAgreed, refusals, Users
  <2>3. QED
    BY <2>1, <2>2 DEF Phases!SPNext, Phases!Agree, Phases!Go, phase, refusals
<1>2. CASE LoginAsked
  <2>1. phase = "keyed" /\ phase' = "login"
    BY <1>2 DEF LoginAsked, phase
  <2>2. UNCHANGED <<refusals, presented, Users>>
    BY <1>2 DEF LoginAsked, PhaseInv, refusals, Users
  <2>3. QED
    BY <2>1, <2>2 DEF Phases!SPNext, Phases!AskToLogin, Phases!Go, phase, refusals
<1>3. CASE LoginTried
  <2>1. Phases!Hear
    BY <1>3 DEF LoginTried, Phases!Hear, Users
  <2>2. CASE UNCHANGED <<state, remainingAttempts>>
    BY <1>3, <2>1, <2>2 DEF LoginTried, Phases!SPNext, Phases!Ignore
  <2>3. CASE /\ \E c \in presented' : authenticate(Users, c)
             /\ state' \in {"user", "null"} /\ UNCHANGED remainingAttempts
    <3>1. \E c \in presented' : Entitled(Users, c)
      BY <2>3, AcceptedIsEntitled
    <3>2. Phases!Accept
      BY <2>1, <2>3, <3>1 DEF Phases!Accept
    <3>3. QED
      BY <3>2 DEF Phases!SPNext
  <2>4. CASE /\ remainingAttempts > 0 /\ remainingAttempts' = remainingAttempts - 1
             /\ UNCHANGED state
    BY <1>3, <2>1, <2>4 DEF LoginTried, PhaseInv, Phases!SPNext, Phases!Refuse
  <2>5. CASE /\ remainingAttempts = 0 /\ state' = "null" /\ UNCHANGED remainingAttempts
    BY <2>1, <2>5 DEF Phases!SPNext, Phases!Reject
  <2>6. QED
    BY <1>3, <2>2, <2>3, <2>4, <2>5 DEF LoginTried
<1>4. CASE Served
  BY <1>4 DEF Served, WorkerSurvives, phase, refusals, Users
<1>5. CASE UsersChanged
  BY <1>5 DEF UsersChanged, Phases!SPNext, Phases!ChangeUsers
<1>6. QED
  BY <1>1, <1>2, <1>3, <1>4, <1>5 DEF PhaseStep

\* As long as no answer fails to be encoded, which would end the worker, every step
\* maps to a step of SessionPhases or to a stutter.
LEMMA PhasesWhileServing == PSSpec /\ []WorkerSurvives => PhasesRespected
<1>1. PSInit => Phases!SPInit
  BY SessionAssumption DEF PSInit, Phases!SPInit
<1>2. PhaseInv /\ WorkerSurvives' /\ [PSNext]_vars
      => [Phases!SPNext]_<<phase, refusals, presented, Users>>
  BY StepOfPhases, PhaseRefined
<1>3. QED
  BY <1>1, <1>2, PhaseInvHolds, PTL DEF PSSpec, PhasesRespected, Phases!SPSpec, phase, refusals

-----------------------------------------------------------------------------
(* Induction, and what the folds of Messages compute. *)

\* A set that holds 0 and the successors of its members holds every number.
LEMMA NatBySets ==
    ASSUME NEW T \in SUBSET Nat, 0 \in T, \A n \in T : n + 1 \in T
    PROVE  T = Nat
<1> SUFFICES ASSUME T # Nat PROVE FALSE
  OBVIOUS
<1> DEFINE R == OpToRel(<, Nat)
           U == Nat \ T
<1>1. IsWellFoundedOn(R, Nat)
  BY NatLessThanWellFounded
<1>2. \A n, m \in Nat : m < n => <<m, n>> \in R
  BY DEF OpToRel
<1> HIDE DEF R
<1>3. PICK n \in U : \A m \in U : ~(<<m, n>> \in R)
  <2>1. U # {} /\ U \subseteq Nat
    OBVIOUS
  <2> HIDE DEF U
  <2> QED
    BY <1>1, <2>1, WFMin
<1>4. n \in Nat /\ n # 0 /\ n - 1 \in Nat
  OBVIOUS
<1>5. n - 1 \in T
  <2>1. n - 1 < n
    BY <1>4
  <2>2. <<n - 1, n>> \in R
    BY <1>2, <1>4, <2>1
  <2>3. n - 1 \notin U
    BY <1>3, <2>2
  <2> QED
    BY <1>4, <2>3
<1> QED
  BY <1>3, <1>4, <1>5

LEMMA MaxOfNumbers ==
    ASSUME NEW n \in Nat, NEW s \in SUBSET (1..n), s # {}
    PROVE  Max(s) \in s /\ \A y \in s : Max(s) >= y
<1> DEFINE HasMax(t) == \E x \in t : \A y \in t : x >= y
           T == {k \in Nat : \A t \in SUBSET (1..k) : t = {} \/ HasMax(t)}
<1>1. 0 \in T
  OBVIOUS
<1>2. ASSUME NEW k \in T PROVE k + 1 \in T
  <2>1. SUFFICES ASSUME NEW t \in SUBSET (1..k + 1), t # {} PROVE HasMax(t)
    OBVIOUS
  <2>2. CASE k + 1 \in t
    <3>1. \A y \in t : k + 1 >= y
      OBVIOUS
    <3> QED
      BY <2>2, <3>1
  <2>3. CASE k + 1 \notin t
    <3>1. t \in SUBSET (1..k)
      BY <2>3
    <3> QED
      BY <2>1, <3>1
  <2> QED
    BY <2>2, <2>3
<1>3. T = Nat
  <2>1. T \in SUBSET Nat
    OBVIOUS
  <2> HIDE DEF T
  <2> QED
    BY <1>1, <1>2, <2>1, NatBySets
<1>4. HasMax(s)
  BY <1>3
<1> QED
  BY <1>4 DEF Max

LEMMA MaxIsLast ==
    ASSUME NEW n \in Nat, NEW s \in SUBSET (1..n + 1), n + 1 \in s
    PROVE  Max(s) = n + 1
<1>1. n + 1 \in Nat /\ s # {}
  OBVIOUS
<1>2. Max(s) \in s /\ \A y \in s : Max(s) >= y
  BY <1>1, MaxOfNumbers
<1> DEFINE m == Max(s)
<1>3. m \in s /\ m >= n + 1
  BY <1>2
<1> HIDE DEF m
<1>4. m = n + 1
  BY <1>3
<1> QED
  BY <1>4 DEF m

\* The largest of the first k numbers, and what is left without it.
LEMMA FirstNumbers ==
    ASSUME NEW n \in Nat, NEW k \in 1..n
    PROVE  /\ Max(1..k) = k /\ (1..k) \ {k} = 1..(k - 1)
           /\ 1..k \in SUBSET (1..n) /\ 1..k # {}
<1>1. k - 1 \in Nat /\ 1..k \in SUBSET (1..(k - 1) + 1) /\ (k - 1) + 1 \in 1..k
  OBVIOUS
<1>2. Max(1..k) = (k - 1) + 1
  BY <1>1, MaxIsLast
<1>3. (k - 1) + 1 = k
  OBVIOUS
<1>4. 1..k \in SUBSET (1..n) /\ k \in 1..k
  OBVIOUS
<1>5. (1..k) \ {k} = 1..(k - 1)
  OBVIOUS
<1> QED
  BY <1>2, <1>3, <1>4, <1>5

LEMMA SizeChain ==
    ASSUME NEW wire, NEW n \in Nat, DOMAIN wire = 1..n
    PROVE  \E r : /\ r[0] = 0
                  /\ \A k \in 1..n : r[k] = r[k - 1] + FieldSize(wire[k])
                  /\ WireSize(wire) = r[n]
<1> DEFINE Table(g, k) ==
             g = [s \in SUBSET (1..k) |->
                    IF s = {} THEN 0 ELSE g[s \ {Max(s)}] + FieldSize(wire[Max(s)])]
           T == {k \in Nat : \E g : Table(g, k)}
<1>1. 0 \in T
  <2> DEFINE g == [s \in SUBSET (1..0) |-> 0]
  <2>1. \A s \in SUBSET (1..0) : s = {}
    OBVIOUS
  <2>2. Table(g, 0)
    BY <2>1
  <2> QED
    BY <2>2
<1>2. ASSUME NEW k \in T PROVE k + 1 \in T
  <2>1. PICK g : Table(g, k)
    OBVIOUS
  <2> DEFINE h == [s \in SUBSET (1..k + 1) |->
                     IF k + 1 \in s THEN g[s \ {k + 1}] + FieldSize(wire[k + 1]) ELSE g[s]]
  <2>2. ASSUME NEW s \in SUBSET (1..k + 1)
        PROVE  h[s] = IF s = {} THEN 0 ELSE h[s \ {Max(s)}] + FieldSize(wire[Max(s)])
    <3>1. CASE k + 1 \in s
      <4>1. Max(s) = k + 1
        <5>1. k \in Nat
          OBVIOUS
        <5> HIDE DEF T, h
        <5> QED
          BY <3>1, <5>1, MaxIsLast
      <4>2. s \ {k + 1} \in SUBSET (1..k + 1) /\ k + 1 \notin s \ {k + 1}
        OBVIOUS
      <4>3. h[s \ {k + 1}] = g[s \ {k + 1}]
        BY <4>2
      <4>4. h[s] = g[s \ {k + 1}] + FieldSize(wire[k + 1])
        BY <3>1
      <4> HIDE DEF h
      <4> QED
        BY <3>1, <4>1, <4>3, <4>4
    <3>2. CASE k + 1 \notin s
      <4>1. s \in SUBSET (1..k)
        BY <3>2
      <4>2. g[s] = IF s = {} THEN 0 ELSE g[s \ {Max(s)}] + FieldSize(wire[Max(s)])
        BY <2>1, <4>1
      <4>3. h[s] = g[s]
        BY <3>2
      <4>4. h[s \ {Max(s)}] = g[s \ {Max(s)}]
        BY <3>2
      <4> HIDE DEF h
      <4> QED
        BY <4>2, <4>3, <4>4
    <3> QED
      BY <3>1, <3>2
  <2>3. Table(h, k + 1)
    <3> DEFINE b == [s \in SUBSET (1..k + 1) |->
                       IF s = {} THEN 0 ELSE h[s \ {Max(s)}] + FieldSize(wire[Max(s)])]
    <3> SUFFICES h = b
      OBVIOUS
    <3>1. \A s \in SUBSET (1..k + 1) : h[s] = b[s]
      BY <2>2
    <3>2. h = [s \in SUBSET (1..k + 1) |-> h[s]] /\ b = [s \in SUBSET (1..k + 1) |-> b[s]]
      OBVIOUS
    <3> HIDE DEF h, b
    <3> QED
      BY <3>1, <3>2
  <2>4. \E f : Table(f, k + 1)
    <3> HIDE DEF h, Table
    <3> QED
      BY <2>3
  <2>5. k + 1 \in Nat
    OBVIOUS
  <2> HIDE DEF Table
  <2> QED
    BY <2>4, <2>5
<1>3. T = Nat
  <2>1. T \in SUBSET Nat
    OBVIOUS
  <2> HIDE DEF T
  <2> QED
    BY <1>1, <1>2, <2>1, NatBySets
<1> DEFINE g == CHOOSE g : Table(g, n)
<1>4. Table(g, n)
  <2>1. \E f : Table(f, n)
    BY <1>3
  <2> HIDE DEF Table
  <2> QED
    BY <2>1
<1>5. WireSize(wire) = g[1..n]
  BY DEF WireSize, FoldLeft, MapThenFoldSet
<1> HIDE DEF g
<1> DEFINE r == [k \in 0..n |-> g[1..k]]
<1>6. r[0] = 0
  <2>1. 1..0 = {}
    OBVIOUS
  <2> QED
    BY <1>4, <2>1
<1>7. ASSUME NEW k \in 1..n PROVE r[k] = r[k - 1] + FieldSize(wire[k])
  <2>1. Max(1..k) = k /\ (1..k) \ {k} = 1..(k - 1)
    BY FirstNumbers
  <2>2. 1..k \in SUBSET (1..n) /\ 1..k # {}
    BY FirstNumbers
  <2>3. g[1..k] = g[(1..k) \ {Max(1..k)}] + FieldSize(wire[Max(1..k)])
    BY <1>4, <2>2
  <2>4. r[k] = g[1..k] /\ r[k - 1] = g[1..(k - 1)]
    OBVIOUS
  <2> HIDE DEF r, Table
  <2> QED
    BY <2>1, <2>3, <2>4
<1>8. WireSize(wire) = r[n]
  BY <1>5
<1> HIDE DEF r, Table
<1> QED
  BY <1>6, <1>7, <1>8

\* One step of ParseFromArray.
ParseStep(C, r, w) == IF r.ok THEN ParseFieldWith(C, r.msg, w, ParseKex) ELSE r

Parsed(C, m, wire) == ParseWith(C, m, wire, ParseKex)

LEMMA ParseChain ==
    ASSUME NEW C, NEW m, NEW wire, NEW n \in Nat, DOMAIN wire = 1..n
    PROVE  \E r : /\ r[0] = [ok |-> TRUE, msg |-> m]
                  /\ \A k \in 1..n : r[k] = ParseStep(C, r[k - 1], wire[k])
                  /\ Parsed(C, m, wire) = r[n]
<1> DEFINE Table(g, k) ==
             g = [s \in SUBSET (1..k) |->
                    IF s = {} THEN [ok |-> TRUE, msg |-> m]
                    ELSE ParseStep(C, g[s \ {Max(s)}], wire[Max(s)])]
           T == {k \in Nat : \E g : Table(g, k)}
<1>1. 0 \in T
  <2> DEFINE g == [s \in SUBSET (1..0) |-> [ok |-> TRUE, msg |-> m]]
  <2>1. \A s \in SUBSET (1..0) : s = {}
    OBVIOUS
  <2>2. Table(g, 0)
    BY <2>1
  <2> QED
    BY <2>2
<1>2. ASSUME NEW k \in T PROVE k + 1 \in T
  <2>1. PICK g : Table(g, k)
    OBVIOUS
  <2> DEFINE h == [s \in SUBSET (1..k + 1) |->
                     IF k + 1 \in s THEN ParseStep(C, g[s \ {k + 1}], wire[k + 1]) ELSE g[s]]
  <2>2. ASSUME NEW s \in SUBSET (1..k + 1)
        PROVE  h[s] = IF s = {} THEN [ok |-> TRUE, msg |-> m]
                      ELSE ParseStep(C, h[s \ {Max(s)}], wire[Max(s)])
    <3>1. CASE k + 1 \in s
      <4>1. Max(s) = k + 1
        <5>1. k \in Nat
          OBVIOUS
        <5> HIDE DEF T, h
        <5> QED
          BY <3>1, <5>1, MaxIsLast
      <4>2. s \ {k + 1} \in SUBSET (1..k + 1) /\ k + 1 \notin s \ {k + 1}
        OBVIOUS
      <4>3. h[s \ {k + 1}] = g[s \ {k + 1}]
        BY <4>2
      <4>4. h[s] = ParseStep(C, g[s \ {k + 1}], wire[k + 1])
        BY <3>1
      <4> HIDE DEF h
      <4> QED
        BY <3>1, <4>1, <4>3, <4>4
    <3>2. CASE k + 1 \notin s
      <4>1. s \in SUBSET (1..k)
        BY <3>2
      <4>2. g[s] = IF s = {} THEN [ok |-> TRUE, msg |-> m]
                   ELSE ParseStep(C, g[s \ {Max(s)}], wire[Max(s)])
        BY <2>1, <4>1
      <4>3. h[s] = g[s]
        BY <3>2
      <4>4. h[s \ {Max(s)}] = g[s \ {Max(s)}]
        BY <3>2
      <4> HIDE DEF h
      <4> QED
        BY <4>2, <4>3, <4>4
    <3> QED
      BY <3>1, <3>2
  <2>3. Table(h, k + 1)
    <3> DEFINE b == [s \in SUBSET (1..k + 1) |->
                       IF s = {} THEN [ok |-> TRUE, msg |-> m]
                       ELSE ParseStep(C, h[s \ {Max(s)}], wire[Max(s)])]
    <3> SUFFICES h = b
      OBVIOUS
    <3>1. \A s \in SUBSET (1..k + 1) : h[s] = b[s]
      BY <2>2
    <3>2. h = [s \in SUBSET (1..k + 1) |-> h[s]] /\ b = [s \in SUBSET (1..k + 1) |-> b[s]]
      OBVIOUS
    <3> HIDE DEF h, b
    <3> QED
      BY <3>1, <3>2
  <2>4. \E f : Table(f, k + 1)
    <3> HIDE DEF h, Table
    <3> QED
      BY <2>3
  <2>5. k + 1 \in Nat
    OBVIOUS
  <2> HIDE DEF Table
  <2> QED
    BY <2>4, <2>5
<1>3. T = Nat
  <2>1. T \in SUBSET Nat
    OBVIOUS
  <2> HIDE DEF T
  <2> QED
    BY <1>1, <1>2, <2>1, NatBySets
<1> DEFINE g == CHOOSE g : Table(g, n)
<1>4. Table(g, n)
  <2>1. \E f : Table(f, n)
    BY <1>3
  <2> HIDE DEF Table
  <2> QED
    BY <2>1
<1>5. Parsed(C, m, wire) = g[1..n]
  BY DEF Parsed, ParseWith, ParseStep, FoldLeft, MapThenFoldSet
<1> HIDE DEF g
<1> DEFINE r == [k \in 0..n |-> g[1..k]]
<1>6. r[0] = [ok |-> TRUE, msg |-> m]
  <2>1. 1..0 = {}
    OBVIOUS
  <2> QED
    BY <1>4, <2>1
<1>7. ASSUME NEW k \in 1..n PROVE r[k] = ParseStep(C, r[k - 1], wire[k])
  <2>1. Max(1..k) = k /\ (1..k) \ {k} = 1..(k - 1)
    BY FirstNumbers
  <2>2. 1..k \in SUBSET (1..n) /\ 1..k # {}
    BY FirstNumbers
  <2>3. g[1..k] = ParseStep(C, g[(1..k) \ {Max(1..k)}], wire[Max(1..k)])
    BY <1>4, <2>2
  <2>4. r[k] = g[1..k] /\ r[k - 1] = g[1..(k - 1)]
    OBVIOUS
  <2> HIDE DEF r, Table
  <2> QED
    BY <2>1, <2>3, <2>4
<1>8. Parsed(C, m, wire) = r[n]
  BY <1>5
<1> HIDE DEF r, Table
<1> QED
  BY <1>6, <1>7, <1>8

\* What the i-th row of _Serialize writes.
Piece(C, m, i) == WrittenWith(C, m, Class[C].serialize[i], SerializeKex)

LEMMA SerializeChain ==
    ASSUME NEW C, NEW m, NEW n \in Nat, DOMAIN Class[C].serialize = 1..n
    PROVE  \E r : /\ r[0] = <<>>
                  /\ \A k \in 1..n : r[k] = r[k - 1] \o Piece(C, m, k)
                  /\ Serialize(C, m) = r[n] \o m.unknown
<1> DEFINE Table(g, k) ==
             g = [s \in SUBSET (1..k) |->
                    IF s = {} THEN <<>> ELSE g[s \ {Max(s)}] \o Piece(C, m, Max(s))]
           T == {k \in Nat : \E g : Table(g, k)}
<1>1. 0 \in T
  <2> DEFINE g == [s \in SUBSET (1..0) |-> <<>>]
  <2>1. \A s \in SUBSET (1..0) : s = {}
    OBVIOUS
  <2>2. Table(g, 0)
    BY <2>1
  <2> QED
    BY <2>2
<1>2. ASSUME NEW k \in T PROVE k + 1 \in T
  <2>1. PICK g : Table(g, k)
    OBVIOUS
  <2> DEFINE h == [s \in SUBSET (1..k + 1) |->
                     IF k + 1 \in s THEN g[s \ {k + 1}] \o Piece(C, m, k + 1) ELSE g[s]]
  <2>2. ASSUME NEW s \in SUBSET (1..k + 1)
        PROVE  h[s] = IF s = {} THEN <<>> ELSE h[s \ {Max(s)}] \o Piece(C, m, Max(s))
    <3>1. CASE k + 1 \in s
      <4>1. Max(s) = k + 1
        <5>1. k \in Nat
          OBVIOUS
        <5> HIDE DEF T, h
        <5> QED
          BY <3>1, <5>1, MaxIsLast
      <4>2. s \ {k + 1} \in SUBSET (1..k + 1) /\ k + 1 \notin s \ {k + 1}
        OBVIOUS
      <4>3. h[s \ {k + 1}] = g[s \ {k + 1}]
        BY <4>2
      <4>4. h[s] = g[s \ {k + 1}] \o Piece(C, m, k + 1)
        BY <3>1
      <4> HIDE DEF h
      <4> QED
        BY <3>1, <4>1, <4>3, <4>4
    <3>2. CASE k + 1 \notin s
      <4>1. s \in SUBSET (1..k)
        BY <3>2
      <4>2. g[s] = IF s = {} THEN <<>> ELSE g[s \ {Max(s)}] \o Piece(C, m, Max(s))
        BY <2>1, <4>1
      <4>3. h[s] = g[s]
        BY <3>2
      <4>4. h[s \ {Max(s)}] = g[s \ {Max(s)}]
        BY <3>2
      <4> HIDE DEF h
      <4> QED
        BY <4>2, <4>3, <4>4
    <3> QED
      BY <3>1, <3>2
  <2>3. Table(h, k + 1)
    <3> DEFINE b == [s \in SUBSET (1..k + 1) |->
                       IF s = {} THEN <<>> ELSE h[s \ {Max(s)}] \o Piece(C, m, Max(s))]
    <3> SUFFICES h = b
      OBVIOUS
    <3>1. \A s \in SUBSET (1..k + 1) : h[s] = b[s]
      BY <2>2
    <3>2. h = [s \in SUBSET (1..k + 1) |-> h[s]] /\ b = [s \in SUBSET (1..k + 1) |-> b[s]]
      OBVIOUS
    <3> HIDE DEF h, b
    <3> QED
      BY <3>1, <3>2
  <2>4. \E f : Table(f, k + 1)
    <3> HIDE DEF h, Table
    <3> QED
      BY <2>3
  <2>5. k + 1 \in Nat
    OBVIOUS
  <2> HIDE DEF Table
  <2> QED
    BY <2>4, <2>5
<1>3. T = Nat
  <2>1. T \in SUBSET Nat
    OBVIOUS
  <2> HIDE DEF T
  <2> QED
    BY <1>1, <1>2, <2>1, NatBySets
<1> DEFINE g == CHOOSE g : Table(g, n)
<1>4. Table(g, n)
  <2>1. \E f : Table(f, n)
    BY <1>3
  <2> HIDE DEF Table
  <2> QED
    BY <2>1
<1>5. Serialize(C, m) = g[1..n] \o m.unknown
  BY DEF Serialize, SerializeWith, Piece, FoldLeft, MapThenFoldSet
<1> HIDE DEF g
<1> DEFINE r == [k \in 0..n |-> g[1..k]]
<1>6. r[0] = <<>>
  <2>1. 1..0 = {}
    OBVIOUS
  <2> QED
    BY <1>4, <2>1
<1>7. ASSUME NEW k \in 1..n PROVE r[k] = r[k - 1] \o Piece(C, m, k)
  <2>1. Max(1..k) = k /\ (1..k) \ {k} = 1..(k - 1)
    BY FirstNumbers
  <2>2. 1..k \in SUBSET (1..n) /\ 1..k # {}
    BY FirstNumbers
  <2>3. g[1..k] = g[(1..k) \ {Max(1..k)}] \o Piece(C, m, Max(1..k))
    BY <1>4, <2>2
  <2>4. r[k] = g[1..k] /\ r[k - 1] = g[1..(k - 1)]
    OBVIOUS
  <2> HIDE DEF r, Table
  <2> QED
    BY <2>1, <2>3, <2>4
<1>8. Serialize(C, m) = r[n] \o m.unknown
  <2>1. r[n] = g[1..n]
    OBVIOUS
  <2> QED
    BY <1>5, <2>1, Zenon
<1> HIDE DEF r, Table
<1> QED
  BY <1>6, <1>7, <1>8

\* In a KexMsg there are no members that are messages.
LEMMA KexIsFlat ==
    ASSUME NEW m, NEW i \in DOMAIN Class["KexMsg"].serialize
    PROVE  WrittenWith("KexMsg", m, Class["KexMsg"].serialize[i], LAMBDA s : EmptyBytes)
             = Piece("KexMsg", m, i)
  BY DEF WrittenWith, Piece, Class, KexMsg_class, Of, KexMsg_Serialize, F

LEMMA KexSerialized ==
    ASSUME NEW m PROVE SerializeKex(m) = Embedded(Serialize("KexMsg", m))
<1> DEFINE S == SUBSET (1..2)
           rows == Class["KexMsg"].serialize
           W(i) == WrittenWith("KexMsg", m, rows[i], LAMBDA s : EmptyBytes)
           A(g) == [s \in S |-> IF s = {} THEN <<>> ELSE g[s \ {Max(s)}] \o W(Max(s))]
           B(g) == [s \in S |->
                      IF s = {} THEN <<>> ELSE g[s \ {Max(s)}] \o Piece("KexMsg", m, Max(s))]
<1>1. DOMAIN rows = 1..2
  BY DEF Class, KexMsg_class, Of, KexMsg_Serialize
<1>2. ASSUME NEW s \in S, s # {} PROVE W(Max(s)) = Piece("KexMsg", m, Max(s))
  <2>1. Max(s) \in 1..2
    BY <1>2, MaxOfNumbers
  <2> QED
    BY <1>1, <2>1, KexIsFlat
<1>3. ASSUME NEW g PROVE A(g) = B(g)
  <2> HIDE DEF W
  <2> QED
    BY <1>2
<1>4. (CHOOSE g : g = A(g)) = (CHOOSE g : g = B(g))
  <2> HIDE DEF A, B
  <2> QED
    BY <1>3
<1>5. SerializeWith("KexMsg", m, LAMBDA s : EmptyBytes)
        = (CHOOSE g : g = A(g))[1..2] \o m.unknown
  BY <1>1 DEF SerializeWith, FoldLeft, MapThenFoldSet
<1>6. Serialize("KexMsg", m) = (CHOOSE g : g = B(g))[1..2] \o m.unknown
  BY <1>1 DEF Serialize, SerializeWith, FoldLeft, MapThenFoldSet, Piece
<1> HIDE DEF A, B
<1> QED
  BY <1>4, <1>5, <1>6 DEF SerializeKex

-----------------------------------------------------------------------------
(* Objects and parses. *)

\* Every object has the members of its class.
IsObject(C, m) ==
    DOMAIN m = {"bits", "val", "unknown"} /\ DOMAIN m.val = Members(C)

IsParse(C, r) == DOMAIN r = {"ok", "msg"} /\ IsObject(C, r.msg)

LEMMA ObjectsAre ==
    ASSUME NEW C, NEW m
    PROVE  IsObject(C, New(C)) /\ IsObject(C, Clear(C, m))
  BY DEF IsObject, New, Clear, ClearWith

LEMMA ParseStepIs ==
    ASSUME NEW C, NEW r, NEW w, IsParse(C, r)
    PROVE  IsParse(C, ParseStep(C, r, w))
<1>1. ASSUME NEW row, NEW ok, NEW v
      PROVE  IsParse(C, [ok |-> ok, msg |-> [r.msg EXCEPT !.val[row.f] = v,
                                                          !.bits = @ \union Bit(row.bit)]])
  BY DEF IsParse, IsObject
<1>2. IsParse(C, [ok |-> TRUE, msg |-> [r.msg EXCEPT !.unknown = Append(@, w)]])
  BY DEF IsParse, IsObject
<1> QED
  BY <1>1, <1>2, Zenon DEF ParseStep, ParseFieldWith

\* What a parse starts from.
LEMMA ClearedObjects ==
    /\ Clear("UserRequest", New("UserRequest")).val["msg"] = EmptyBytes
    /\ Clear("ServerResponse", New("ServerResponse")).val["msg"] = EmptyBytes
    /\ \A m : Clear("ServerConnectedStateResponse", m).bits = {}
    /\ \A m : Clear("ServerAuthResponse", m).val["status"] = 0
<1>1. /\ Clear("UserRequest", New("UserRequest")).val["msg"] = EmptyBytes
      /\ Clear("ServerResponse", New("ServerResponse")).val["msg"] = EmptyBytes
  BY DEF Clear, ClearWith, Class, UserRequest_class, ServerResponse_class, Of, UserRequest,
         ServerResponse, UserRequest_Clear, ServerResponse_Clear, Members, TypeOf, Default, None
<1>2. \A m : Clear("ServerConnectedStateResponse", m).bits = {}
  BY DEF Clear, ClearWith
<1>3. \A m : Clear("ServerAuthResponse", m).val["status"] = 0
  BY DEF Clear, ClearWith, Class, ServerAuthResponse_class, Of, ServerAuthResponse,
         ServerAuthResponse_Clear, Members, TypeOf, Default, None
<1> QED
  BY <1>1, <1>2, <1>3

\* A field that the class does not know is kept aside.
LEMMA UnknownParsed ==
    ASSUME NEW C, NEW r, NEW w, IsParse(C, r), r.ok, Row(C, w) = {}
    PROVE  /\ ParseStep(C, r, w).ok
           /\ ParseStep(C, r, w).msg.val = r.msg.val
           /\ ParseStep(C, r, w).msg.bits = r.msg.bits
           /\ ParseStep(C, r, w).msg.unknown = Append(r.msg.unknown, w)
<1>1. ParseStep(C, r, w) = [ok |-> TRUE, msg |-> [r.msg EXCEPT !.unknown = Append(@, w)]]
  BY DEF ParseStep, ParseFieldWith
<1> QED
  BY <1>1 DEF IsParse, IsObject

\* The sub-message that a field of message type is parsed into.
Inner(m, f, w) == ParseKex(IF m.val[f] = Null THEN New("KexMsg") ELSE m.val[f][1], w.bytes)

\* What s is when r goes on with w, a field of this type, for the member f.
FieldRead(C, r, w, f, type, bit, s) ==
    /\ type = "int" => s.ok /\ s.msg.val[f] = w.n
    /\ type = "string" => s.ok = w.bytes.utf8 /\ s.msg.val[f] = w.bytes
    /\ type = "bytes" => s.ok /\ s.msg.val[f] = w.bytes
    /\ type = "message" => /\ s.ok = Inner(r.msg, f, w).ok
                           /\ s.msg.val[f] = <<Inner(r.msg, f, w).msg>>
    /\ \A g \in Members(C) \ {f} : s.msg.val[g] = r.msg.val[g]
    /\ s.msg.bits = r.msg.bits \union Bit(bit) /\ s.msg.unknown = r.msg.unknown

LEMMA FieldParsed ==
    ASSUME NEW C, NEW r, NEW w, IsParse(C, r), r.ok,
           NEW num, NEW f \in Members(C), NEW type, NEW bit, Row(C, w) = {F(num, f, type, bit)}
    PROVE  FieldRead(C, r, w, f, type, bit, ParseStep(C, r, w))
<1> DEFINE row == F(num, f, type, bit)
           ok == CASE type = "string" -> w.bytes.utf8
                   [] type = "message" -> Inner(r.msg, f, w).ok
                   [] OTHER -> TRUE
           v == CASE type = "int" -> w.n
                  [] type \in {"string", "bytes"} -> w.bytes
                  [] type = "message" -> <<Inner(r.msg, f, w).msg>>
           x == [r.msg EXCEPT !.val[f] = v, !.bits = @ \union Bit(bit)]
<1>1. row.f = f /\ row.type = type /\ row.bit = bit
  BY DEF F
<1> HIDE DEF row
<1>2. Row(C, w) # {} /\ (CHOOSE y \in Row(C, w) : TRUE) = row
  BY DEF row
<1>3. ParseStep(C, r, w) = [ok |-> ok, msg |-> x]
  BY <1>1, <1>2 DEF ParseStep, ParseFieldWith, Inner
<1>4. DOMAIN r.msg = {"bits", "val", "unknown"} /\ DOMAIN r.msg.val = Members(C)
  BY DEF IsParse, IsObject
<1> HIDE DEF ok, v
<1>5. /\ x.val = [r.msg.val EXCEPT ![f] = v] /\ x.bits = r.msg.bits \union Bit(bit)
      /\ x.unknown = r.msg.unknown
  BY <1>4
<1>6. x.val[f] = v /\ \A g \in Members(C) \ {f} : x.val[g] = r.msg.val[g]
  BY <1>4, <1>5
<1> HIDE DEF x
<1>7. ParseStep(C, r, w).ok = ok /\ ParseStep(C, r, w).msg = x
  BY <1>3
<1>8. /\ type = "int" => ok /\ v = w.n
      /\ type = "string" => ok = w.bytes.utf8 /\ v = w.bytes
      /\ type = "bytes" => ok /\ v = w.bytes
      /\ type = "message" => ok = Inner(r.msg, f, w).ok /\ v = <<Inner(r.msg, f, w).msg>>
  BY DEF ok, v
<1> QED
  BY <1>5, <1>6, <1>7, <1>8 DEF FieldRead

-----------------------------------------------------------------------------
(* Requests and replies of users: one member, msg. *)

UserClasses == {"UserRequest", "ServerResponse"}

LEMMA UserTable ==
    ASSUME NEW C \in UserClasses
    PROVE  /\ Class[C].table = {F(1, "msg", "string", None)}
           /\ Class[C].serialize = <<F(1, "msg", "string", None)>>
           /\ Members(C) = {"msg"} /\ TypeOf(C, "msg") = "string" /\ BitOf(C, "msg") = None
           /\ New(C).val["msg"] = EmptyBytes /\ New(C).unknown = <<>>
           /\ Clear(C, New(C)).val["msg"] = EmptyBytes
<1>1. CASE C = "UserRequest"
  <2>1. /\ Class[C].table = UserRequest_table /\ Class[C].serialize = UserRequest_Serialize
        /\ Class[C].members = UserRequest /\ Class[C].accessors = UserRequest_accessors
    BY <1>1 DEF Class, UserRequest_class, Of
  <2>2. Members(C) = {"msg"} /\ TypeOf(C, "msg") = "string" /\ BitOf(C, "msg") = None
    BY <2>1 DEF Members, UserRequest, TypeOf, BitOf, UserRequest_accessors
  <2>3. New(C).val["msg"] = EmptyBytes /\ New(C).unknown = <<>>
    BY <2>2 DEF New, Default
  <2> QED
    BY <1>1, <2>1, <2>2, <2>3, ClearedObjects DEF UserRequest_table, UserRequest_Serialize
<1>2. CASE C = "ServerResponse"
  <2>1. /\ Class[C].table = ServerResponse_table /\ Class[C].serialize = ServerResponse_Serialize
        /\ Class[C].members = ServerResponse /\ Class[C].accessors = ServerResponse_accessors
    BY <1>2 DEF Class, ServerResponse_class, Of
  <2>2. Members(C) = {"msg"} /\ TypeOf(C, "msg") = "string" /\ BitOf(C, "msg") = None
    BY <2>1 DEF Members, ServerResponse, TypeOf, BitOf, ServerResponse_accessors
  <2>3. New(C).val["msg"] = EmptyBytes /\ New(C).unknown = <<>>
    BY <2>2 DEF New, Default
  <2> QED
    BY <1>2, <2>1, <2>2, <2>3, ClearedObjects DEF ServerResponse_table, ServerResponse_Serialize
<1> QED
  BY <1>1, <1>2 DEF UserClasses

LEMMA UserStep ==
    ASSUME NEW C \in UserClasses, NEW r, NEW w, IsParse(C, r), r.ok
    PROVE  IF w.num = 1 /\ w.wt = "len"
           THEN /\ ParseStep(C, r, w).ok = w.bytes.utf8
                /\ ParseStep(C, r, w).msg.val["msg"] = w.bytes
           ELSE /\ ParseStep(C, r, w).ok
                /\ ParseStep(C, r, w).msg.val["msg"] = r.msg.val["msg"]
<1> DEFINE row == F(1, "msg", "string", None)
<1>1. Class[C].table = {row} /\ "msg" \in Members(C)
  BY UserTable
<1>2. row.num = 1 /\ WireType(row.type) = "len"
  BY DEF F, WireType
<1> HIDE DEF row
<1>3. CASE w.num = 1 /\ w.wt = "len"
  <2>1. Row(C, w) = {row}
    BY <1>1, <1>2, <1>3 DEF Row
  <2> QED
    <3>1. /\ ParseStep(C, r, w).ok = w.bytes.utf8
          /\ ParseStep(C, r, w).msg.val["msg"] = w.bytes
      BY <1>1, <2>1, FieldParsed DEF row, FieldRead
    <3> QED
      BY <1>3, <3>1, Zenon
<1>4. CASE ~(w.num = 1 /\ w.wt = "len")
  <2>1. Row(C, w) = {}
    BY <1>1, <1>2, <1>4 DEF Row
  <2> QED
    BY <1>4, <2>1, UnknownParsed
<1> QED
  BY <1>3, <1>4

-----------------------------------------------------------------------------
(* Sizes, and whole parses. *)

LEMMA FieldSizes ==
    ASSUME NEW w, w.bytes.len \in Nat
    PROVE  /\ FieldSize(w) \in Nat
           /\ w.wt = "len" => w.bytes.len + 2 <= FieldSize(w) /\ FieldSize(w) <= w.bytes.len + 4
  BY DEF FieldSize, VarintSize

LEMMA SizesAdd ==
    ASSUME NEW wire, IsWire(wire)
    PROVE  WireSize(wire) \in Nat /\ \A i \in DOMAIN wire : FieldSize(wire[i]) <= WireSize(wire)
<1> DEFINE n == Len(wire)
<1>1. n \in Nat /\ DOMAIN wire = 1..n
  BY DEF IsWire
<1>2. \A i \in 1..n : FieldSize(wire[i]) \in Nat
  BY <1>1, FieldSizes DEF IsWire, IsBytes
<1> HIDE DEF n
<1>3. PICK r : /\ r[0] = 0
               /\ \A k \in 1..n : r[k] = r[k - 1] + FieldSize(wire[k])
               /\ WireSize(wire) = r[n]
  BY <1>1, SizeChain
<1> DEFINE T == {k \in Nat : k <= n =>
                   r[k] \in Nat /\ \A i \in 1..k : FieldSize(wire[i]) <= r[k]}
<1>4. 0 \in T
  BY <1>3
<1>5. ASSUME NEW k \in T PROVE k + 1 \in T
  <2>1. SUFFICES ASSUME k + 1 <= n
        PROVE  r[k + 1] \in Nat /\ \A i \in 1..k + 1 : FieldSize(wire[i]) <= r[k + 1]
    OBVIOUS
  <2>2. k \in Nat /\ r[k] \in Nat /\ \A i \in 1..k : FieldSize(wire[i]) <= r[k]
    BY <2>1, <1>1
  <2>3. k + 1 \in 1..n /\ (k + 1) - 1 = k
    BY <2>1, <2>2, <1>1
  <2>4. r[k + 1] = r[k] + FieldSize(wire[k + 1]) /\ FieldSize(wire[k + 1]) \in Nat
    BY <1>2, <1>3, <2>3
  <2>5. \A i \in 1..k + 1 : i \in 1..k \/ i = k + 1
    BY <2>2
  <2>6. \A i \in 1..k : FieldSize(wire[i]) \in Nat
    <3>1. \A i \in 1..k : i \in 1..n
      BY <1>1, <2>1, <2>2
    <3> QED
      BY <1>2, <3>1
  <2> HIDE DEF T
  <2> QED
    BY <2>2, <2>4, <2>5, <2>6
<1>6. T = Nat
  <2>1. T \in SUBSET Nat
    OBVIOUS
  <2> HIDE DEF T
  <2> QED
    BY <1>4, <1>5, <2>1, NatBySets
<1> QED
  BY <1>1, <1>3, <1>6

LEMMA SmallSizes ==
    WireSize(<<>>) = 0 /\ \A w : w.bytes.len \in Nat => WireSize(<<w>>) = FieldSize(w)
<1>1. WireSize(<<>>) = 0
  <2>1. PICK r : r[0] = 0 /\ WireSize(<<>>) = r[0]
    BY SizeChain
  <2> QED
    BY <2>1
<1>2. ASSUME NEW w, w.bytes.len \in Nat PROVE WireSize(<<w>>) = FieldSize(w)
  <2> DEFINE wire == <<w>>
  <2>1. DOMAIN wire = 1..1 /\ wire[1] = w
    OBVIOUS
  <2> HIDE DEF wire
  <2>2. PICK r : /\ r[0] = 0
                 /\ \A k \in 1..1 : r[k] = r[k - 1] + FieldSize(wire[k])
                 /\ WireSize(wire) = r[1]
    BY <2>1, SizeChain
  <2>3. r[1] = 0 + FieldSize(w)
    BY <2>1, <2>2
  <2>4. FieldSize(w) \in Nat
    BY <1>2, FieldSizes
  <2>5. WireSize(wire) = FieldSize(w)
    BY <2>2, <2>3, <2>4
  <2> QED
    BY <2>5 DEF wire
<1> QED
  BY <1>1, <1>2

\* The steps of a parse.
ParseRun(C, m, wire, n, r) ==
    /\ r[0] = [ok |-> TRUE, msg |-> m]
    /\ \A k \in 1..n : r[k] = ParseStep(C, r[k - 1], wire[k])
    /\ Parsed(C, m, wire) = r[n]

LEMMA ParseRuns ==
    ASSUME NEW C, NEW m, NEW wire, NEW n \in Nat, DOMAIN wire = 1..n
    PROVE  \E r : ParseRun(C, m, wire, n, r)
<1>1. \E r : /\ r[0] = [ok |-> TRUE, msg |-> m]
             /\ \A k \in 1..n : r[k] = ParseStep(C, r[k - 1], wire[k])
             /\ Parsed(C, m, wire) = r[n]
  BY ParseChain
<1> QED
  BY <1>1, Zenon DEF ParseRun

\* The objects a parse goes through, one for each field.
Parses(C, m, wire, r) ==
    /\ r[0] = [ok |-> TRUE, msg |-> Clear(C, m)]
    /\ \A k \in DOMAIN wire : r[k] = ParseStep(C, r[k - 1], wire[k])
    /\ \A k \in 0..Len(wire) : IsParse(C, r[k])
    /\ ParseFromArray(C, m, wire).msg = r[Len(wire)].msg
    /\ ParseFromArray(C, m, wire).ok => r[Len(wire)].ok
    /\ r[Len(wire)].ok => ParseFromArray(C, m, wire).ok

\* The classes of the frames: none has required fields.
SessionClasses == ClassNames \ {"Test"}

LEMMA ParseIs ==
    ASSUME NEW C \in SessionClasses, NEW m, NEW wire, wire \in Seq(Range(wire))
    PROVE  \E r : Parses(C, m, wire, r)
<1> DEFINE n == Len(wire)
<1>1. n \in Nat /\ DOMAIN wire = 1..n
  OBVIOUS
<1> HIDE DEF n
<1>2. PICK r : /\ r[0] = [ok |-> TRUE, msg |-> Clear(C, m)]
               /\ \A k \in 1..n : r[k] = ParseStep(C, r[k - 1], wire[k])
               /\ Parsed(C, Clear(C, m), wire) = r[n]
  <2>1. \E r : ParseRun(C, Clear(C, m), wire, n, r)
    BY <1>1, ParseRuns
  <2> QED
    BY <2>1, Zenon DEF ParseRun
<1> DEFINE T == {k \in Nat : k <= n => IsParse(C, r[k])}
<1>3. 0 \in T
  <2>1. IsParse(C, r[0])
    BY <1>2, ObjectsAre DEF IsParse
  <2> QED
    BY <2>1
<1>4. ASSUME NEW k \in T PROVE k + 1 \in T
  <2>1. SUFFICES ASSUME k + 1 <= n PROVE IsParse(C, r[k + 1])
    OBVIOUS
  <2>2. k \in Nat /\ IsParse(C, r[k])
    BY <2>1, <1>1
  <2>3. k + 1 \in 1..n /\ (k + 1) - 1 = k
    BY <2>1, <2>2, <1>1
  <2> QED
    BY <1>2, <2>2, <2>3, ParseStepIs
<1>5. T = Nat
  <2>1. T \in SUBSET Nat
    OBVIOUS
  <2> HIDE DEF T
  <2> QED
    BY <1>3, <1>4, <2>1, NatBySets
<1>6. \A k \in 0..n : IsParse(C, r[k])
  BY <1>5
<1>7. ParseFromArray(C, m, wire) =
        [r[n] EXCEPT !.ok = @ /\ ~MissingRequiredFields(C, r[n].msg.bits)]
  BY <1>2 DEF ParseFromArray, Parsed
<1>8. DOMAIN r[n] = {"ok", "msg"}
  BY <1>1, <1>6 DEF IsParse
<1>9. ~MissingRequiredFields(C, r[n].msg.bits)
  BY DEF MissingRequiredFields, SessionClasses
<1>10. ParseFromArray(C, m, wire).msg = r[n].msg
  BY <1>7, <1>8
<1>11. ParseFromArray(C, m, wire).ok = (r[n].ok /\ ~MissingRequiredFields(C, r[n].msg.bits))
  BY <1>7, <1>8
<1> QED
  BY <1>1, <1>2, <1>6, <1>9, <1>10, <1>11, Zenon DEF Parses, n

\* What a user message may be found to hold: nothing, or a byte string of the wire.
LEMMA UserParsed ==
    ASSUME NEW C \in UserClasses, NEW wire, wire \in Seq(Range(wire))
    PROVE  LET b == ParseFromArray(C, New(C), wire).msg.val["msg"]
           IN  b = EmptyBytes \/ \E i \in DOMAIN wire : wire[i].wt = "len" /\ b = wire[i].bytes
<1>1. C \in SessionClasses
  BY DEF UserClasses, SessionClasses, ClassNames, Class
<1>2. PICK r : Parses(C, New(C), wire, r)
  BY <1>1, ParseIs
<1> DEFINE n == Len(wire)
           Holds(b) == b = EmptyBytes \/ \E i \in 1..n : wire[i].wt = "len" /\ b = wire[i].bytes
           T == {k \in Nat : k <= n => Holds(r[k].msg.val["msg"])}
<1>3. n \in Nat /\ DOMAIN wire = 1..n
  OBVIOUS
<1> HIDE DEF n
<1>4. 0 \in T
  <2>1. r[0].msg.val["msg"] = EmptyBytes
    BY <1>2, UserTable DEF Parses
  <2> QED
    BY <2>1
<1>5. ASSUME NEW k \in T PROVE k + 1 \in T
  <2>1. SUFFICES ASSUME k + 1 <= n PROVE Holds(r[k + 1].msg.val["msg"])
    OBVIOUS
  <2>2. k \in Nat /\ Holds(r[k].msg.val["msg"])
    BY <2>1, <1>3
  <2>3. k + 1 \in 1..n /\ (k + 1) - 1 = k /\ k \in 0..n
    BY <2>1, <2>2, <1>3
  <2>4. r[k + 1] = ParseStep(C, r[k], wire[k + 1]) /\ IsParse(C, r[k])
    BY <1>2, <1>3, <2>3 DEF Parses, n
  <2>5. CASE ~r[k].ok
    BY <2>2, <2>4, <2>5 DEF ParseStep
  <2>6. CASE r[k].ok
    <3>1. \/ r[k + 1].msg.val["msg"] = r[k].msg.val["msg"]
          \/ wire[k + 1].wt = "len" /\ r[k + 1].msg.val["msg"] = wire[k + 1].bytes
      <4>1. PICK x, w : x = r[k] /\ w = wire[k + 1]
        OBVIOUS
      <4>2. IsParse(C, x) /\ x.ok
        BY <2>4, <2>6, <4>1
      <4>3. \/ ParseStep(C, x, w).msg.val["msg"] = x.msg.val["msg"]
            \/ w.wt = "len" /\ ParseStep(C, x, w).msg.val["msg"] = w.bytes
        BY <4>2, UserStep
      <4> QED
        BY <2>4, <4>1, <4>3
    <3> QED
      BY <2>2, <2>3, <3>1
  <2> QED
    BY <2>5, <2>6
<1>6. T = Nat
  <2>1. T \in SUBSET Nat
    OBVIOUS
  <2> HIDE DEF T
  <2> QED
    BY <1>4, <1>5, <2>1, NatBySets
<1>7. Holds(r[n].msg.val["msg"])
  BY <1>3, <1>6
<1> QED
  BY <1>2, <1>3, <1>7, Zenon DEF Parses, n

-----------------------------------------------------------------------------
(* What is serialised. *)

LEMMA SerializeIn ==
    ASSUME NEW C, NEW m, NEW S, NEW n \in Nat, DOMAIN Class[C].serialize = 1..n,
           \A i \in 1..n : Piece(C, m, i) \in Seq(S), m.unknown = <<>>
    PROVE  Serialize(C, m) \in Seq(S)
<1>1. PICK r : /\ r[0] = <<>>
               /\ \A k \in 1..n : r[k] = r[k - 1] \o Piece(C, m, k)
               /\ Serialize(C, m) = r[n] \o m.unknown
  BY SerializeChain, Zenon
<1> DEFINE T == {k \in Nat : k <= n => r[k] \in Seq(S)}
<1>2. 0 \in T
  <2>1. <<>> \in Seq(S)
    OBVIOUS
  <2> QED
    BY <1>1, <2>1
<1>3. ASSUME NEW k \in T PROVE k + 1 \in T
  <2>1. SUFFICES ASSUME k + 1 <= n PROVE r[k + 1] \in Seq(S)
    OBVIOUS
  <2>2. k \in Nat /\ r[k] \in Seq(S)
    BY <2>1
  <2>3. k + 1 \in 1..n /\ (k + 1) - 1 = k
    BY <2>1, <2>2
  <2>4. r[k + 1] = r[k] \o Piece(C, m, k + 1) /\ Piece(C, m, k + 1) \in Seq(S)
    BY <1>1, <2>3
  <2> QED
    BY <2>2, <2>4
<1>4. T = Nat
  <2>1. T \in SUBSET Nat
    OBVIOUS
  <2> HIDE DEF T
  <2> QED
    BY <1>2, <1>3, <2>1, NatBySets
<1>5. r[n] \in Seq(S)
  BY <1>4
<1> QED
  BY <1>1, <1>5

LEMMA SerializeOne ==
    ASSUME NEW C, NEW m, DOMAIN Class[C].serialize = 1..1
    PROVE  Serialize(C, m) = (<<>> \o Piece(C, m, 1)) \o m.unknown
<1>1. PICK r : /\ r[0] = <<>>
               /\ \A k \in 1..1 : r[k] = r[k - 1] \o Piece(C, m, k)
               /\ Serialize(C, m) = r[1] \o m.unknown
  <2>1. PICK n \in Nat : n = 1
    OBVIOUS
  <2>2. \E r : /\ r[0] = <<>>
               /\ \A k \in 1..n : r[k] = r[k - 1] \o Piece(C, m, k)
               /\ Serialize(C, m) = r[n] \o m.unknown
    <3>1. DOMAIN Class[C].serialize = 1..n
      BY <2>1
    <3> QED
      BY <3>1, SerializeChain
  <2> QED
    BY <2>1, <2>2
<1>2. 1 \in 1..1 /\ 1 - 1 = 0
  OBVIOUS
<1>3. r[1] = <<>> \o Piece(C, m, 1)
  BY <1>1, <1>2
<1> QED
  BY <1>1, <1>3

LEMMA SerializeThree ==
    ASSUME NEW C, NEW m, DOMAIN Class[C].serialize = 1..3
    PROVE  Serialize(C, m) =
             (((<<>> \o Piece(C, m, 1)) \o Piece(C, m, 2)) \o Piece(C, m, 3)) \o m.unknown
<1>1. PICK r : /\ r[0] = <<>>
               /\ \A k \in 1..3 : r[k] = r[k - 1] \o Piece(C, m, k)
               /\ Serialize(C, m) = r[3] \o m.unknown
  <2>1. PICK n \in Nat : n = 3
    OBVIOUS
  <2>2. \E r : /\ r[0] = <<>>
               /\ \A k \in 1..n : r[k] = r[k - 1] \o Piece(C, m, k)
               /\ Serialize(C, m) = r[n] \o m.unknown
    <3>1. DOMAIN Class[C].serialize = 1..n
      BY <2>1
    <3> QED
      BY <3>1, SerializeChain
  <2> QED
    BY <2>1, <2>2
<1>2. \A k \in 1..3 : r[k] = r[k - 1] \o Piece(C, m, k)
  BY <1>1
<1>3. r[1] = <<>> \o Piece(C, m, 1)
  <2>1. 1 \in 1..3 /\ 1 - 1 = 0
    OBVIOUS
  <2> QED
    BY <1>1, <1>2, <2>1
<1>4. r[2] = r[1] \o Piece(C, m, 2)
  <2>1. 2 \in 1..3 /\ 2 - 1 = 1
    OBVIOUS
  <2> QED
    BY <1>2, <2>1
<1>5. r[3] = r[2] \o Piece(C, m, 3)
  <2>1. 3 \in 1..3 /\ 3 - 1 = 2
    OBVIOUS
  <2> QED
    BY <1>2, <2>1
<1> QED
  BY <1>1, <1>3, <1>4, <1>5, Zenon

LEMMA PieceIn ==
    ASSUME NEW C, NEW m, NEW i, NEW S, NEW f, NEW num, NEW type, NEW bit,
           Class[C].serialize[i] = F(num, f, type, bit),
           type \in {"int", "string", "bytes", "message"},
           Present(C, m, f, bit) =>
               CASE type = "int" -> Varint(num, m.val[f]) \in S
                 [] type \in {"string", "bytes"} -> Bytes(num, m.val[f]) \in S
                 [] type = "message" -> Bytes(num, SerializeKex(m.val[f][1])) \in S
    PROVE  Piece(C, m, i) \in Seq(S)
<1> DEFINE row == F(num, f, type, bit)
<1>1. row.num = num /\ row.f = f /\ row.type = type /\ row.bit = bit
  BY DEF F
<1> HIDE DEF row
<1>2. CASE ~Present(C, m, f, bit)
  <2>1. Piece(C, m, i) = <<>>
    BY <1>1, <1>2 DEF Piece, WrittenWith, row
  <2> QED
    BY <2>1
<1>3. ASSUME NEW e \in S, Piece(C, m, i) = <<e>> PROVE Piece(C, m, i) \in Seq(S)
  BY <1>3
<1>4. ASSUME Present(C, m, f, bit), type = "int" PROVE Piece(C, m, i) = <<Varint(num, m.val[f])>>
  BY <1>1, <1>4 DEF Piece, WrittenWith, row
<1>5. ASSUME Present(C, m, f, bit), type \in {"string", "bytes"}
      PROVE  Piece(C, m, i) = <<Bytes(num, m.val[f])>>
  BY <1>1, <1>5 DEF Piece, WrittenWith, row
<1>6. ASSUME Present(C, m, f, bit), type = "message"
      PROVE  Piece(C, m, i) = <<Bytes(num, SerializeKex(m.val[f][1]))>>
  BY <1>1, <1>6 DEF Piece, WrittenWith, row
<1> QED
  BY <1>2, <1>3, <1>4, <1>5, <1>6

LEMMA WireOf ==
    ASSUME NEW S, NEW wire \in Seq(S)
    PROVE  /\ wire \in Seq(Range(wire)) /\ \A i \in DOMAIN wire : wire[i] \in S
           /\ (\A e \in S : IsBytes(e.bytes)) => IsWire(wire)
<1>1. wire \in Seq(Range(wire)) /\ \A i \in DOMAIN wire : wire[i] \in S
  BY DEF Range
<1> QED
  BY <1>1 DEF IsWire

LEMMA UserWritten ==
    ASSUME NEW C \in UserClasses, NEW b
    PROVE  Serialize(C, set(C, New(C), "msg", b))
             = IF b = EmptyBytes THEN <<>> ELSE <<Bytes(1, b)>>
<1> DEFINE m == set(C, New(C), "msg", b)
           rows == Class[C].serialize
<1>1. /\ rows = <<F(1, "msg", "string", None)>> /\ Members(C) = {"msg"}
      /\ TypeOf(C, "msg") = "string" /\ New(C).unknown = <<>>
  BY UserTable
<1>2. m.val["msg"] = b /\ m.unknown = <<>>
  BY <1>1 DEF set, New
<1> HIDE DEF m
<1>3. Present(C, m, "msg", None) <=> b # EmptyBytes
  BY <1>1, <1>2 DEF Present, Default
<1>4. DOMAIN rows = 1..1 /\ rows[1] = F(1, "msg", "string", None)
  BY <1>1
<1>5. Piece(C, m, 1) = IF b = EmptyBytes THEN <<>> ELSE <<Bytes(1, b)>>
  BY <1>2, <1>3, <1>4 DEF Piece, WrittenWith, F
<1>7. Serialize(C, m) = (<<>> \o Piece(C, m, 1)) \o <<>>
  BY <1>2, <1>4, SerializeOne
<1>8. CASE b = EmptyBytes
  <2>1. Serialize(C, m) = (<<>> \o <<>>) \o <<>>
    BY <1>5, <1>7, <1>8
  <2> QED
    BY <1>8, <2>1 DEF m
<1>9. CASE b # EmptyBytes
  <2>1. \A e : (<<>> \o <<e>>) \o <<>> = <<e>>
    OBVIOUS
  <2>2. Serialize(C, m) = (<<>> \o <<Bytes(1, b)>>) \o <<>>
    BY <1>5, <1>7, <1>9
  <2>3. Serialize(C, m) = <<Bytes(1, b)>>
    BY <2>1, <2>2, Zenon
  <2> QED
    BY <1>9, <2>3 DEF m
<1> QED
  BY <1>8, <1>9

-----------------------------------------------------------------------------
(* The wires of the session. *)

LEMMA NewIs ==
    ASSUME NEW C
    PROVE  /\ New(C).unknown = <<>> /\ New(C).bits = {} /\ DOMAIN New(C).val = Members(C)
           /\ \A f \in Members(C) : New(C).val[f] = Default(TypeOf(C, f))
  BY DEF New

\* The setters: the member has the value, its has-bit is set, the rest is as it was.
LEMMA SetIs ==
    ASSUME NEW C, NEW m, IsObject(C, m), NEW f \in Members(C), NEW v
    PROVE  /\ IsObject(C, set(C, m, f, v))
           /\ set(C, m, f, v).val[f] = v
           /\ set(C, m, f, v).bits = m.bits \union Bit(BitOf(C, f))
           /\ \A g \in Members(C) \ {f} : set(C, m, f, v).val[g] = m.val[g]
           /\ set(C, m, f, v).unknown = m.unknown
<1> DEFINE x == [m EXCEPT !.val[f] = v, !.bits = @ \union Bit(BitOf(C, f))]
<1>1. DOMAIN m = {"bits", "val", "unknown"} /\ DOMAIN m.val = Members(C)
  BY DEF IsObject
<1>2. /\ x.val = [m.val EXCEPT ![f] = v] /\ x.bits = m.bits \union Bit(BitOf(C, f))
      /\ x.unknown = m.unknown /\ DOMAIN x = DOMAIN m
  BY <1>1
<1>3. set(C, m, f, v) = x
  BY DEF set
<1> HIDE DEF x
<1> QED
  BY <1>1, <1>2, <1>3 DEF IsObject

LEMMA KexTable ==
    /\ Class["KexMsg"].serialize = <<F(1, "alg", "int", None), F(2, "pkey", "bytes", None)>>
    /\ Members("KexMsg") = {"alg", "pkey"}
    /\ BitOf("KexMsg", "alg") = None /\ BitOf("KexMsg", "pkey") = None
<1>1. /\ Class["KexMsg"].serialize = KexMsg_Serialize /\ Class["KexMsg"].members = KexMsg
      /\ Class["KexMsg"].accessors = KexMsg_accessors
  BY DEF Class, KexMsg_class, Of
<1> QED
  BY <1>1 DEF Members, BitOf, KexMsg_Serialize, KexMsg, KexMsg_accessors

LEMMA RequestTable ==
    LET C == "ClientConnectedStateRequest"
    IN  /\ Class[C].serialize = <<F(1, "type", "int", None), F(2, "kex", "message", 0)>>
        /\ Class[C].table = {F(1, "type", "int", None), F(2, "kex", "message", 0)}
        /\ Members(C) = {"type", "kex"}
        /\ TypeOf(C, "type") = "int" /\ TypeOf(C, "kex") = "message"
        /\ BitOf(C, "type") = None /\ BitOf(C, "kex") = 0
<1> DEFINE c == Class["ClientConnectedStateRequest"]
<1>1. /\ c.serialize = ClientConnectedStateRequest_Serialize
      /\ c.members = ClientConnectedStateRequest
      /\ c.table = ClientConnectedStateRequest_table
      /\ c.accessors = ClientConnectedStateRequest_accessors
  BY DEF Class, ClientConnectedStateRequest_class, Of
<1> HIDE DEF c
<1>2. /\ c.serialize = <<F(1, "type", "int", None), F(2, "kex", "message", 0)>>
      /\ c.table = {F(1, "type", "int", None), F(2, "kex", "message", 0)}
  BY <1>1 DEF ClientConnectedStateRequest_Serialize, ClientConnectedStateRequest_table
<1>3. /\ DOMAIN c.members = {"type", "kex"}
      /\ c.members["type"] = "int" /\ c.members["kex"] = "message"
      /\ c.accessors["type"] = None /\ c.accessors["kex"] = 0
  BY <1>1 DEF ClientConnectedStateRequest, ClientConnectedStateRequest_accessors
<1> QED
  BY <1>2, <1>3, Zenon DEF Members, TypeOf, BitOf, c

LEMMA ResponseTable ==
    LET C == "ServerConnectedStateResponse"
    IN  /\ Class[C].serialize = <<F(1, "status", "int", None), F(2, "kex", "message", 1),
                                  F(3, "iv", "bytes", 0)>>
        /\ Class[C].table = {F(1, "status", "int", None), F(2, "kex", "message", 1),
                             F(3, "iv", "bytes", 0)}
        /\ Members(C) = {"status", "kex", "iv"}
        /\ BitOf(C, "status") = None /\ BitOf(C, "kex") = 1
        /\ TypeOf(C, "kex") = "message" /\ TypeOf(C, "status") = "int"
<1> DEFINE c == Class["ServerConnectedStateResponse"]
<1>1. /\ c.serialize = ServerConnectedStateResponse_Serialize
      /\ c.members = ServerConnectedStateResponse
      /\ c.table = ServerConnectedStateResponse_table
      /\ c.accessors = ServerConnectedStateResponse_accessors
  BY DEF Class, ServerConnectedStateResponse_class, Of
<1> HIDE DEF c
<1>2. /\ c.serialize = <<F(1, "status", "int", None), F(2, "kex", "message", 1),
                         F(3, "iv", "bytes", 0)>>
      /\ c.table = {F(1, "status", "int", None), F(2, "kex", "message", 1),
                    F(3, "iv", "bytes", 0)}
  BY <1>1 DEF ServerConnectedStateResponse_Serialize, ServerConnectedStateResponse_table
<1>3. /\ DOMAIN c.members = {"status", "kex", "iv"} /\ c.members["kex"] = "message"
      /\ c.members["status"] = "int"
      /\ c.accessors["status"] = None /\ c.accessors["kex"] = 1
  BY <1>1 DEF ServerConnectedStateResponse, ServerConnectedStateResponse_accessors
<1> QED
  BY <1>2, <1>3, Zenon DEF Members, TypeOf, BitOf, c

LEMMA LoginTable ==
    LET C == "ClientAuthRequest"
    IN  /\ Class[C].serialize = <<F(1, "request", "int", None), F(2, "username", "string", 0),
                                  F(3, "authCredential", "bytes", 1)>>
        /\ Members(C) = {"request", "username", "authCredential"}
        /\ BitOf(C, "request") = None /\ BitOf(C, "username") = 0
        /\ BitOf(C, "authCredential") = 1
<1> DEFINE c == Class["ClientAuthRequest"]
<1>1. /\ c.serialize = ClientAuthRequest_Serialize
      /\ c.members = ClientAuthRequest
      /\ c.accessors = ClientAuthRequest_accessors
  BY DEF Class, ClientAuthRequest_class, Of
<1> HIDE DEF c
<1>2. c.serialize = <<F(1, "request", "int", None), F(2, "username", "string", 0),
                      F(3, "authCredential", "bytes", 1)>>
  BY <1>1 DEF ClientAuthRequest_Serialize
<1>3. /\ DOMAIN c.members = {"request", "username", "authCredential"}
      /\ c.accessors["request"] = None /\ c.accessors["username"] = 0
      /\ c.accessors["authCredential"] = 1
  BY <1>1 DEF ClientAuthRequest, ClientAuthRequest_accessors
<1> QED
  BY <1>2, <1>3, Zenon DEF Members, BitOf, c

LEMMA VerdictTable ==
    LET C == "ServerAuthResponse"
    IN  /\ Class[C].serialize = <<F(1, "status", "int", None), F(2, "serverInfo", "string", 0)>>
        /\ Class[C].table = {F(1, "status", "int", None), F(2, "serverInfo", "string", 0)}
        /\ Members(C) = {"status", "serverInfo"} /\ BitOf(C, "status") = None
<1> DEFINE c == Class["ServerAuthResponse"]
<1>1. /\ c.serialize = ServerAuthResponse_Serialize
      /\ c.members = ServerAuthResponse
      /\ c.table = ServerAuthResponse_table
      /\ c.accessors = ServerAuthResponse_accessors
  BY DEF Class, ServerAuthResponse_class, Of
<1> HIDE DEF c
<1>2. /\ c.serialize = <<F(1, "status", "int", None), F(2, "serverInfo", "string", 0)>>
      /\ c.table = {F(1, "status", "int", None), F(2, "serverInfo", "string", 0)}
  BY <1>1 DEF ServerAuthResponse_Serialize, ServerAuthResponse_table
<1>3. /\ DOMAIN c.members = {"status", "serverInfo"} /\ c.accessors["status"] = None
  BY <1>1 DEF ServerAuthResponse, ServerAuthResponse_accessors
<1> QED
  BY <1>2, <1>3, Zenon DEF Members, BitOf, c

LEMMA StatusIn ==
    ASSUME NEW C \in {"ServerConnectedStateResponse", "ServerAuthResponse"}, NEW s
    PROVE  Serialize(C, set(C, New(C), "status", s)) \in Seq({Varint(1, s)})
<1> DEFINE m == set(C, New(C), "status", s)
           S == {Varint(1, s)}
<1>1. "status" \in Members(C) /\ BitOf(C, "status") = None
  BY ResponseTable, VerdictTable
<1>2. m.val["status"] = s /\ m.bits = {} /\ m.unknown = <<>>
  BY <1>1, NewIs, ObjectsAre, SetIs DEF Bit
<1> HIDE DEF m
<1>3. \A f : ~Present(C, m, f, 0) /\ ~Present(C, m, f, 1)
  BY <1>2 DEF Present, None
<1> HIDE DEF S
<1>4. Varint(1, m.val["status"]) \in S
  BY <1>2 DEF S
<1>5. ASSUME NEW n \in Nat, DOMAIN Class[C].serialize = 1..n,
             \A i \in 1..n : Piece(C, m, i) \in Seq(S)
      PROVE  Serialize(C, m) \in Seq(S)
  BY <1>2, <1>5, SerializeIn
<1>6. CASE C = "ServerConnectedStateResponse"
  <2>1. /\ DOMAIN Class[C].serialize = 1..3
        /\ Class[C].serialize[1] = F(1, "status", "int", None)
        /\ Class[C].serialize[2] = F(2, "kex", "message", 1)
        /\ Class[C].serialize[3] = F(3, "iv", "bytes", 0)
    BY <1>6, ResponseTable
  <2>2. Piece(C, m, 1) \in Seq(S)
    BY <1>4, <2>1, PieceIn
  <2>3. Piece(C, m, 2) \in Seq(S)
    BY <1>3, <2>1, PieceIn
  <2>4. Piece(C, m, 3) \in Seq(S)
    BY <1>3, <2>1, PieceIn
  <2>5. \A i \in 1..3 : Piece(C, m, i) \in Seq(S)
    BY <2>2, <2>3, <2>4
  <2>6. Serialize(C, m) \in Seq(S)
    BY <1>5, <2>1, <2>5
  <2> QED
    BY <2>6 DEF m, S
<1>7. CASE C = "ServerAuthResponse"
  <2>1. /\ DOMAIN Class[C].serialize = 1..2
        /\ Class[C].serialize[1] = F(1, "status", "int", None)
        /\ Class[C].serialize[2] = F(2, "serverInfo", "string", 0)
    BY <1>7, VerdictTable
  <2>2. Piece(C, m, 1) \in Seq(S)
    BY <1>4, <2>1, PieceIn
  <2>3. Piece(C, m, 2) \in Seq(S)
    BY <1>3, <2>1, PieceIn
  <2>4. \A i \in 1..2 : Piece(C, m, i) \in Seq(S)
    BY <2>2, <2>3
  <2>5. Serialize(C, m) \in Seq(S)
    BY <1>5, <2>1, <2>4
  <2> QED
    BY <2>5 DEF m, S
<1> QED
  BY <1>6, <1>7

\* A message with a status or type, and perhaps a key exchange in it.
LEMMA WithKexIn ==
    ASSUME NEW C \in {"ClientConnectedStateRequest", "ServerConnectedStateResponse"},
           NEW f, f = (IF C = "ServerConnectedStateResponse" THEN "status" ELSE "type"),
           NEW v, NEW kex
    PROVE  Serialize(C, WithKex(C, set(C, New(C), f, v), kex))
             \in Seq({Varint(1, v), Bytes(2, SerializeKex(kex))})
<1> DEFINE S == {Varint(1, v), Bytes(2, SerializeKex(kex))}
           m0 == set(C, New(C), f, v)
           m == set(C, m0, "kex", <<kex>>)
<1>1. /\ {f, "kex"} \subseteq Members(C) /\ f # "kex"
      /\ BitOf(C, f) = None /\ BitOf(C, "kex") \in {0, 1}
      /\ TypeOf(C, "kex") = "message"
  BY ResponseTable, RequestTable
<1>2. WithKex(C, m0, kex) = m
  BY <1>1 DEF WithKex, set_allocated, Null
<1>3. IsObject(C, m0) /\ m0.val[f] = v /\ m0.bits = {} /\ m0.unknown = <<>>
  BY <1>1, NewIs, ObjectsAre, SetIs DEF Bit
<1> HIDE DEF m0
<1>4. /\ m.val["kex"] = <<kex>> /\ m.bits = {BitOf(C, "kex")} /\ m.val[f] = v
      /\ m.unknown = <<>>
  <2>1. BitOf(C, "kex") # None
    BY <1>1 DEF None
  <2> QED
    BY <1>1, <1>3, <2>1, SetIs DEF Bit
<1> HIDE DEF m
<1>5. Varint(1, m.val[f]) \in S /\ Bytes(2, SerializeKex(m.val["kex"][1])) \in S
  BY <1>4
<1> HIDE DEF S
<1>6. ASSUME NEW n \in Nat, DOMAIN Class[C].serialize = 1..n,
             \A i \in 1..n : Piece(C, m, i) \in Seq(S)
      PROVE  Serialize(C, m) \in Seq(S)
  BY <1>4, <1>6, SerializeIn
<1>7. CASE C = "ServerConnectedStateResponse"
  <2>1. /\ DOMAIN Class[C].serialize = 1..3
        /\ Class[C].serialize[1] = F(1, f, "int", None)
        /\ Class[C].serialize[2] = F(2, "kex", "message", 1)
        /\ Class[C].serialize[3] = F(3, "iv", "bytes", 0)
        /\ BitOf(C, "kex") = 1
    BY <1>7, ResponseTable
  <2>2. Piece(C, m, 1) \in Seq(S)
    BY <1>5, <2>1, PieceIn
  <2>3. Piece(C, m, 2) \in Seq(S)
    BY <1>5, <2>1, PieceIn
  <2>4. Piece(C, m, 3) \in Seq(S)
    <3>1. ~Present(C, m, "iv", 0)
      BY <1>4, <2>1 DEF Present, None
    <3> QED
      BY <2>1, <3>1, PieceIn
  <2>5. \A i \in 1..3 : Piece(C, m, i) \in Seq(S)
    BY <2>2, <2>3, <2>4
  <2>6. Serialize(C, m) \in Seq(S)
    BY <1>6, <2>1, <2>5
  <2> QED
    BY <1>2, <2>6 DEF m0, S
<1>8. CASE C = "ClientConnectedStateRequest"
  <2>1. /\ DOMAIN Class[C].serialize = 1..2
        /\ Class[C].serialize[1] = F(1, f, "int", None)
        /\ Class[C].serialize[2] = F(2, "kex", "message", 0)
    BY <1>8, RequestTable
  <2>2. Piece(C, m, 1) \in Seq(S)
    BY <1>5, <2>1, PieceIn
  <2>3. Piece(C, m, 2) \in Seq(S)
    BY <1>5, <2>1, PieceIn
  <2>4. \A i \in 1..2 : Piece(C, m, i) \in Seq(S)
    BY <2>2, <2>3
  <2>5. Serialize(C, m) \in Seq(S)
    BY <1>6, <2>1, <2>4
  <2> QED
    BY <1>2, <2>5 DEF m0, S
<1> QED
  BY <1>7, <1>8

LEMMA WiresAreBytes ==
    ASSUME NEW wire, IsWire(wire)
    PROVE  IsBytes(Embedded(wire))
<1>1. IsBytes(EmptyBytes)
  BY DEF IsBytes, EmptyBytes
<1>2. WireSize(wire) \in Nat
  BY SizesAdd
<1> DEFINE b == [text |-> "message", len |-> WireSize(wire), parses |-> TRUE, sub |-> wire,
                 utf8 |-> \A i \in DOMAIN wire : wire[i].bytes.utf8]
<1>3. IsBytes(b)
  <2>1. DOMAIN b = DOMAIN EmptyBytes
    BY DEF EmptyBytes
  <2>2. b.len \in Nat
    BY <1>2
  <2>3. b.utf8 \in BOOLEAN
    OBVIOUS
  <2> HIDE DEF b
  <2> QED
    BY <2>1, <2>2, <2>3 DEF IsBytes
<1> QED
  BY <1>1, <1>3, Zenon DEF Embedded

LEMMA FieldsAreBytes ==
    /\ \A num, n : IsBytes(Varint(num, n).bytes)
    /\ \A num, b : Bytes(num, b).bytes = b /\ Bytes(num, b).num = num /\ Bytes(num, b).wt = "len"
    /\ \A num, n : /\ Varint(num, n).num = num /\ Varint(num, n).n = n
                   /\ Varint(num, n).wt = "varint"
  BY DEF Varint, Bytes, IsBytes, EmptyBytes

LEMMA KexIsBytes ==
    ASSUME NEW alg, NEW b, IsBytes(b)
    PROVE  IsBytes(SerializeKex(Kex(alg, b)))
<1> DEFINE C == "KexMsg"
           S == {Varint(1, alg), Bytes(2, b)}
           m0 == set(C, New(C), "alg", alg)
           m == set(C, m0, "pkey", b)
<1>1. {"alg", "pkey"} \subseteq Members(C)
  BY KexTable
<1>2. IsObject(C, m0) /\ m0.val["alg"] = alg /\ m0.unknown = <<>>
  BY <1>1, NewIs, ObjectsAre, SetIs
<1> HIDE DEF m0
<1>3. m.val["alg"] = alg /\ m.val["pkey"] = b /\ m.unknown = <<>>
  BY <1>1, <1>2, SetIs
<1>4. Kex(alg, b) = m
  BY DEF Kex, m0
<1> HIDE DEF m
<1>5. Varint(1, m.val["alg"]) \in S /\ Bytes(2, m.val["pkey"]) \in S
  BY <1>3
<1>6. \A e \in S : IsBytes(e.bytes)
  BY FieldsAreBytes
<1> HIDE DEF S
<1>7. /\ DOMAIN Class[C].serialize = 1..2
      /\ Class[C].serialize[1] = F(1, "alg", "int", None)
      /\ Class[C].serialize[2] = F(2, "pkey", "bytes", None)
  BY KexTable
<1> HIDE DEF C
<1>8. Piece(C, m, 1) \in Seq(S)
  BY <1>5, <1>7, PieceIn
<1>9. Piece(C, m, 2) \in Seq(S)
  BY <1>5, <1>7, PieceIn
<1>10. \A i \in 1..2 : Piece(C, m, i) \in Seq(S)
  BY <1>8, <1>9
<1>11. Serialize(C, m) \in Seq(S)
  BY <1>3, <1>7, <1>10, SerializeIn
<1>12. IsWire(Serialize(C, m))
  BY <1>6, <1>11, WireOf
<1> QED
  BY <1>4, <1>12, KexSerialized, WiresAreBytes DEF C

LoginWire(c) ==
    LET C == "ClientAuthRequest"
        named == set(C, set(C, New(C), "request", AuthRequestType.AUTH_SUPPLY),
                     "username", c.username)
    IN  Serialize(C, set(C, named, "authCredential", c.password))

LEMMA LoginWritten ==
    ASSUME NEW c
    PROVE  LoginWire(c) = <<Varint(1, 1), Bytes(2, c.username), Bytes(3, c.password)>>
<1> DEFINE C == "ClientAuthRequest"
           m0 == set(C, New(C), "request", AuthRequestType.AUTH_SUPPLY)
           m1 == set(C, m0, "username", c.username)
           m == set(C, m1, "authCredential", c.password)
<1>1. /\ {"request", "username", "authCredential"} \subseteq Members(C)
      /\ BitOf(C, "username") = 0 /\ BitOf(C, "authCredential") = 1
  BY LoginTable
<1>2. AuthRequestType.AUTH_SUPPLY = 1
  BY DEF AuthRequestType
<1>3. IsObject(C, m0) /\ m0.val["request"] = 1 /\ m0.unknown = <<>>
  <2>1. IsObject(C, New(C)) /\ New(C).unknown = <<>>
    BY ObjectsAre, NewIs
  <2> HIDE DEF C
  <2> QED
    BY <1>1, <1>2, <2>1, SetIs
<1> HIDE DEF m0
<1>4. /\ IsObject(C, m1) /\ m1.val["request"] = 1 /\ m1.val["username"] = c.username
      /\ 0 \in m1.bits /\ m1.unknown = <<>>
  BY <1>1, <1>3, SetIs DEF Bit, None
<1> HIDE DEF m1
<1>5. /\ m.val["request"] = 1 /\ m.val["username"] = c.username
      /\ m.val["authCredential"] = c.password
      /\ {0, 1} \subseteq m.bits /\ m.unknown = <<>>
  BY <1>1, <1>4, SetIs DEF Bit, None
<1>6. LoginWire(c) = Serialize(C, m)
  BY DEF LoginWire, m0, m1
<1> HIDE DEF m
<1>7. /\ DOMAIN Class[C].serialize = 1..3
      /\ Class[C].serialize[1] = F(1, "request", "int", None)
      /\ Class[C].serialize[2] = F(2, "username", "string", 0)
      /\ Class[C].serialize[3] = F(3, "authCredential", "bytes", 1)
  BY LoginTable
<1> HIDE DEF C
<1>8. Piece(C, m, 1) = <<Varint(1, 1)>>
  <2>1. Present(C, m, "request", None)
    <3>1. TypeOf(C, "request") = "int"
      BY DEF C, TypeOf, Class, ClientAuthRequest_class, Of, ClientAuthRequest
    <3> QED
      BY <1>5, <3>1 DEF Present, Default
  <2> QED
    BY <1>5, <1>7, <2>1 DEF Piece, WrittenWith, F
<1>9. Piece(C, m, 2) = <<Bytes(2, c.username)>>
  BY <1>5, <1>7 DEF Piece, WrittenWith, F, Present, None
<1>10. Piece(C, m, 3) = <<Bytes(3, c.password)>>
  BY <1>5, <1>7 DEF Piece, WrittenWith, F, Present, None
<1>11. Serialize(C, m) =
         (((<<>> \o <<Varint(1, 1)>>) \o <<Bytes(2, c.username)>>) \o <<Bytes(3, c.password)>>)
           \o <<>>
  BY <1>5, <1>7, <1>8, <1>9, <1>10, SerializeThree, Zenon
<1>12. \A x, y, z : (((<<>> \o <<x>>) \o <<y>>) \o <<z>>) \o <<>> = <<x, y, z>>
  <2> TAKE x, y, z
  <2> DEFINE s == <<x>> \o <<y>>
             t == <<x, y>> \o <<z>>
             u == <<x, y, z>>
  <2>1. <<>> \o <<x>> = <<x>>
    OBVIOUS
  <2>2. s = <<x, y>>
    <3>1. s \in Seq({x, y}) /\ Len(s) = 2 /\ s[1] = x /\ s[2] = y
      OBVIOUS
    <3> HIDE DEF s
    <3> QED
      BY <3>1
  <2>3. t = <<x, y, z>>
    <3>1. t \in Seq({x, y, z}) /\ Len(t) = 3 /\ t[1] = x /\ t[2] = y /\ t[3] = z
      OBVIOUS
    <3> HIDE DEF t
    <3> QED
      BY <3>1
  <2>4. u \o <<>> = u
    <3>1. u \in Seq({x, y, z})
      OBVIOUS
    <3> HIDE DEF u
    <3> QED
      BY <3>1
  <2> QED
    BY <2>1, <2>2, <2>3, <2>4, Zenon
<1> QED
  BY <1>6, <1>11, <1>12, Zenon

UserWire(text) == Serialize("UserRequest", set("UserRequest", New("UserRequest"), "msg", text))

LEMMA ClientWires ==
    /\ \A n : IsWire(KexWire(n))
    /\ IsWire(AuthReqWire)
    /\ \A c \in Credentials : IsWire(LoginWire(c))
    /\ \A text \in Requests : IsWire(UserWire(text))
<1>1. ASSUME NEW n PROVE IsWire(KexWire(n))
  <2> DEFINE kex == Kex(KexAlg.KEX_ECDH, PublicKey(ToString(n)))
             S == {Varint(1, RequestType.REQUEST_KEX), Bytes(2, SerializeKex(kex))}
  <2>1. IsBytes(PublicKey(ToString(n)))
    BY DEF PublicKey, Binary, Text, IsBytes, EmptyBytes
  <2>2. IsBytes(SerializeKex(kex))
    BY <2>1, KexIsBytes
  <2>3. \A e \in S : IsBytes(e.bytes)
    BY <2>2, FieldsAreBytes
  <2> HIDE DEF kex
  <2>4. KexWire(n) \in Seq(S)
    BY WithKexIn DEF KexWire, kex
  <2> HIDE DEF S
  <2> QED
    BY <2>3, <2>4, WireOf
<1>2. IsWire(AuthReqWire)
  <2> DEFINE C == "ClientConnectedStateRequest"
             v == RequestType.REQUEST_AUTH
             m == set(C, New(C), "type", v)
             S == {Varint(1, v)}
  <2>1. "type" \in Members(C) /\ BitOf(C, "type") = None
    BY RequestTable
  <2>2. m.val["type"] = v /\ m.bits = {} /\ m.unknown = <<>>
    BY <2>1, NewIs, ObjectsAre, SetIs DEF Bit
  <2>3. AuthReqWire = Serialize(C, m)
    BY DEF AuthReqWire
  <2>4. \A e \in S : IsBytes(e.bytes)
    BY FieldsAreBytes
  <2> HIDE DEF m
  <2>5. Varint(1, m.val["type"]) \in S
    BY <2>2
  <2> HIDE DEF S, v
  <2>6. /\ DOMAIN Class[C].serialize = 1..2
        /\ Class[C].serialize[1] = F(1, "type", "int", None)
        /\ Class[C].serialize[2] = F(2, "kex", "message", 0)
    BY RequestTable
  <2>7. ~Present(C, m, "kex", 0)
    BY <2>2 DEF Present, None
  <2> HIDE DEF C
  <2>8. Piece(C, m, 1) \in Seq(S)
    BY <2>5, <2>6, PieceIn
  <2>9. Piece(C, m, 2) \in Seq(S)
    BY <2>6, <2>7, PieceIn
  <2>10. \A i \in 1..2 : Piece(C, m, i) \in Seq(S)
    BY <2>8, <2>9
  <2>11. Serialize(C, m) \in Seq(S)
    BY <2>2, <2>6, <2>10, SerializeIn
  <2> QED
    BY <2>3, <2>4, <2>11, WireOf
<1>3. ASSUME NEW c \in Credentials PROVE IsWire(LoginWire(c))
  <2> DEFINE S == {Varint(1, 1), Bytes(2, c.username), Bytes(3, c.password)}
  <2>1. \A e \in S : IsBytes(e.bytes)
    BY FieldsAreBytes, SessionAssumption
  <2>2. <<Varint(1, 1), Bytes(2, c.username), Bytes(3, c.password)>> \in Seq(S)
    OBVIOUS
  <2> HIDE DEF S
  <2> QED
    BY <2>1, <2>2, LoginWritten, WireOf
<1>4. ASSUME NEW text \in Requests PROVE IsWire(UserWire(text))
  <2> DEFINE S == {Bytes(1, text)}
  <2>1. \A e \in S : IsBytes(e.bytes)
    BY FieldsAreBytes, SessionAssumption
  <2>2. UserWire(text) \in {<<>>, <<Bytes(1, text)>>}
    BY UserWritten DEF UserWire, UserClasses
  <2>3. UserWire(text) \in Seq(S)
    <3>1. \A e : <<>> \in Seq({e}) /\ <<e>> \in Seq({e})
      OBVIOUS
    <3> QED
      BY <2>2, <3>1, Zenon
  <2> HIDE DEF S
  <2> QED
    BY <2>1, <2>3, WireOf
<1> QED
  BY <1>1, <1>2, <1>3, <1>4

-----------------------------------------------------------------------------
(* What a client makes of the answers. *)

\* No field but the first of the message: there is no key exchange in it.
FirstOnly(wire) == wire \in Seq(Range(wire)) /\ \A i \in DOMAIN wire : wire[i].num = 1

\* The status is not the number of OK and AUTH_ACCEPT.
NotOne(wire) ==
    /\ wire \in Seq(Range(wire))
    /\ \A i \in DOMAIN wire : wire[i].num = 1 /\ wire[i].wt = "varint" => wire[i].n # 1

\* A member without a has-bit leaves the bits as they are.
LEMMA BitlessParsed ==
    ASSUME NEW C, NEW r, NEW w, IsParse(C, r), r.ok,
           NEW f \in Members(C), Row(C, w) = {F(1, f, "int", None)}
    PROVE  ParseStep(C, r, w).msg.bits = r.msg.bits
<1>1. FieldRead(C, r, w, f, "int", None, ParseStep(C, r, w))
  BY FieldParsed
<1>2. ParseStep(C, r, w).msg.bits = r.msg.bits \union Bit(None)
  BY <1>1 DEF FieldRead
<1> QED
  BY <1>2 DEF Bit

LEMMA FirstOnlyStep ==
    ASSUME NEW r, IsParse("ServerConnectedStateResponse", r), r.msg.bits = {}, NEW w, w.num = 1
    PROVE  ParseStep("ServerConnectedStateResponse", r, w).msg.bits = {}
<1> DEFINE C == "ServerConnectedStateResponse"
<1>1. CASE ~r.ok
  BY <1>1 DEF ParseStep
<1>2. CASE r.ok
  <2>1. Row(C, w) \in {{}, {F(1, "status", "int", None)}} /\ "status" \in Members(C)
    BY ResponseTable DEF Row, F
  <2>2. CASE Row(C, w) = {}
    BY <1>2, <2>2, UnknownParsed
  <2>3. CASE Row(C, w) = {F(1, "status", "int", None)}
    <3>1. IsParse(C, r)
      OBVIOUS
    <3> HIDE DEF C
    <3> QED
      BY <1>2, <2>1, <2>3, <3>1, BitlessParsed DEF C
  <2> QED
    BY <2>1, <2>2, <2>3
<1> QED
  BY <1>1, <1>2

LEMMA FirstOnlyParsed ==
    ASSUME NEW wire, FirstOnly(wire)
    PROVE  LET C == "ServerConnectedStateResponse"
           IN  ~has(C, ParseFromArray(C, New(C), wire).msg, "kex")
<1> DEFINE C == "ServerConnectedStateResponse"
           n == Len(wire)
<1>1. n \in Nat /\ DOMAIN wire = 1..n /\ \A i \in 1..n : wire[i].num = 1
  BY DEF FirstOnly
<1>2. C \in SessionClasses
  BY DEF SessionClasses, ClassNames, Class
<1> HIDE DEF n, C
<1>3. PICK r : Parses(C, New(C), wire, r)
  BY <1>2, ParseIs DEF FirstOnly
<1> DEFINE T == {k \in Nat : k <= n => r[k].msg.bits = {}}
<1>4. 0 \in T
  <2>1. r[0].msg.bits = {}
    BY <1>3, ClearedObjects DEF Parses, C
  <2> QED
    BY <2>1
<1>5. ASSUME NEW k \in T PROVE k + 1 \in T
  <2>1. SUFFICES ASSUME k + 1 <= n PROVE r[k + 1].msg.bits = {}
    OBVIOUS
  <2>2. k \in Nat /\ r[k].msg.bits = {}
    BY <2>1, <1>1
  <2>3. k + 1 \in 1..n /\ (k + 1) - 1 = k /\ k \in 0..n
    BY <2>1, <2>2, <1>1
  <2>4. r[k + 1] = ParseStep(C, r[k], wire[k + 1]) /\ IsParse(C, r[k])
    BY <1>1, <1>3, <2>3 DEF Parses, n
  <2> QED
    BY <1>1, <2>2, <2>3, <2>4, FirstOnlyStep DEF C
<1>6. T = Nat
  <2>1. T \in SUBSET Nat
    OBVIOUS
  <2> HIDE DEF T
  <2> QED
    BY <1>4, <1>5, <2>1, NatBySets
<1>7. r[n].msg.bits = {}
  BY <1>1, <1>6
<1>8. ParseFromArray(C, New(C), wire).msg = r[n].msg
  BY <1>3 DEF Parses, n
<1>9. BitOf(C, "kex") = 1
  BY ResponseTable DEF C
<1> QED
  BY <1>7, <1>8, <1>9 DEF has, Present, None, C

LEMMA NotOneStep ==
    ASSUME NEW r, IsParse("ServerAuthResponse", r), r.msg.val["status"] # 1, NEW w,
           w.num = 1 /\ w.wt = "varint" => w.n # 1
    PROVE  ParseStep("ServerAuthResponse", r, w).msg.val["status"] # 1
<1> DEFINE C == "ServerAuthResponse"
           row1 == F(1, "status", "int", None)
           row2 == F(2, "serverInfo", "string", 0)
<1>1. Class[C].table = {row1, row2} /\ Members(C) = {"status", "serverInfo"} /\ IsParse(C, r)
  BY VerdictTable
<1>2. row1.num = 1 /\ WireType(row1.type) = "varint" /\ row1 # row2
  BY DEF F, WireType
<1> HIDE DEF C, row1, row2
<1>3. CASE ~r.ok
  BY <1>3 DEF ParseStep, C
<1>4. CASE r.ok /\ Row(C, w) = {}
  BY <1>1, <1>4, UnknownParsed DEF C
<1>5. CASE r.ok /\ Row(C, w) = {row1}
  <2>1. w.n # 1
    <3>1. row1 \in Row(C, w)
      BY <1>5
    <3> QED
      BY <1>2, <3>1 DEF Row
  <2>2. ParseStep(C, r, w).msg.val["status"] = w.n
    BY <1>1, <1>5, FieldParsed DEF row1, FieldRead
  <2> QED
    BY <2>1, <2>2 DEF C
<1>6. CASE r.ok /\ Row(C, w) = {row2}
  <2>1. ParseStep(C, r, w).msg.val["status"] = r.msg.val["status"]
    <3>1. PICK f : f = "serverInfo"
      OBVIOUS
    <3>2. Row(C, w) = {F(2, f, "string", 0)} /\ f \in Members(C)
      BY <1>1, <1>6, <3>1 DEF row2
    <3>3. \A g \in Members(C) \ {f} : ParseStep(C, r, w).msg.val[g] = r.msg.val[g]
      BY <1>1, <1>6, <3>2, FieldParsed DEF FieldRead
    <3> QED
      BY <1>1, <3>1, <3>3
  <2> QED
    BY <2>1 DEF C
<1>7. Row(C, w) \in {{}, {row1}, {row2}}
  <2>1. Row(C, w) \subseteq {row1, row2} /\ ~({row1, row2} \subseteq Row(C, w))
    <3>1. row2.num = 2
      BY DEF row2, F
    <3> QED
      BY <1>1, <1>2, <3>1 DEF Row
  <2> QED
    BY <2>1
<1> QED
  BY <1>3, <1>4, <1>5, <1>6, <1>7

LEMMA NotOneParsed ==
    ASSUME NEW wire, NotOne(wire)
    PROVE  LET C == "ServerAuthResponse"
           IN  ParseFromArray(C, New(C), wire).msg.val["status"] # 1
<1> DEFINE C == "ServerAuthResponse"
           n == Len(wire)
<1>1. /\ n \in Nat /\ DOMAIN wire = 1..n
      /\ \A i \in 1..n : wire[i].num = 1 /\ wire[i].wt = "varint" => wire[i].n # 1
  BY DEF NotOne
<1>2. C \in SessionClasses
  BY DEF SessionClasses, ClassNames, Class
<1> HIDE DEF n, C
<1>3. PICK r : Parses(C, New(C), wire, r)
  BY <1>2, ParseIs DEF NotOne
<1> DEFINE T == {k \in Nat : k <= n => r[k].msg.val["status"] # 1}
<1>4. 0 \in T
  <2>1. r[0].msg.val["status"] = 0
    BY <1>3, ClearedObjects DEF Parses, C
  <2> QED
    BY <2>1
<1>5. ASSUME NEW k \in T PROVE k + 1 \in T
  <2>1. SUFFICES ASSUME k + 1 <= n PROVE r[k + 1].msg.val["status"] # 1
    OBVIOUS
  <2>2. k \in Nat /\ r[k].msg.val["status"] # 1
    BY <2>1, <1>1
  <2>3. k + 1 \in 1..n /\ (k + 1) - 1 = k /\ k \in 0..n
    BY <2>1, <2>2, <1>1
  <2>4. r[k + 1] = ParseStep(C, r[k], wire[k + 1]) /\ IsParse(C, r[k])
    BY <1>1, <1>3, <2>3 DEF Parses, n
  <2> QED
    BY <1>1, <2>2, <2>3, <2>4, NotOneStep DEF C
<1>6. T = Nat
  <2>1. T \in SUBSET Nat
    OBVIOUS
  <2> HIDE DEF T
  <2> QED
    BY <1>4, <1>5, <2>1, NatBySets
<1>7. r[n].msg.val["status"] # 1
  BY <1>1, <1>6
<1>8. ParseFromArray(C, New(C), wire).msg = r[n].msg
  BY <1>3 DEF Parses, n
<1> QED
  BY <1>7, <1>8 DEF C

\* A user message arrives as it was sent, and is refused when it is not UTF-8.
LEMMA UserRead ==
    ASSUME NEW C \in UserClasses, NEW b
    PROVE  LET p == ParseFromArray(C, New(C), Serialize(C, set(C, New(C), "msg", b)))
           IN  /\ p.msg.val["msg"] = b
               /\ p.ok => b.utf8
               /\ b.utf8 => p.ok
<1> DEFINE wire == Serialize(C, set(C, New(C), "msg", b))
<1>1. C \in SessionClasses
  BY DEF UserClasses, SessionClasses, ClassNames, Class
<1>2. wire = IF b = EmptyBytes THEN <<>> ELSE <<Bytes(1, b)>>
  BY UserWritten
<1> HIDE DEF wire
<1>3. wire \in Seq(Range(wire))
  <2>1. \A e : <<>> \in Seq({e}) /\ <<e>> \in Seq({e})
    OBVIOUS
  <2>2. wire \in Seq({Bytes(1, b)})
    BY <1>2, <2>1, Zenon
  <2> QED
    BY <2>2, WireOf
<1>4. PICK r : Parses(C, New(C), wire, r)
  BY <1>1, <1>3, ParseIs
<1>5. r[0].ok /\ r[0].msg.val["msg"] = EmptyBytes
  BY <1>4, UserTable DEF Parses
<1>6. CASE b = EmptyBytes
  <2>1. Len(wire) = 0 /\ b.utf8
    BY <1>2, <1>6 DEF EmptyBytes
  <2> QED
    BY <1>4, <1>5, <1>6, <2>1 DEF Parses, wire
<1>7. CASE b # EmptyBytes
  <2> DEFINE w == Bytes(1, b)
  <2>1. w.num = 1 /\ w.wt = "len" /\ w.bytes = b
    BY FieldsAreBytes
  <2> HIDE DEF w
  <2>2. wire = <<w>>
    BY <1>2, <1>7 DEF w
  <2>3. Len(wire) = 1 /\ 1 \in DOMAIN wire /\ wire[1] = w /\ 0 \in 0..Len(wire)
    BY <2>2
  <2>4. r[1] = ParseStep(C, r[0], w) /\ IsParse(C, r[0])
    <3>1. r[1] = ParseStep(C, r[1 - 1], wire[1])
      BY <1>4, <2>3 DEF Parses
    <3>2. IsParse(C, r[0])
      BY <1>4, <2>3 DEF Parses
    <3> QED
      BY <2>3, <3>1, <3>2
  <2>5. PICK x, y : x = r[0] /\ y = r[1]
    OBVIOUS
  <2>6. y.ok = w.bytes.utf8 /\ y.msg.val["msg"] = w.bytes
    <3>1. IsParse(C, x) /\ x.ok /\ y = ParseStep(C, x, w)
      BY <1>5, <2>4, <2>5
    <3> QED
      BY <2>1, <3>1, UserStep
  <2>7. /\ ParseFromArray(C, New(C), wire).msg = y.msg
        /\ ParseFromArray(C, New(C), wire).ok => y.ok
        /\ y.ok => ParseFromArray(C, New(C), wire).ok
    BY <1>4, <2>3, <2>5 DEF Parses
  <2> QED
    BY <2>1, <2>6, <2>7, Zenon DEF wire
<1> QED
  BY <1>6, <1>7

\* The two kinds of fields that stand for themselves.
LEMMA IntParsed ==
    ASSUME NEW C, NEW r, NEW w, IsParse(C, r), r.ok, NEW num, NEW bit,
           NEW f \in Members(C), Row(C, w) = {F(num, f, "int", bit)}
    PROVE  /\ ParseStep(C, r, w).ok /\ ParseStep(C, r, w).msg.val[f] = w.n
           /\ \A g \in Members(C) \ {f} : ParseStep(C, r, w).msg.val[g] = r.msg.val[g]
<1>1. FieldRead(C, r, w, f, "int", bit, ParseStep(C, r, w))
  BY FieldParsed
<1> QED
  BY <1>1 DEF FieldRead

LEMMA BytesParsed ==
    ASSUME NEW C, NEW r, NEW w, IsParse(C, r), r.ok, NEW num, NEW bit,
           NEW f \in Members(C), Row(C, w) = {F(num, f, "bytes", bit)}
    PROVE  /\ ParseStep(C, r, w).ok /\ ParseStep(C, r, w).msg.val[f] = w.bytes
           /\ \A g \in Members(C) \ {f} : ParseStep(C, r, w).msg.val[g] = r.msg.val[g]
<1>1. FieldRead(C, r, w, f, "bytes", bit, ParseStep(C, r, w))
  BY FieldParsed
<1> QED
  BY <1>1 DEF FieldRead

\* A login in the place of the first request asks for a key exchange: that is the
\* number that AUTH_SUPPLY has too.
LEMMA LoginAsRequest ==
    ASSUME NEW c
    PROVE  LET C == "ClientConnectedStateRequest"
           IN  ParseFromArray(C, New(C), LoginWire(c)).msg.val["type"] = RequestType.REQUEST_KEX
<1> DEFINE C == "ClientConnectedStateRequest"
           w1 == Varint(1, 1)
           w2 == Bytes(2, c.username)
           w3 == Bytes(3, c.password)
           wire == <<w1, w2, w3>>
           row1 == F(1, "type", "int", None)
           row2 == F(2, "kex", "message", 0)
<1>1. C \in SessionClasses
  BY DEF SessionClasses, ClassNames, Class
<1>2. /\ w1.num = 1 /\ w1.wt = "varint" /\ w1.n = 1
      /\ w2.num = 2 /\ w2.wt = "len" /\ w3.num = 3
  BY FieldsAreBytes
<1>3. LoginWire(c) = wire
  BY LoginWritten
<1> HIDE DEF w1, w2, w3
<1>4. wire \in Seq({w1, w2, w3}) /\ Len(wire) = 3 /\ DOMAIN wire = 1..3
  OBVIOUS
<1>5. wire[1] = w1 /\ wire[2] = w2 /\ wire[3] = w3
  OBVIOUS
<1> HIDE DEF wire
<1>6. PICK r : Parses(C, New(C), wire, r)
  BY <1>1, <1>4, ParseIs, WireOf
<1>7. Class[C].table = {row1, row2} /\ Members(C) = {"type", "kex"}
  BY RequestTable
<1>8. /\ row1.num = 1 /\ WireType(row1.type) = "varint" /\ row2.num = 2
      /\ WireType(row2.type) = "len"
  BY DEF F, WireType
<1>9. PICK a0, a1, a2, a3 : a0 = r[0] /\ a1 = r[1] /\ a2 = r[2] /\ a3 = r[3]
  OBVIOUS
<1>10. /\ a1 = ParseStep(C, a0, w1) /\ a2 = ParseStep(C, a1, w2) /\ a3 = ParseStep(C, a2, w3)
       /\ IsParse(C, a0) /\ IsParse(C, a1) /\ IsParse(C, a2)
  <2>1. \A i \in 1..3 : r[i] = ParseStep(C, r[i - 1], wire[i])
    BY <1>4, <1>6 DEF Parses
  <2>2. \A i \in 0..3 : IsParse(C, r[i])
    BY <1>4, <1>6 DEF Parses
  <2>3. /\ r[1] = ParseStep(C, r[1 - 1], wire[1]) /\ r[2] = ParseStep(C, r[2 - 1], wire[2])
        /\ r[3] = ParseStep(C, r[3 - 1], wire[3])
    BY <2>1
  <2>4. IsParse(C, r[0]) /\ IsParse(C, r[1]) /\ IsParse(C, r[2])
    BY <2>2
  <2>5. 1 - 1 = 0 /\ 2 - 1 = 1 /\ 3 - 1 = 2
    OBVIOUS
  <2> QED
    BY <1>5, <1>9, <2>3, <2>4, <2>5
<1>11. a0.ok /\ ParseFromArray(C, New(C), wire).msg = a3.msg
  BY <1>4, <1>6, <1>9 DEF Parses
<1> HIDE DEF C, row1, row2
<1>12. Row(C, w1) = {row1} /\ Row(C, w2) = {row2} /\ Row(C, w3) = {}
  BY <1>2, <1>7, <1>8 DEF Row
<1>13. PICK f, g : f = "type" /\ g = "kex"
  OBVIOUS
<1>14. /\ Row(C, w1) = {F(1, f, "int", None)} /\ Row(C, w2) = {F(2, g, "message", 0)}
       /\ f \in Members(C) \ {g} /\ g \in Members(C)
  BY <1>7, <1>12, <1>13 DEF row1, row2
<1>15. a1.ok /\ a1.msg.val[f] = 1
  BY <1>2, <1>10, <1>11, <1>14, IntParsed
<1>16. a2.msg.val[f] = a1.msg.val[f]
  <2>1. FieldRead(C, a1, w2, g, "message", 0, a2)
    BY <1>10, <1>14, <1>15, FieldParsed
  <2> QED
    BY <1>14, <2>1 DEF FieldRead
<1>17. a3.msg.val = a2.msg.val
  BY <1>10, <1>12, UnknownParsed DEF ParseStep
<1> QED
  BY <1>3, <1>11, <1>13, <1>15, <1>16, <1>17 DEF RequestType, C

-----------------------------------------------------------------------------
(* The first message of a client: a key exchange, and its public key is read. *)

LEMMA SerializeTwo ==
    ASSUME NEW C, NEW m, DOMAIN Class[C].serialize = 1..2, m.unknown = <<>>,
           NEW x, Piece(C, m, 1) = <<x>>, NEW y, Piece(C, m, 2) = <<y>>
    PROVE  Serialize(C, m) = <<x, y>>
<1>1. PICK r : /\ r[0] = <<>>
               /\ \A k \in 1..2 : r[k] = r[k - 1] \o Piece(C, m, k)
               /\ Serialize(C, m) = r[2] \o m.unknown
  <2>1. PICK n \in Nat : n = 2
    OBVIOUS
  <2>2. \E r : /\ r[0] = <<>>
               /\ \A k \in 1..n : r[k] = r[k - 1] \o Piece(C, m, k)
               /\ Serialize(C, m) = r[n] \o m.unknown
    <3>1. DOMAIN Class[C].serialize = 1..n
      BY <2>1
    <3> QED
      BY <3>1, SerializeChain
  <2> QED
    BY <2>1, <2>2
<1>2. r[1] = <<>> \o <<x>>
  <2>1. 1 \in 1..2 /\ 1 - 1 = 0
    OBVIOUS
  <2> QED
    BY <1>1, <2>1
<1>3. r[2] = r[1] \o <<y>>
  <2>1. 2 \in 1..2 /\ 2 - 1 = 1
    OBVIOUS
  <2> QED
    BY <1>1, <2>1
<1>4. <<>> \o <<x>> = <<x>>
  OBVIOUS
<1>5. PICK s : s = <<x>> \o <<y>>
  OBVIOUS
<1>6. s \in Seq({x, y}) /\ Len(s) = 2 /\ s[1] = x /\ s[2] = y
  BY <1>5
<1>7. s = <<x, y>> /\ s \o <<>> = s
  BY <1>6
<1>8. r[2] = s
  BY <1>2, <1>3, <1>4, <1>5, Zenon
<1> QED
  BY <1>1, <1>7, <1>8, Zenon

\* The message of a key exchange by ECDH with the public key b, and a request with it.
KexFields(b) == <<Varint(1, 1), Bytes(2, b)>>
OfferFields(b) == <<Varint(1, 1), Bytes(2, Embedded(KexFields(b)))>>

LEMMA KexWritten ==
    ASSUME NEW b, b # EmptyBytes
    PROVE  Serialize("KexMsg", Kex(KexAlg.KEX_ECDH, b)) = KexFields(b)
<1> DEFINE C == "KexMsg"
           m0 == set(C, New(C), "alg", 1)
           m == set(C, m0, "pkey", b)
<1>1. /\ Members(C) = {"alg", "pkey"} /\ TypeOf(C, "alg") = "int" /\ TypeOf(C, "pkey") = "bytes"
      /\ Class[C].serialize = <<F(1, "alg", "int", None), F(2, "pkey", "bytes", None)>>
  BY KexTable DEF TypeOf, Class, KexMsg_class, Of, KexMsg
<1>2. KexAlg.KEX_ECDH = 1
  BY DEF KexAlg
<1>3. IsObject(C, m0) /\ m0.val["alg"] = 1 /\ m0.unknown = <<>>
  <2>1. IsObject(C, New(C)) /\ New(C).unknown = <<>> /\ "alg" \in Members(C)
    BY <1>1, ObjectsAre, NewIs
  <2> HIDE DEF C
  <2> QED
    BY <2>1, SetIs
<1> HIDE DEF m0
<1>4. m.val["alg"] = 1 /\ m.val["pkey"] = b /\ m.unknown = <<>>
  <2>1. "pkey" \in Members(C) /\ "alg" \in Members(C) \ {"pkey"}
    BY <1>1
  <2> HIDE DEF C
  <2> QED
    BY <1>3, <2>1, SetIs
<1>5. Kex(KexAlg.KEX_ECDH, b) = m
  BY <1>2 DEF Kex, m0
<1> HIDE DEF m
<1>6. /\ DOMAIN Class[C].serialize = 1..2
      /\ Class[C].serialize[1] = F(1, "alg", "int", None)
      /\ Class[C].serialize[2] = F(2, "pkey", "bytes", None)
  BY <1>1
<1>7. Present(C, m, "alg", None) /\ Present(C, m, "pkey", None)
  BY <1>1, <1>4 DEF Present, Default
<1> HIDE DEF C
<1>8. Piece(C, m, 1) = <<Varint(1, 1)>>
  BY <1>4, <1>6, <1>7 DEF Piece, WrittenWith, F
<1>9. Piece(C, m, 2) = <<Bytes(2, b)>>
  BY <1>4, <1>6, <1>7 DEF Piece, WrittenWith, F
<1>10. Serialize(C, m) = <<Varint(1, 1), Bytes(2, b)>>
  BY <1>4, <1>6, <1>8, <1>9, SerializeTwo
<1> QED
  BY <1>5, <1>10 DEF C, KexFields

LEMMA OfferWritten ==
    ASSUME NEW n
    PROVE  KexWire(n) = OfferFields(PublicKey(ToString(n)))
<1> DEFINE C == "ClientConnectedStateRequest"
           b == PublicKey(ToString(n))
           kex == Kex(KexAlg.KEX_ECDH, b)
           m0 == set(C, New(C), "type", 1)
           m == set(C, m0, "kex", <<kex>>)
<1>1. b # EmptyBytes
  BY DEF PublicKey, Binary, Text, EmptyBytes
<1>2. SerializeKex(kex) = Embedded(KexFields(b))
  BY <1>1, KexWritten, KexSerialized
<1> HIDE DEF kex
<1>3. /\ Members(C) = {"type", "kex"} /\ TypeOf(C, "type") = "int" /\ TypeOf(C, "kex") = "message"
      /\ BitOf(C, "type") = None /\ BitOf(C, "kex") = 0
      /\ Class[C].serialize = <<F(1, "type", "int", None), F(2, "kex", "message", 0)>>
  BY RequestTable
<1>4. KexWire(n) = Serialize(C, m)
  <2>1. RequestType.REQUEST_KEX = 1
    BY DEF RequestType
  <2>2. WithKex(C, m0, kex) = m
    BY <1>3 DEF WithKex, set_allocated, Null
  <2> QED
    BY <2>1, <2>2 DEF KexWire, kex, m0
<1>5. IsObject(C, m0) /\ m0.val["type"] = 1 /\ m0.unknown = <<>>
  <2>1. IsObject(C, New(C)) /\ New(C).unknown = <<>> /\ "type" \in Members(C)
    BY <1>3, ObjectsAre, NewIs
  <2> HIDE DEF C
  <2> QED
    BY <2>1, SetIs
<1> HIDE DEF m0
<1>6. /\ m.val["type"] = 1 /\ m.val["kex"] = <<kex>> /\ m.unknown = <<>>
      /\ 0 \in m.bits
  <2>1. "kex" \in Members(C) /\ "type" \in Members(C) \ {"kex"} /\ Bit(BitOf(C, "kex")) = {0}
    BY <1>3 DEF Bit, None
  <2> HIDE DEF C
  <2> QED
    BY <1>5, <2>1, SetIs
<1> HIDE DEF m
<1>7. /\ DOMAIN Class[C].serialize = 1..2
      /\ Class[C].serialize[1] = F(1, "type", "int", None)
      /\ Class[C].serialize[2] = F(2, "kex", "message", 0)
  BY <1>3
<1>8. Present(C, m, "type", None) /\ Present(C, m, "kex", 0)
  BY <1>3, <1>6 DEF Present, Default, None
<1> HIDE DEF C
<1>9. Piece(C, m, 1) = <<Varint(1, 1)>>
  BY <1>6, <1>7, <1>8 DEF Piece, WrittenWith, F
<1>10. Piece(C, m, 2) = <<Bytes(2, Embedded(KexFields(b)))>>
  <2>1. m.val["kex"][1] = kex
    BY <1>6
  <2> QED
    BY <1>2, <1>7, <1>8, <2>1 DEF Piece, WrittenWith, F
<1> QED
  BY <1>4, <1>6, <1>7, <1>9, <1>10, SerializeTwo DEF OfferFields

LEMMA PairSize ==
    ASSUME NEW x, NEW y, x.bytes.len \in Nat, y.bytes.len \in Nat
    PROVE  WireSize(<<x, y>>) = FieldSize(x) + FieldSize(y)
<1> DEFINE wire == <<x, y>>
<1>1. DOMAIN wire = 1..2 /\ wire[1] = x /\ wire[2] = y
  OBVIOUS
<1> HIDE DEF wire
<1>2. PICK r : /\ r[0] = 0
               /\ \A k \in 1..2 : r[k] = r[k - 1] + FieldSize(wire[k])
               /\ WireSize(wire) = r[2]
  <2>1. PICK n \in Nat : n = 2
    OBVIOUS
  <2>2. \E r : /\ r[0] = 0
               /\ \A k \in 1..n : r[k] = r[k - 1] + FieldSize(wire[k])
               /\ WireSize(wire) = r[n]
    <3>1. DOMAIN wire = 1..n
      BY <1>1, <2>1
    <3> QED
      BY <3>1, SizeChain
  <2> QED
    BY <2>1, <2>2
<1>3. r[1] = 0 + FieldSize(x)
  BY <1>1, <1>2
<1>4. r[2] = r[1] + FieldSize(y)
  <2>1. 2 \in 1..2 /\ 2 - 1 = 1
    OBVIOUS
  <2> QED
    BY <1>1, <1>2, <2>1
<1>5. FieldSize(x) \in Nat /\ FieldSize(y) \in Nat
  BY FieldSizes
<1>6. WireSize(wire) = FieldSize(x) + FieldSize(y)
  BY <1>2, <1>3, <1>4, <1>5
<1> QED
  BY <1>6 DEF wire

LEMMA OfferFits ==
    ASSUME NEW b, IsBytes(b), IsPublicKey(b)
    PROVE  Encodable(OfferFields(b))
<1> DEFINE kex == KexFields(b)
           e == Embedded(kex)
<1>1. PICK v, w, x : v = Varint(1, 1) /\ w = Bytes(2, b) /\ x = Bytes(2, e)
  OBVIOUS
<1>2. /\ v.bytes.len \in Nat /\ v.wt = "varint" /\ v.n = 1
      /\ w.bytes = b /\ w.wt = "len" /\ x.bytes = e /\ x.wt = "len"
  BY <1>1, FieldsAreBytes DEF IsBytes
<1>3. kex = <<v, w>> /\ OfferFields(b) = <<v, x>>
  BY <1>1 DEF KexFields, OfferFields
<1> HIDE DEF kex
<1>4. b.len = 32
  BY DEF IsPublicKey
<1>5. FieldSize(v) = 2
  BY <1>2 DEF FieldSize, VarintSize
<1>6. FieldSize(w) \in Nat /\ FieldSize(w) <= 36
  BY <1>2, <1>4, FieldSizes
<1>7. WireSize(kex) = FieldSize(v) + FieldSize(w)
  BY <1>2, <1>3, <1>4, PairSize
<1>8. e.len = WireSize(kex)
  BY <1>3 DEF Embedded
<1> HIDE DEF e
<1>9. PICK s : s = WireSize(kex)
  OBVIOUS
<1>10. s \in Nat /\ s <= 38
  BY <1>5, <1>6, <1>7, <1>9
<1>11. x.bytes.len = s
  BY <1>2, <1>8, <1>9
<1>12. FieldSize(x) \in Nat /\ FieldSize(x) <= s + 4
  BY <1>2, <1>10, <1>11, FieldSizes
<1>13. WireSize(<<v, x>>) = FieldSize(v) + FieldSize(x)
  BY <1>2, <1>10, <1>11, PairSize
<1>14. FieldSize(v) + FieldSize(x) <= 65535
  BY <1>5, <1>10, <1>12
<1> QED
  BY <1>3, <1>13, <1>14 DEF Encodable, MaxLen

\* In a KexMsg there are no members that are messages to parse either.
LEMMA KexParsesFlat ==
    ASSUME NEW m, NEW w
    PROVE  ParseFieldWith("KexMsg", m, w, LAMBDA s, b : [ok |-> FALSE, msg |-> s])
             = ParseFieldWith("KexMsg", m, w, ParseKex)
<1>1. Class["KexMsg"].table = KexMsg_table
  BY DEF Class, KexMsg_class, Of
<1>2. \A row \in Row("KexMsg", w) : row.type \in {"int", "bytes"}
  BY <1>1 DEF Row, KexMsg_table, F
<1>3. CASE Row("KexMsg", w) = {}
  BY <1>3 DEF ParseFieldWith
<1>4. CASE Row("KexMsg", w) # {}
  <2>1. PICK row : row = CHOOSE rw \in Row("KexMsg", w) : TRUE
    OBVIOUS
  <2>2. row.type \in {"int", "bytes"}
    BY <1>2, <1>4, <2>1
  <2> QED
    BY <1>4, <2>1, <2>2 DEF ParseFieldWith
<1> QED
  BY <1>3, <1>4

LEMMA KexParsed ==
    ASSUME NEW m, NEW bytes, bytes.parses, NEW n \in Nat, DOMAIN bytes.sub = 1..n
    PROVE  ParseKex(m, bytes) = Parsed("KexMsg", m, bytes.sub)
<1> DEFINE S == SUBSET (1..n)
           wire == bytes.sub
           Z(r, w) == IF r.ok
                      THEN ParseFieldWith("KexMsg", r.msg, w,
                                          LAMBDA s, b : [ok |-> FALSE, msg |-> s])
                      ELSE r
           A(g) == [s \in S |-> IF s = {} THEN [ok |-> TRUE, msg |-> m]
                                ELSE Z(g[s \ {Max(s)}], wire[Max(s)])]
           B(g) == [s \in S |-> IF s = {} THEN [ok |-> TRUE, msg |-> m]
                                ELSE ParseStep("KexMsg", g[s \ {Max(s)}], wire[Max(s)])]
<1>1. \A r, w : Z(r, w) = ParseStep("KexMsg", r, w)
  BY KexParsesFlat DEF ParseStep
<1>2. ParseKex(m, bytes) = (CHOOSE g : g = A(g))[1..n]
  BY DEF ParseKex, ParseWith, FoldLeft, MapThenFoldSet
<1>3. Parsed("KexMsg", m, bytes.sub) = (CHOOSE g : g = B(g))[1..n]
  BY DEF Parsed, ParseWith, ParseStep, FoldLeft, MapThenFoldSet
<1>4. ASSUME NEW g PROVE A(g) = B(g)
  <2> HIDE DEF Z
  <2> QED
    BY <1>1
<1>5. (CHOOSE g : g = A(g)) = (CHOOSE g : g = B(g))
  <2> HIDE DEF A, B
  <2> QED
    BY <1>4
<1> HIDE DEF A, B
<1> QED
  BY <1>2, <1>3, <1>5

\* Two fields, parsed one after the other.
LEMMA ParsedTwo ==
    ASSUME NEW C, NEW m, NEW x, NEW y
    PROVE  Parsed(C, m, <<x, y>>)
             = ParseStep(C, ParseStep(C, [ok |-> TRUE, msg |-> m], x), y)
<1> DEFINE wire == <<x, y>>
<1>1. DOMAIN wire = 1..2 /\ wire[1] = x /\ wire[2] = y
  OBVIOUS
<1> HIDE DEF wire
<1>2. PICK r : /\ r[0] = [ok |-> TRUE, msg |-> m]
               /\ \A k \in 1..2 : r[k] = ParseStep(C, r[k - 1], wire[k])
               /\ Parsed(C, m, wire) = r[2]
  <2>1. PICK n \in Nat : n = 2
    OBVIOUS
  <2>2. \E r : /\ r[0] = [ok |-> TRUE, msg |-> m]
               /\ \A k \in 1..n : r[k] = ParseStep(C, r[k - 1], wire[k])
               /\ Parsed(C, m, wire) = r[n]
    <3>1. DOMAIN wire = 1..n
      BY <1>1, <2>1
    <3> QED
      BY <3>1, ParseChain
  <2> QED
    BY <2>1, <2>2
<1>3. r[1] = ParseStep(C, r[0], x)
  <2>1. 1 \in 1..2 /\ 1 - 1 = 0
    OBVIOUS
  <2> QED
    BY <1>1, <1>2, <2>1
<1>4. r[2] = ParseStep(C, r[1], y)
  <2>1. 2 \in 1..2 /\ 2 - 1 = 1
    OBVIOUS
  <2> QED
    BY <1>1, <1>2, <2>1
<1>5. Parsed(C, m, wire) = ParseStep(C, ParseStep(C, [ok |-> TRUE, msg |-> m], x), y)
  BY <1>2, <1>3, <1>4, Zenon
<1> QED
  BY <1>5 DEF wire

LEMMA PlainParsed ==
    ASSUME NEW C, NEW r, NEW w, IsParse(C, r), r.ok, NEW num, NEW bit, NEW type,
           type \in {"int", "bytes"},
           NEW f \in Members(C), Row(C, w) = {F(num, f, type, bit)}
    PROVE  /\ ParseStep(C, r, w).ok /\ IsParse(C, ParseStep(C, r, w))
           /\ type = "int" => ParseStep(C, r, w).msg.val[f] = w.n
           /\ type = "bytes" => ParseStep(C, r, w).msg.val[f] = w.bytes
           /\ \A g \in Members(C) \ {f} : ParseStep(C, r, w).msg.val[g] = r.msg.val[g]
<1>1. IsParse(C, ParseStep(C, r, w))
  BY ParseStepIs
<1>2. CASE type = "int"
  <2>1. Row(C, w) = {F(num, f, "int", bit)}
    BY <1>2
  <2> QED
    BY <1>1, <1>2, <2>1, IntParsed
<1>3. CASE type = "bytes"
  <2>1. Row(C, w) = {F(num, f, "bytes", bit)}
    BY <1>3
  <2> QED
    BY <1>1, <1>3, <2>1, BytesParsed
<1> QED
  BY <1>2, <1>3

LEMMA KexRead ==
    ASSUME NEW b
    PROVE  LET p == ParseKex(New("KexMsg"), Embedded(KexFields(b)))
           IN  p.ok /\ p.msg.val["alg"] = 1 /\ p.msg.val["pkey"] = b
<1> DEFINE C == "KexMsg"
           fields == KexFields(b)
           e == Embedded(fields)
           row1 == F(1, "alg", "int", None)
           row2 == F(2, "pkey", "bytes", None)
<1>1. PICK v, w : v = Varint(1, 1) /\ w = Bytes(2, b)
  OBVIOUS
<1>2. /\ v.num = 1 /\ v.wt = "varint" /\ v.n = 1
      /\ w.num = 2 /\ w.wt = "len" /\ w.bytes = b
  BY <1>1, FieldsAreBytes
<1>3. fields = <<v, w>>
  BY <1>1 DEF KexFields
<1> HIDE DEF fields
<1>4. e.parses /\ e.sub = fields
  BY <1>3 DEF Embedded
<1> HIDE DEF e
<1>5. DOMAIN e.sub = 1..2
  BY <1>3, <1>4
<1>6. ParseKex(New(C), e) = Parsed(C, New(C), <<v, w>>)
  <2>1. PICK n, m : n \in Nat /\ n = 2 /\ m = New(C)
    OBVIOUS
  <2>2. DOMAIN e.sub = 1..n
    BY <1>5, <2>1
  <2>3. ParseKex(m, e) = Parsed(C, m, e.sub)
    BY <1>4, <2>1, <2>2, KexParsed
  <2> QED
    BY <1>3, <1>4, <2>1, <2>3
<1>7. Class[C].table = {row1, row2} /\ Members(C) = {"alg", "pkey"}
  BY KexTable DEF Class, KexMsg_class, Of, KexMsg_table
<1>8. /\ row1.num = 1 /\ WireType(row1.type) = "varint" /\ row2.num = 2
      /\ WireType(row2.type) = "len"
  BY DEF F, WireType
<1> HIDE DEF row1, row2
<1>9. Row(C, v) = {row1} /\ Row(C, w) = {row2}
  BY <1>2, <1>7, <1>8 DEF Row
<1>10. PICK a, m : m = New(C) /\ a = [ok |-> TRUE, msg |-> m]
  OBVIOUS
<1>11. PICK c, d : c = ParseStep(C, a, v) /\ d = ParseStep(C, c, w)
  OBVIOUS
<1>12. ParseKex(New(C), e) = d
  BY <1>6, <1>10, <1>11, ParsedTwo
<1>13. IsParse(C, a) /\ a.ok
  BY <1>10, ObjectsAre DEF IsParse
<1> HIDE DEF C
<1>14. PICK f, g : f = "alg" /\ g = "pkey"
  OBVIOUS
<1>15. /\ Row(C, v) = {F(1, f, "int", None)} /\ Row(C, w) = {F(2, g, "bytes", None)}
       /\ f \in Members(C) \ {g} /\ g \in Members(C)
  BY <1>7, <1>9, <1>14 DEF row1, row2
<1>16. c.ok /\ IsParse(C, c) /\ c.msg.val[f] = 1
  BY <1>2, <1>11, <1>13, <1>15, PlainParsed
<1>17. d.ok /\ d.msg.val[f] = 1 /\ d.msg.val[g] = b
  BY <1>2, <1>11, <1>15, <1>16, PlainParsed
<1> QED
  BY <1>12, <1>14, <1>17 DEF C, e, fields

\* The server takes it for what it is.
LEMMA OfferRead ==
    ASSUME NEW b
    PROVE  LET C == "ClientConnectedStateRequest"
               p == ParseFromArray(C, New(C), OfferFields(b))
               kex == get(C, p.msg, "kex")
           IN  /\ p.ok /\ p.msg.val["type"] = RequestType.REQUEST_KEX /\ has(C, p.msg, "kex")
               /\ kex.val["alg"] = KexAlg.KEX_ECDH /\ kex.val["pkey"] = b
<1> DEFINE C == "ClientConnectedStateRequest"
           e == Embedded(KexFields(b))
           wire == OfferFields(b)
           p == ParseFromArray(C, New(C), wire)
           row1 == F(1, "type", "int", None)
           row2 == F(2, "kex", "message", 0)
           k == ParseKex(New("KexMsg"), e)
<1>1. PICK v, w : v = Varint(1, 1) /\ w = Bytes(2, e)
  OBVIOUS
<1>2. /\ v.num = 1 /\ v.wt = "varint" /\ v.n = 1
      /\ w.num = 2 /\ w.wt = "len" /\ w.bytes = e
  BY <1>1, FieldsAreBytes
<1>3. wire = <<v, w>>
  BY <1>1 DEF OfferFields
<1> HIDE DEF e, wire
<1>4. wire \in Seq({v, w}) /\ Len(wire) = 2 /\ DOMAIN wire = 1..2
  BY <1>3
<1>5. C \in SessionClasses
  BY DEF SessionClasses, ClassNames, Class
<1>6. PICK r : Parses(C, New(C), wire, r)
  BY <1>4, <1>5, ParseIs, WireOf
<1>7. /\ Class[C].table = {row1, row2}
      /\ Members(C) = {"type", "kex"} /\ TypeOf(C, "kex") = "message" /\ BitOf(C, "kex") = 0
  BY RequestTable
<1>8. /\ row1.num = 1 /\ WireType(row1.type) = "varint" /\ row2.num = 2
      /\ WireType(row2.type) = "len"
  BY DEF F, WireType
<1>9. PICK a, c, d : a = r[0] /\ c = r[1] /\ d = r[2]
  OBVIOUS
<1>10. c = ParseStep(C, a, v) /\ d = ParseStep(C, c, w) /\ IsParse(C, a) /\ IsParse(C, c)
  <2>1. r[1] = ParseStep(C, r[1 - 1], wire[1]) /\ r[2] = ParseStep(C, r[2 - 1], wire[2])
    BY <1>4, <1>6 DEF Parses
  <2>2. IsParse(C, r[0]) /\ IsParse(C, r[1])
    BY <1>4, <1>6 DEF Parses
  <2>3. 1 - 1 = 0 /\ 2 - 1 = 1 /\ wire[1] = v /\ wire[2] = w
    BY <1>3
  <2> QED
    BY <1>9, <2>1, <2>2, <2>3
<1>11. a.ok /\ a.msg = Clear(C, New(C)) /\ p.msg = d.msg /\ (d.ok => p.ok)
  BY <1>4, <1>6, <1>9 DEF Parses
<1>12. a.msg.val["kex"] = Null
  <2>1. New(C).val["kex"] = Null /\ New(C).bits = {}
    BY <1>7, NewIs DEF Default
  <2> QED
    BY <1>7, <1>11, <2>1 DEF Clear, ClearWith
<1> HIDE DEF C, p, row1, row2
<1>13. Row(C, v) = {row1} /\ Row(C, w) = {row2}
  BY <1>2, <1>7, <1>8 DEF Row
<1>14. PICK f, g : f = "type" /\ g = "kex"
  OBVIOUS
<1>15. /\ Row(C, v) = {F(1, f, "int", None)} /\ Row(C, w) = {F(2, g, "message", 0)}
       /\ f \in Members(C) \ {g} /\ g \in Members(C) \ {f}
  BY <1>7, <1>13, <1>14 DEF row1, row2
<1>16. c.ok /\ c.msg.val[f] = 1 /\ c.msg.val[g] = Null
  BY <1>2, <1>10, <1>11, <1>12, <1>14, <1>15, PlainParsed
<1>17. /\ d.ok = Inner(c.msg, g, w).ok /\ d.msg.val[g] = <<Inner(c.msg, g, w).msg>>
       /\ d.msg.val[f] = c.msg.val[f] /\ d.msg.bits = c.msg.bits \union Bit(0)
  <2>1. FieldRead(C, c, w, g, "message", 0, d)
    BY <1>10, <1>15, <1>16, FieldParsed
  <2> QED
    BY <1>15, <2>1 DEF FieldRead
<1>18. Inner(c.msg, g, w) = k
  BY <1>2, <1>16 DEF Inner
<1>19. k.ok /\ k.msg.val["alg"] = 1 /\ k.msg.val["pkey"] = b
  BY KexRead DEF e
<1> HIDE DEF k
<1>20. p.ok /\ p.msg.val["type"] = 1 /\ p.msg.val["kex"] = <<k.msg>> /\ 0 \in p.msg.bits
  BY <1>11, <1>14, <1>16, <1>17, <1>18, <1>19 DEF Bit, None
<1>21. has(C, p.msg, "kex") /\ get(C, p.msg, "kex") = k.msg
  BY <1>7, <1>20 DEF has, get, Present, None, Null
<1>22. RequestType.REQUEST_KEX = 1 /\ KexAlg.KEX_ECDH = 1
  BY DEF RequestType, KexAlg
<1> QED
  BY <1>19, <1>20, <1>21, <1>22 DEF C, p, wire

-----------------------------------------------------------------------------
(* The frames under way. *)

IsSeq(q) == q \in Seq(Range(q))

LEMMA SeqsAre ==
    ASSUME NEW S, NEW q \in Seq(S)
    PROVE  IsSeq(q) /\ Range(q) \subseteq S
<1>1. IsSeq(q) /\ \A i \in DOMAIN q : q[i] \in S
  BY WireOf DEF IsSeq
<1> QED
  BY <1>1 DEF Range

\* Taking, adding, losing and joining.
LEMMA SeqsKept ==
    ASSUME NEW q, IsSeq(q)
    PROVE  /\ q # <<>> => /\ IsSeq(Tail(q)) /\ Range(Tail(q)) \subseteq Range(q)
                          /\ Head(q) \in Range(q)
           /\ \A e : IsSeq(Append(q, e)) /\ Range(Append(q, e)) \subseteq Range(q) \union {e}
           /\ \A k \in 0..Len(q) :
                IsSeq(SubSeq(q, 1, k)) /\ Range(SubSeq(q, 1, k)) \subseteq Range(q)
           /\ \A p : IsSeq(p) =>
                IsSeq(q \o p) /\ Range(q \o p) \subseteq Range(q) \union Range(p)
<1> DEFINE S == Range(q)
<1>1. q \in Seq(S)
  BY DEF IsSeq
<1>2. ASSUME q # <<>>
      PROVE  IsSeq(Tail(q)) /\ Range(Tail(q)) \subseteq S /\ Head(q) \in S
  <2> HIDE DEF S
  <2>1. Tail(q) \in Seq(S) /\ Head(q) \in S
    BY <1>1, <1>2
  <2> QED
    BY <2>1, SeqsAre
<1>3. ASSUME NEW e
      PROVE  IsSeq(Append(q, e)) /\ Range(Append(q, e)) \subseteq S \union {e}
  <2> DEFINE T == S \union {e}
  <2>1. q \in Seq(T) /\ e \in T
    <3> HIDE DEF S
    <3> QED
      BY <1>1
  <2> HIDE DEF T
  <2>2. Append(q, e) \in Seq(T)
    BY <2>1
  <2> QED
    BY <2>2, SeqsAre DEF T
<1>4. ASSUME NEW k \in 0..Len(q)
      PROVE  IsSeq(SubSeq(q, 1, k)) /\ Range(SubSeq(q, 1, k)) \subseteq S
  <2> HIDE DEF S
  <2>1. SubSeq(q, 1, k) \in Seq(S)
    BY <1>1
  <2> QED
    BY <2>1, SeqsAre
<1>5. ASSUME NEW p, IsSeq(p)
      PROVE  IsSeq(q \o p) /\ Range(q \o p) \subseteq S \union Range(p)
  <2> DEFINE R == Range(p)
             T == S \union R
  <2>1. p \in Seq(R)
    BY <1>5 DEF IsSeq
  <2>2. q \in Seq(T) /\ p \in Seq(T)
    <3> HIDE DEF S, R
    <3> QED
      BY <1>1, <2>1
  <2> HIDE DEF T
  <2>3. q \o p \in Seq(T)
    BY <2>2
  <2> QED
    BY <2>3, SeqsAre DEF T
<1> QED
  BY <1>2, <1>3, <1>4, <1>5

\* What the server sends: each answer that was encoded, with the key of now.
LEMMA Responded ==
    ASSUME NEW wires, IsSeq(wires), NEW tag, IsSeq(down), respond(wires, tag)
    PROVE  /\ IsSeq(down')
           /\ \A f \in Range(down') : \/ f \in Range(down)
                                      \/ \E w \in Range(wires) : f = encode(scoder, w, tag)
<1> DEFINE n == Len(wires)
           p == [i \in DOMAIN wires |-> encode(scoder, wires[i], tag)]
<1>1. n \in Nat /\ DOMAIN wires = 1..n
  BY DEF IsSeq
<1>2. IsSeq(p) /\ \A f \in Range(p) : \E w \in Range(wires) : f = encode(scoder, w, tag)
  <2>1. p = [i \in 1..n |-> encode(scoder, wires[i], tag)]
    BY <1>1
  <2>2. IsSeq(p)
    BY <1>1, <2>1 DEF IsSeq, Range
  <2>3. \A f \in Range(p) : \E i \in DOMAIN wires : f = encode(scoder, wires[i], tag)
    BY DEF Range
  <2>4. \A i \in DOMAIN wires : wires[i] \in Range(wires)
    BY DEF Range
  <2> QED
    BY <2>2, <2>3, <2>4
<1>3. down' = down \/ down' = down \o p
  BY DEF respond
<1> HIDE DEF p
<1>4. CASE down' = down
  BY <1>4
<1>5. CASE down' = down \o p
  <2> DEFINE q == down
             s == q \o p
  <2>1. IsSeq(s) /\ Range(s) \subseteq Range(q) \union Range(p)
    BY <1>2, SeqsKept
  <2>2. down' = s
    BY <1>5
  <2> HIDE DEF s
  <2> QED
    BY <1>2, <2>1, <2>2
<1> QED
  BY <1>3, <1>4, <1>5

-----------------------------------------------------------------------------
(* The server's key. *)

\* The server has a key from the key exchange on, and nothing but a key exchange is
\* possible without one.
KeyInv ==
    /\ isKexComplete <=> scoder # Plain
    /\ state # "connected" => isKexComplete

\* Only a frame that is handled changes the handler.
LEMMA OnlyHandled ==
    ASSUME [PSNext]_vars, ~handleFrame
    PROVE  UNCHANGED handlerVars
<1>1. ASSUME TakeAnswer \/ timeOut \/ readEof \/ readReset \/ otherFrame
      PROVE  UNCHANGED handlerVars
  BY <1>1, Zenon DEF TakeAnswer, timeOut, readEof, readReset, otherFrame, serverVars
<1>2. ASSUME NEW o, Call(o) PROVE UNCHANGED handlerVars
  BY <1>2, Zenon DEF Call, serverVars
<1>3. ASSUME NEW table, changeUsers(table) PROVE UNCHANGED handlerVars
  BY <1>3, Zenon DEF changeUsers, serverVars
<1>4. closeClient => UNCHANGED handlerVars
  BY Zenon DEF closeClient
<1>5. UNCHANGED vars => UNCHANGED handlerVars
  BY DEF vars, serverVars
<1>6. ClientReads => TakeAnswer \/ readEof \/ readReset
  BY Zenon DEF ClientReads, kexAnswer, askAuthAnswer, authAnswer, requestAnswer
<1>7. ClientCalls => \E o : Call(o)
  BY Zenon DEF ClientCalls, connect, connectRefused, authenticateAs, fetchRequest
<1>8. addUser \/ delUser => \E table : changeUsers(table)
  BY Zenon DEF addUser, delUser
<1> QED
  BY <1>1, <1>2, <1>3, <1>4, <1>5, <1>6, <1>7, <1>8, Zenon DEF PSNext, Server

\* The server agrees on a key once, and keeps it.
LEMMA KeyStep ==
    ASSUME [PSNext]_vars
    PROVE  \/ UNCHANGED <<isKexComplete, scoder>>
           \/ ~isKexComplete /\ isKexComplete' = TRUE /\ scoder' # Plain
<1>1. ASSUME NEW m, NEW f, handleKex(f, m)
      PROVE  \/ UNCHANGED handlerVars
             \/ /\ ~isKexComplete /\ isKexComplete' = TRUE
                /\ \E text : scoder' = <<text>>
  BY <1>1, Zenon DEF handleKex
<1>2. ASSUME NEW f, handleAuthRequest(f) \/ authFrame(f) \/ userFrame(f)
      PROVE  UNCHANGED <<isKexComplete, scoder>>
  <2>1. \/ UNCHANGED <<isKexComplete, scoder>> \/ UNCHANGED handlerVars
        \/ UNCHANGED <<isKexComplete, scoder, finalStateFactory>>
        \/ UNCHANGED <<isKexComplete, scoder, areq, remainingAttempts, finalStateFactory,
                       garbled, presented>>
    BY <1>2, Zenon DEF handleAuthRequest, authFrame, userFrame
  <2> QED
    BY <2>1 DEF handlerVars
<1>3. ASSUME NEW f, connectedFrame(f)
      PROVE  UNCHANGED handlerVars \/ handleAuthRequest(f) \/ \E m : handleKex(f, m)
  BY <1>3, Zenon DEF connectedFrame, handlerVars
<1>4. UNCHANGED handlerVars => UNCHANGED <<isKexComplete, scoder>>
  BY DEF handlerVars
<1>5. \A text : <<text>> # Plain
  BY DEF Plain
<1>6. CASE handleFrame
  <2>1. PICK f : connectedFrame(f) \/ authFrame(f) \/ userFrame(f)
    BY <1>6, Zenon DEF handleFrame
  <2>2. UNCHANGED handlerVars \/ UNCHANGED <<isKexComplete, scoder>> \/ \E m : handleKex(f, m)
    BY <2>1, <1>2, <1>3, Zenon
  <2>3. CASE \E m : handleKex(f, m)
    BY <2>3, <1>1, <1>4, <1>5, Zenon
  <2> QED
    BY <2>2, <2>3, <1>4
<1> QED
  BY <1>4, <1>6, OnlyHandled

LEMMA KeyInvStep ==
    ASSUME KeyInv, [PSNext]_vars
    PROVE  KeyInv'
<1>1. PhaseStep
  BY StepOfPhases
<1>2. state' # "connected" => state # "connected" \/ isKexComplete
  BY <1>1 DEF PhaseStep, KexAgreed, LoginAsked, LoginTried, Served, UsersChanged
<1>3. isKexComplete => isKexComplete'
  BY KeyStep
<1>4. isKexComplete' <=> scoder' # Plain
  <2>1. CASE UNCHANGED <<isKexComplete, scoder>>
    BY <2>1 DEF KeyInv
  <2>2. CASE isKexComplete' = TRUE /\ scoder' # Plain
    BY <2>2
  <2> QED
    BY <2>1, <2>2, KeyStep
<1> QED
  BY <1>2, <1>3, <1>4 DEF KeyInv

LEMMA KeyInvHolds == PSSpec => []KeyInv
<1>1. PSInit => KeyInv
  <2> SUFFICES ASSUME PSInit PROVE KeyInv
    OBVIOUS
  <2>1. isKexComplete = FALSE /\ scoder = Plain /\ state = "connected"
    BY Zenon DEF PSInit
  <2> QED
    BY <2>1 DEF KeyInv
<1> QED
  BY <1>1, KeyInvStep, PTL DEF PSSpec

-----------------------------------------------------------------------------
(* What is on its way to the server. *)

\* What a call sends first.
Sends ==
    \/ /\ up' = Append(up, encode(ccoder, KexWire(calls'), <<calls', "kex">>))
       /\ cpc' = "kex"
    \/ /\ \E c \in Credentials :
             up' = Append(up, encode(ccoder, LoginWire(c), <<calls', "auth">>))
       /\ cpc' = "auth"
    \/ /\ \E text \in Requests :
             /\ up' = Append(up, encode(ccoder, UserWire(text), <<calls', "request">>))
             /\ req' = text
       /\ cpc' = "request"

\* What a step does to the client's side.
Idle ==
    /\ UNCHANGED <<calls, cpc, req, ccoder>>
    /\ UNCHANGED up \/ (up # <<>> /\ up' = Tail(up))
Ended == UNCHANGED <<up, calls>> /\ cpc' \in {"idle", "dead"}
Asked ==
    /\ UNCHANGED calls /\ cpc' = "askauth"
    /\ up' = Append(up, encode(ccoder', AuthReqWire, <<calls, "askauth">>))
Began == calls' = calls + 1 /\ UNCHANGED ccoder /\ (Sends \/ (UNCHANGED up /\ cpc' = "idle"))
Others ==
    /\ calls' = calls + 1 /\ cpc' = "other"
    /\ \E key \in {Plain, <<"other">>}, wire \in OtherFrames :
          up' = Append(up, encode(key, wire, <<calls', "other">>))

LEMMA ClientBegins ==
    ASSUME ClientCalls
    PROVE  Began
<1>1. ASSUME NEW o, Call(o) PROVE calls' = calls + 1 /\ cpc = "idle" /\ UNCHANGED ccoder
  BY <1>1 DEF Call
<1>2. ASSUME NEW wire, NEW stage, NEW text, sendOr(wire, stage, text)
      PROVE  \/ /\ up' = Append(up, encode(ccoder, wire, <<calls', stage>>))
                /\ cpc' = stage /\ req' = text
             \/ UNCHANGED <<up, cpc>>
  BY <1>2 DEF sendOr
<1>3. CASE connectRefused
  BY <1>3, <1>1 DEF connectRefused, Began
<1>4. CASE connect
  <2>1. Call("connect") /\ sendOr(KexWire(calls'), "kex", EmptyBytes)
    BY <1>4, Zenon DEF connect
  <2>2. \/ /\ up' = Append(up, encode(ccoder, KexWire(calls'), <<calls', "kex">>))
           /\ cpc' = "kex"
        \/ UNCHANGED <<up, cpc>>
    BY <2>1, Zenon DEF sendOr
  <2> QED
    BY <2>1, <2>2, <1>1, Zenon DEF Began, Sends
<1>5. CASE authenticateAs
  <2>1. PICK c \in Credentials : sendOr(LoginWire(c), "auth", EmptyBytes)
    BY <1>5, Zenon DEF authenticateAs, LoginWire
  <2>2. Call("authenticate")
    BY <1>5, Zenon DEF authenticateAs
  <2>3. \/ /\ up' = Append(up, encode(ccoder, LoginWire(c), <<calls', "auth">>))
           /\ cpc' = "auth"
        \/ UNCHANGED <<up, cpc>>
    BY <2>1, Zenon DEF sendOr
  <2> QED
    BY <2>2, <2>3, <1>1, Zenon DEF Began, Sends
<1>6. CASE fetchRequest
  <2>1. PICK text \in Requests : sendOr(UserWire(text), "request", text)
    BY <1>6, Zenon DEF fetchRequest, UserWire
  <2>2. Call("fetchRequest")
    BY <1>6, Zenon DEF fetchRequest
  <2>3. \/ /\ up' = Append(up, encode(ccoder, UserWire(text), <<calls', "request">>))
           /\ cpc' = "request" /\ req' = text
        \/ UNCHANGED <<up, cpc>>
    BY <2>1, Zenon DEF sendOr
  <2> QED
    BY <2>2, <2>3, <1>1, Zenon DEF Began, Sends
<1> QED
  BY <1>3, <1>4, <1>5, <1>6 DEF ClientCalls

LEMMA ClientSide ==
    ASSUME [PSNext]_vars
    PROVE  Idle \/ Ended \/ Asked \/ Began \/ Others
<1>1. CASE handleFrame
  BY <1>1 DEF handleFrame, clientVars, Idle
<1>2. CASE closeClient \/ UNCHANGED vars
  BY <1>2 DEF closeClient, clientVars, Idle, vars
<1>3. CASE addUser \/ delUser
  <2>1. PICK table : changeUsers(table)
    BY <1>3, Zenon DEF addUser, delUser
  <2> QED
    BY <2>1 DEF changeUsers, clientVars, Idle
<1>4. CASE timeOut \/ readEof \/ readReset
  BY <1>4 DEF timeOut, readEof, readReset, Return, Ended
<1>5. ASSUME TakeAnswer, NEW ok, NEW got, Return(ok, got) PROVE Ended
  BY <1>5 DEF TakeAnswer, Return, Ended
<1>6. CASE askAuthAnswer \/ authAnswer \/ requestAnswer
  <2>1. TakeAnswer /\ \E ok, got : Return(ok, got)
    BY <1>6, Zenon DEF askAuthAnswer, authAnswer, requestAnswer
  <2> QED
    BY <2>1, <1>5
<1>7. CASE kexAnswer
  <2>1. TakeAnswer
    BY <1>7, Zenon DEF kexAnswer
  <2>2. \/ Return(FALSE, EmptyBytes)
        \/ /\ up' = Append(up, encode(ccoder', AuthReqWire, <<calls, "askauth">>))
           /\ cpc' = "askauth"
    BY <1>7, Zenon DEF kexAnswer
  <2> QED
    BY <2>1, <2>2, <1>5 DEF TakeAnswer, Asked
<1>8. CASE ClientCalls
  BY <1>8, ClientBegins
<1>9. CASE otherFrame
  BY <1>9, Zenon DEF otherFrame, Others
<1> QED
  BY <1>1, <1>2, <1>3, <1>4, <1>6, <1>7, <1>8, <1>9 DEF PSNext, Server, ClientReads

\* A frame to the server is what the call and the stage in its tag send.
UpFrame(f) ==
    /\ f = encode(f.key, f.wire, f.tag) /\ IsWire(f.wire)
    /\ f.tag[1] \in 0..calls
    /\ f.tag[2] = "auth" => \E c \in Credentials : f.wire = LoginWire(c)
    /\ cpc = "request" /\ f.tag = <<calls, "request">>
         => f.wire = UserWire(req) /\ f.key = ccoder

UpInv ==
    /\ calls \in Nat
    /\ cpc = "request" => req \in Requests
    /\ IsSeq(up) /\ \A f \in Range(up) : UpFrame(f)

LEMMA EncodedIs ==
    ASSUME NEW key, NEW wire, NEW tag
    PROVE  LET f == encode(key, wire, tag)
           IN  /\ f = encode(f.key, f.wire, f.tag)
               /\ f.key = key /\ f.wire = wire /\ f.tag = tag /\ f.whole = whole(key, wire)
  BY DEF encode

\* A frame that was there before.
LEMMA UpFrameKept ==
    ASSUME NEW f, UpFrame(f), calls \in Nat,
           \/ calls' = calls + 1
           \/ /\ calls' = calls
              /\ cpc' = "request" => cpc = "request" /\ UNCHANGED <<req, ccoder>>
    PROVE  UpFrame(f)'
<1> DEFINE n == f.tag[1]
<1>1. n \in 0..calls'
  <2>1. n \in 0..calls
    BY DEF UpFrame
  <2> HIDE DEF n
  <2> QED
    BY <2>1
<1>2. ASSUME cpc' = "request", f.tag = <<calls', "request">>
      PROVE  f.wire = UserWire(req') /\ f.key = ccoder'
  <2>1. n = calls' /\ n \in 0..calls
    BY <1>2 DEF UpFrame
  <2> HIDE DEF n
  <2>2. calls' = calls
    BY <2>1
  <2> QED
    BY <1>2, <2>2 DEF UpFrame
<1> QED
  BY <1>1, <1>2 DEF UpFrame

\* A frame of this call that is no login and no user request.
LEMMA SentFrame ==
    ASSUME NEW e, NEW key, NEW wire, NEW stage, e = encode(key, wire, <<calls', stage>>),
           stage # "auth", stage # "request", IsWire(wire), calls' \in Nat
    PROVE  UpFrame(e)'
<1>1. PICK n : n = calls'
  OBVIOUS
<1>2. e = encode(e.key, e.wire, e.tag) /\ e.wire = wire /\ e.tag = <<n, stage>>
  BY <1>1, EncodedIs
<1>3. e.tag[1] = n /\ e.tag[2] = stage /\ n \in 0..n
  BY <1>1, <1>2
<1> QED
  BY <1>1, <1>2, <1>3 DEF UpFrame

LEMMA UpInvStep ==
    ASSUME UpInv, [PSNext]_vars
    PROVE  UpInv'
<1> DEFINE q == up
<1>1. /\ calls \in Nat /\ IsSeq(q) /\ \A f \in Range(q) : UpFrame(f)
      /\ cpc = "request" => req \in Requests
  BY DEF UpInv
<1> HIDE DEF q
<1>2. calls + 1 \in Nat /\ calls \in 0..calls /\ calls + 1 \in 0..(calls + 1)
  BY <1>1
\* A step that adds nothing, and one that adds a frame.
<1>3. ASSUME calls' \in Nat, cpc' = "request" => req' \in Requests,
             \A f \in Range(q) : UpFrame(f)', UNCHANGED up \/ (q # <<>> /\ up' = Tail(q))
      PROVE  UpInv'
  <2>1. IsSeq(up') /\ Range(up') \subseteq Range(q)
    BY <1>1, <1>3, SeqsKept DEF q
  <2> QED
    BY <1>3, <2>1 DEF UpInv
<1>4. ASSUME calls' \in Nat, cpc' = "request" => req' \in Requests,
             \A f \in Range(q) : UpFrame(f)', NEW e, up' = Append(q, e), UpFrame(e)'
      PROVE  UpInv'
  <2>1. IsSeq(up') /\ Range(up') \subseteq Range(q) \union {e}
    BY <1>1, <1>4, SeqsKept
  <2> QED
    BY <1>4, <2>1 DEF UpInv
<1>5. CASE Idle
  <2>1. \A f \in Range(q) : UpFrame(f)'
    BY <1>1, <1>5, UpFrameKept DEF Idle
  <2> QED
    BY <1>1, <1>3, <1>5, <2>1 DEF Idle, q
<1>6. CASE Ended
  <2>1. \A f \in Range(q) : UpFrame(f)'
    BY <1>1, <1>6, UpFrameKept DEF Ended
  <2> QED
    BY <1>1, <1>3, <1>6, <2>1 DEF Ended, q
<1>7. CASE Asked
  <2>1. \A f \in Range(q) : UpFrame(f)'
    BY <1>1, <1>7, UpFrameKept DEF Asked
  <2>2. PICK e, k, stage : e = encode(k, AuthReqWire, <<calls', stage>>) /\ k = ccoder'
                           /\ stage = "askauth"
    OBVIOUS
  <2>3. UpFrame(e)'
    BY <1>1, <1>7, <2>2, SentFrame, ClientWires DEF Asked
  <2>4. up' = Append(q, e)
    BY <1>7, <2>2 DEF Asked, q
  <2> QED
    BY <1>1, <1>4, <1>7, <2>1, <2>3, <2>4 DEF Asked
<1>8. CASE Others
  <2>1. \A f \in Range(q) : UpFrame(f)'
    BY <1>1, <1>8, UpFrameKept DEF Others
  <2>2. PICK key \in {Plain, <<"other">>}, wire \in OtherFrames :
          up' = Append(up, encode(key, wire, <<calls', "other">>))
    BY <1>8, Zenon DEF Others
  <2>3. PICK e, stage : e = encode(key, wire, <<calls', stage>>) /\ stage = "other"
    OBVIOUS
  <2>4. IsWire(wire) /\ calls' \in Nat
    BY <1>2, <1>8, SessionAssumption DEF Others
  <2>5. UpFrame(e)'
    BY <2>3, <2>4, SentFrame
  <2> QED
    BY <1>4, <1>8, <2>1, <2>2, <2>3, <2>4, <2>5 DEF Others, q
<1>9. CASE Began
  <2>1. (\A f \in Range(q) : UpFrame(f)') /\ calls' \in Nat
    BY <1>1, <1>2, <1>9, UpFrameKept DEF Began
  <2>2. CASE UNCHANGED up /\ cpc' = "idle"
    BY <1>3, <2>1, <2>2
  <2>3. CASE /\ up' = Append(up, encode(ccoder, KexWire(calls'), <<calls', "kex">>))
             /\ cpc' = "kex"
    <3>1. PICK e, k, stage, wire : /\ e = encode(k, wire, <<calls', stage>>)
                                   /\ k = ccoder /\ stage = "kex" /\ wire = KexWire(calls')
      OBVIOUS
    <3>2. IsWire(wire)
      BY <3>1, ClientWires
    <3>3. UpFrame(e)'
      BY <2>1, <3>1, <3>2, SentFrame
    <3> QED
      BY <1>4, <2>1, <2>3, <3>1, <3>3 DEF q
  <2>4. CASE /\ \E c \in Credentials :
                   up' = Append(up, encode(ccoder, LoginWire(c), <<calls', "auth">>))
             /\ cpc' = "auth"
    <3>1. PICK c \in Credentials :
            up' = Append(up, encode(ccoder, LoginWire(c), <<calls', "auth">>))
      BY <2>4
    <3>2. PICK e, n : e = encode(ccoder, LoginWire(c), <<calls', "auth">>) /\ n = calls'
      OBVIOUS
    <3>3. /\ e = encode(e.key, e.wire, e.tag) /\ e.wire = LoginWire(c)
          /\ e.tag = <<n, "auth">> /\ IsWire(LoginWire(c))
      BY <3>2, EncodedIs, ClientWires
    <3>4. e.tag[1] = n /\ n \in 0..n
      BY <2>1, <3>2, <3>3
    <3>5. UpFrame(e)'
      BY <2>4, <3>2, <3>3, <3>4 DEF UpFrame
    <3> QED
      BY <1>4, <2>1, <2>4, <3>1, <3>2, <3>5 DEF q
  <2>5. CASE /\ \E text \in Requests :
                   /\ up' = Append(up, encode(ccoder, UserWire(text), <<calls', "request">>))
                   /\ req' = text
             /\ cpc' = "request"
    <3>1. PICK text \in Requests :
            /\ up' = Append(up, encode(ccoder, UserWire(text), <<calls', "request">>))
            /\ req' = text
      BY <2>5
    <3>2. PICK e, n, k :
            e = encode(k, UserWire(text), <<n, "request">>) /\ n = calls' /\ k = ccoder
      OBVIOUS
    <3>3. /\ e = encode(e.key, e.wire, e.tag) /\ e.wire = UserWire(text) /\ e.key = k
          /\ e.tag = <<n, "request">> /\ IsWire(UserWire(text))
      BY <3>2, EncodedIs, ClientWires
    <3>4. e.tag[1] = n /\ e.tag[2] = "request" /\ n \in 0..n
      BY <2>1, <3>2, <3>3
    <3>5. UpFrame(e)'
      BY <1>9, <3>1, <3>2, <3>3, <3>4 DEF UpFrame, Began
    <3> QED
      BY <1>4, <2>1, <2>5, <3>1, <3>2, <3>5 DEF q
  <2> QED
    BY <1>9, <2>2, <2>3, <2>4, <2>5 DEF Began, Sends
<1> QED
  BY <1>5, <1>6, <1>7, <1>8, <1>9, ClientSide

LEMMA UpInvInit == PSInit => UpInv
<1> SUFFICES ASSUME PSInit PROVE UpInv
  OBVIOUS
<1>1. calls = 0 /\ up = <<>> /\ cpc = "idle"
  BY Zenon DEF PSInit
<1>2. IsSeq(<<>>) /\ Range(<<>>) = {}
  BY DEF IsSeq, Range
<1> QED
  BY <1>1, <1>2 DEF UpInv

-----------------------------------------------------------------------------
(* Every answer can be encoded. *)

ReplyWire(b) ==
    Serialize("ServerResponse", set("ServerResponse", New("ServerResponse"), "msg", b))

LEMMA ReplySize ==
    ASSUME NEW b, b.len \in Nat, b.len + 4 <= MaxLen
    PROVE  Encodable(ReplyWire(b))
<1>1. ReplyWire(b) = IF b = EmptyBytes THEN <<>> ELSE <<Bytes(1, b)>>
  BY UserWritten DEF UserClasses, ReplyWire
<1>2. PICK w : w = Bytes(1, b)
  OBVIOUS
<1>3. w.bytes = b /\ w.wt = "len"
  BY <1>2, FieldsAreBytes
<1>4. FieldSize(w) \in Nat /\ FieldSize(w) <= b.len + 4
  BY <1>3, FieldSizes
<1>5. WireSize(<<>>) = 0 /\ WireSize(<<w>>) = FieldSize(w)
  BY <1>3, SmallSizes
<1> QED
  BY <1>1, <1>2, <1>4, <1>5 DEF Encodable, MaxLen

LEMMA ReplyLengths ==
    /\ \A b : IsBytes(b) => Said(b).len = b.len + 10
    /\ Stupid.len = 14
  BY DEF IsBytes, Said, Stupid, Text, EmptyBytes

LEMMA EmptyIs ==
    IsBytes(EmptyBytes) /\ EmptyBytes.len = 0 /\ EmptyBytes.len \in Nat /\ EmptyBytes.utf8
  BY DEF EmptyBytes, IsBytes

\* An encrypted frame that can be opened was not cut.
LEMMA WholeFrames ==
    ASSUME NEW f, f = encode(f.key, f.wire, f.tag), f.whole, f.key # Plain
    PROVE  WireSize(f.wire) + Overhead <= MaxLen
<1>1. PICK key, wire, tag : key = f.key /\ wire = f.wire /\ tag = f.tag
  OBVIOUS
<1>2. f = encode(key, wire, tag)
  BY <1>1
<1>3. f.whole = whole(key, wire)
  <2>1. encode(key, wire, tag).whole = whole(key, wire)
    BY DEF encode
  <2> QED
    BY <1>2, <2>1, Zenon
<1> QED
  BY <1>1, <1>3 DEF whole

\* A request that was read came in an encrypted frame, whose overhead leaves room for
\* what the reply adds.
LEMMA ReplyFits ==
    ASSUME NEW f, f = encode(f.key, f.wire, f.tag), IsWire(f.wire), NEW key, key # Plain,
           NEW r \in decode(key, f, "UserRequest", New("UserRequest"))
    PROVE  Encodable(ReplyWire(userReply(r)))
<1>1. CASE ~r.ok
  BY <1>1, ReplySize, ReplyLengths DEF userReply, MaxLen
<1>2. CASE r.ok
  <2> DEFINE b == r.msg.val["msg"]
             wire == f.wire
  <2>1. r \in IF opens(key, f) THEN {ParseFromArray("UserRequest", New("UserRequest"), f.wire)}
              ELSE {[ok |-> FALSE, msg |-> New("UserRequest")]}
    BY Zenon DEF decode
  <2>2. opens(key, f) /\ r = ParseFromArray("UserRequest", New("UserRequest"), f.wire)
    BY <1>2, <2>1
  <2>3. WireSize(wire) + 32 <= 65535
    <3>1. f.key = key /\ f.whole
      BY <2>2 DEF opens
    <3>2. WireSize(f.wire) + Overhead <= MaxLen
      BY <3>1, WholeFrames
    <3> QED
      BY <3>2 DEF MaxLen, Overhead
  <2>4. wire \in Seq(Range(wire)) /\ \A i \in DOMAIN wire : IsBytes(wire[i].bytes)
    BY DEF IsWire
  <2>5. b = EmptyBytes \/ \E i \in DOMAIN wire : wire[i].wt = "len" /\ b = wire[i].bytes
    BY <2>2, <2>4, UserParsed DEF UserClasses
  <2>6. WireSize(wire) \in Nat /\ \A i \in DOMAIN wire : FieldSize(wire[i]) <= WireSize(wire)
    BY SizesAdd
  <2> HIDE DEF b, wire
  <2>7. IsBytes(b) /\ b.len \in Nat /\ b.len + 14 <= 65535
    <3>1. CASE b = EmptyBytes
      BY <3>1, EmptyIs
    <3>2. ASSUME NEW i \in DOMAIN wire, wire[i].wt = "len", b = wire[i].bytes
          PROVE  IsBytes(b) /\ b.len \in Nat /\ b.len + 14 <= 65535
      <4>1. PICK w : w = wire[i]
        OBVIOUS
      <4>2. IsBytes(b) /\ w.bytes.len \in Nat /\ b = w.bytes
        BY <2>4, <3>2, <4>1 DEF IsBytes
      <4>3. /\ FieldSize(w) \in Nat /\ w.bytes.len + 2 <= FieldSize(w)
            /\ FieldSize(w) <= WireSize(wire)
        BY <2>6, <3>2, <4>1, <4>2, FieldSizes
      <4>4. PICK x, y, z : x = w.bytes.len /\ y = FieldSize(w) /\ z = WireSize(wire)
        OBVIOUS
      <4>5. x \in Nat /\ x + 14 <= 65535
        BY <2>3, <2>6, <4>2, <4>3, <4>4
      <4> QED
        BY <4>2, <4>4, <4>5
    <3> QED
      BY <2>5, <3>1, <3>2
  <2>8. PICK s : s = Said(b)
    OBVIOUS
  <2>9. s.len = b.len + 10
    BY <2>7, <2>8, ReplyLengths
  <2>10. s.len \in Nat /\ s.len + 4 <= MaxLen
    BY <2>7, <2>9 DEF MaxLen
  <2>11. userReply(r) = s
    BY <1>2, <2>8 DEF userReply, b
  <2> QED
    BY <2>10, <2>11, ReplySize
<1> QED
  BY <1>1, <1>2

LEMMA SurvivesStep ==
    ASSUME KeyInv, UpInv, WorkerSurvives, [PSNext]_vars
    PROVE  WorkerSurvives'
<1>1. CASE ~handleFrame
  BY <1>1, OnlyHandled DEF handlerVars, WorkerSurvives
<1>2. CASE handleFrame
  <2>1. PICK f : f = Head(up)
    OBVIOUS
  <2>2. UNCHANGED authVars /\ (connectedFrame(f) \/ authFrame(f) \/ userFrame(f))
    BY <1>2, <2>1, Zenon DEF handleFrame
  <2>3. UpFrame(f)
    <3>1. up # <<>>
      BY <1>2 DEF handleFrame
    <3> QED
      BY <2>1, <3>1, SeqsKept DEF UpInv
  <2>4. CASE connectedFrame(f)
    BY <2>2, <2>4, ConnectedStep DEF KexAgreed, LoginAsked, phaseVars, WorkerSurvives
  <2>5. CASE authFrame(f)
    BY <2>2, <2>5, LoginStep DEF LoginTried, WorkerSurvives
  <2>6. CASE userFrame(f)
    <3>1. PICK r \in decode(scoder, f, "UserRequest", New("UserRequest")) :
            state' = IF Encodable(ReplyWire(userReply(r))) THEN state ELSE "terminated"
      BY <2>6, Zenon DEF userFrame, ReplyWire
    <3>2. scoder # Plain
      BY <2>6 DEF userFrame, KeyInv
    <3>3. Encodable(ReplyWire(userReply(r)))
      BY <2>3, <3>2, ReplyFits DEF UpFrame
    <3> QED
      BY <3>1, <3>3 DEF WorkerSurvives
  <2> QED
    BY <2>2, <2>4, <2>5, <2>6
<1> QED
  BY <1>1, <1>2

LEMMA UpInvHolds == PSSpec => []UpInv
  BY UpInvInit, UpInvStep, PTL DEF PSSpec

\* No request makes an answer that cannot be encoded, whatever its length: the service
\* begins after the key exchange, and what an encrypted frame can carry is shorter by
\* its overhead than what a plain one can, by more than the echo adds.
THEOREM WorkersSurvive == PSSpec => []WorkerSurvives
<1>1. PSInit => WorkerSurvives
  <2> SUFFICES ASSUME PSInit PROVE WorkerSurvives
    OBVIOUS
  <2>1. state = "connected"
    BY Zenon DEF PSInit
  <2> QED
    BY <2>1 DEF WorkerSurvives
<1> QED
  BY <1>1, SurvivesStep, KeyInvHolds, UpInvHolds, PTL DEF PSSpec

\* PhasesRespected: every step of handlers, client and user table is a step of
\* SessionPhases: a key first, then a login with at most Attempts + 1 refusals, and
\* service only for somebody who presented credentials that the table accepted.
THEOREM PhasesInOrder == PSSpec => PhasesRespected
BY PhasesWhileServing, WorkersSurvive, PTL

-----------------------------------------------------------------------------
(* What the server sends. *)

LEMMA WiresSent ==
    /\ \A s : FirstOnly(ConnectedResp(s)) /\ FirstOnly(AuthResp(s))
    /\ \A b : FirstOnly(ReplyWire(b))
    /\ \A s, k : IsSeq(KexResp(s, k))
    /\ NotOne(ConnectedResp("REQUEST_ERROR")) /\ NotOne(ConnectedResp("DECODE_ERROR"))
    /\ \A k : NotOne(KexResp("REQUEST_ERROR", k))
    /\ \A s \in {"AUTH_CONTINUE", "AUTH_REJECT", "INVALID_REQUEST", "DECODE_ERROR"} :
         NotOne(AuthResp(s))
<1>1. ASSUME NEW n, NEW wire \in Seq({Varint(1, n)})
      PROVE  FirstOnly(wire) /\ (n # 1 => NotOne(wire))
  <2>1. PICK w : w = Varint(1, n)
    OBVIOUS
  <2>2. w.num = 1 /\ w.n = n
    BY <2>1, FieldsAreBytes
  <2>3. wire \in Seq(Range(wire)) /\ \A i \in DOMAIN wire : wire[i] = w
    BY <2>1, WireOf
  <2> QED
    BY <2>2, <2>3 DEF FirstOnly, NotOne
<1>2. ASSUME NEW s
      PROVE  /\ ConnectedResp(s) \in Seq({Varint(1, ConnectedStatus[s])})
             /\ AuthResp(s) \in Seq({Varint(1, AuthStatus[s])})
  BY StatusIn, Zenon DEF ConnectedResp, AuthResp, Status
<1>3. ASSUME NEW s, NEW k
      PROVE  KexResp(s, k) \in Seq({Varint(1, ConnectedStatus[s]), Bytes(2, SerializeKex(k))})
  <2> DEFINE C == "ServerConnectedStateResponse"
             v == ConnectedStatus[s]
  <2>1. Serialize(C, WithKex(C, set(C, New(C), "status", v), k))
          \in Seq({Varint(1, v), Bytes(2, SerializeKex(k))})
    BY WithKexIn
  <2> QED
    BY <2>1, Zenon DEF KexResp
<1>4. \A b : FirstOnly(ReplyWire(b))
  <2> TAKE b
  <2>1. ReplyWire(b) = IF b = EmptyBytes THEN <<>> ELSE <<Bytes(1, b)>>
    BY UserWritten DEF UserClasses, ReplyWire
  <2>2. PICK w : w = Bytes(1, b)
    OBVIOUS
  <2>3. w.num = 1
    BY <2>2, FieldsAreBytes
  <2>4. <<>> \in Seq({w}) /\ <<w>> \in Seq({w})
    OBVIOUS
  <2>5. PICK wire : wire = ReplyWire(b)
    OBVIOUS
  <2>6. wire \in Seq({w})
    BY <2>1, <2>2, <2>4, <2>5
  <2>7. wire \in Seq(Range(wire)) /\ \A i \in DOMAIN wire : wire[i] = w
    BY <2>6, WireOf
  <2> QED
    BY <2>3, <2>5, <2>7 DEF FirstOnly
<1>5. ASSUME NEW k PROVE NotOne(KexResp("REQUEST_ERROR", k))
  <2>1. PICK w, x, wire : /\ w = Varint(1, 3) /\ x = Bytes(2, SerializeKex(k))
                          /\ wire = KexResp("REQUEST_ERROR", k)
    OBVIOUS
  <2>2. ConnectedStatus["REQUEST_ERROR"] = 3
    BY DEF ConnectedStatus
  <2>3. wire \in Seq({w, x})
    BY <1>3, <2>1, <2>2
  <2>4. w.n = 3 /\ x.num = 2
    BY <2>1, FieldsAreBytes
  <2>5. wire \in Seq(Range(wire)) /\ \A i \in DOMAIN wire : wire[i] \in {w, x}
    BY <2>3, WireOf
  <2>6. NotOne(wire)
    BY <2>4, <2>5 DEF NotOne
  <2> QED
    BY <2>1, <2>6
<1>6. \A s, k : IsSeq(KexResp(s, k))
  <2> TAKE s, k
  <2>1. PICK S, wire :
          wire = KexResp(s, k) /\ S = {Varint(1, ConnectedStatus[s]), Bytes(2, SerializeKex(k))}
    OBVIOUS
  <2>2. wire \in Seq(S)
    BY <1>3, <2>1
  <2> QED
    BY <2>1, <2>2, SeqsAre
<1>7. \A s : FirstOnly(ConnectedResp(s)) /\ FirstOnly(AuthResp(s))
  BY <1>1, <1>2
<1>8. /\ ConnectedStatus["REQUEST_ERROR"] # 1 /\ ConnectedStatus["DECODE_ERROR"] # 1
      /\ \A s \in {"AUTH_CONTINUE", "AUTH_REJECT", "INVALID_REQUEST", "DECODE_ERROR"} :
           AuthStatus[s] # 1
  BY DEF ConnectedStatus, AuthStatus
<1>9. NotOne(ConnectedResp("REQUEST_ERROR")) /\ NotOne(ConnectedResp("DECODE_ERROR"))
  BY <1>1, <1>2, <1>8
<1>10. \A s \in {"AUTH_CONTINUE", "AUTH_REJECT", "INVALID_REQUEST", "DECODE_ERROR"} :
         NotOne(AuthResp(s))
  BY <1>1, <1>2, <1>8
<1> QED
  BY <1>4, <1>5, <1>6, <1>7, <1>9, <1>10

\* All that is new on the way to the client is a message of S, with this tag.
SendsOf(S, tag) ==
    /\ IsSeq(down')
    /\ \A g \in Range(down') : g \in Range(down) \/ \E w \in S : g = encode(scoder, w, tag)

LEMMA SentAnswers ==
    ASSUME IsSeq(down), NEW tag
    PROVE  /\ UNCHANGED down => SendsOf({}, tag)
           /\ \A w : respond(<<w>>, tag) => SendsOf({w}, tag)
           /\ \A v, w : respond(<<v>> \o <<w>>, tag) => SendsOf({v, w}, tag)
           /\ \A w : respond(<<>> \o <<w>>, tag) => SendsOf({w}, tag)
<1>1. \A w : IsSeq(<<w>>) /\ Range(<<w>>) = {w}
  BY DEF IsSeq, Range
<1>2. \A v, w : <<v>> \o <<w>> = <<v, w>> /\ <<>> \o <<w>> = <<w>>
  <2> TAKE v, w
  <2>1. <<>> \o <<w>> = <<w>>
    OBVIOUS
  <2>2. PICK s : s = <<v>> \o <<w>>
    OBVIOUS
  <2>3. s \in Seq({v, w}) /\ Len(s) = 2 /\ s[1] = v /\ s[2] = w
    BY <2>2
  <2>4. s = <<v, w>>
    BY <2>3
  <2> QED
    BY <2>1, <2>2, <2>4
<1>3. \A v, w : IsSeq(<<v, w>>) /\ Range(<<v, w>>) = {v, w}
  BY DEF IsSeq, Range
<1>4. ASSUME NEW w, respond(<<w>>, tag) PROVE SendsOf({w}, tag)
  <2>1. PICK s : s = <<w>>
    OBVIOUS
  <2>2. IsSeq(s) /\ Range(s) = {w} /\ respond(s, tag)
    BY <1>1, <1>4, <2>1
  <2> QED
    BY <2>2, Responded DEF SendsOf
<1>5. ASSUME NEW v, NEW w, respond(<<v, w>>, tag) PROVE SendsOf({v, w}, tag)
  <2>1. PICK s : s = <<v, w>>
    OBVIOUS
  <2>2. IsSeq(s) /\ Range(s) = {v, w} /\ respond(s, tag)
    BY <1>3, <1>5, <2>1
  <2> QED
    BY <2>2, Responded DEF SendsOf
<1>6. UNCHANGED down => SendsOf({}, tag)
  BY DEF SendsOf
<1> QED
  BY <1>2, <1>4, <1>5, <1>6

\* Does the message ask for a login?
AsksLogin(m) == m.val["type"] = RequestType.REQUEST_AUTH

ConnectedRequest(key, f) ==
    decode(key, f, "ClientConnectedStateRequest", New("ClientConnectedStateRequest"))

\* What the first phase answers, and to what.
LEMMA ConnectedAnswers ==
    ASSUME IsSeq(down), NEW f, connectedFrame(f)
    PROVE  \/ SendsOf({}, f.tag)
           \/ SendsOf({ConnectedResp("REQUEST_ERROR")}, f.tag)
           \/ SendsOf({ConnectedResp("DECODE_ERROR")}, f.tag)
           \/ ~isKexComplete /\ \E k : SendsOf({KexResp("REQUEST_ERROR", k)}, f.tag)
           \/ ~isKexComplete /\ \E k : SendsOf({KexResp("OK", k)}, f.tag)
           \/ /\ \E r \in ConnectedRequest(scoder, f) : r.ok /\ AsksLogin(r.msg)
              /\ SendsOf({ConnectedResp("OK")}, f.tag)
<1>1. PICK r \in ConnectedRequest(scoder, f) :
        \/ respond(<<ConnectedResp("DECODE_ERROR")>>, f.tag)
        \/ r.ok /\ r.msg.val["type"] = RequestType.REQUEST_KEX /\ handleKex(f, r.msg)
        \/ r.ok /\ r.msg.val["type"] = RequestType.REQUEST_AUTH /\ handleAuthRequest(f)
        \/ UNCHANGED <<down, handlerVars>>
  BY Zenon DEF connectedFrame, ConnectedRequest
<1>2. UNCHANGED <<down, handlerVars>> => UNCHANGED down
  OBVIOUS
<1>3. CASE r.ok /\ r.msg.val["type"] = RequestType.REQUEST_KEX /\ handleKex(f, r.msg)
  <2>1. \/ respond(<<ConnectedResp("REQUEST_ERROR")>>, f.tag)
        \/ /\ ~isKexComplete
           /\ \E k : respond(<<KexResp("REQUEST_ERROR", k)>>, f.tag)
        \/ /\ ~isKexComplete
           /\ \E k : respond(<<KexResp("OK", k)>>, f.tag)
    BY <1>3, Zenon DEF handleKex
  <2> QED
    BY <1>3, <2>1, SentAnswers, Zenon
<1>4. CASE r.ok /\ r.msg.val["type"] = RequestType.REQUEST_AUTH /\ handleAuthRequest(f)
  <2>1. \/ respond(<<ConnectedResp("REQUEST_ERROR")>>, f.tag)
        \/ respond(<<ConnectedResp("OK")>>, f.tag)
    BY <1>4, Zenon DEF handleAuthRequest
  <2> QED
    BY <1>4, <2>1, SentAnswers, Zenon DEF AsksLogin
<1> QED
  BY <1>1, <1>2, <1>3, <1>4, SentAnswers, Zenon

\* What the authentication answers: acceptance only with the change of state.
LEMMA AuthAnswers ==
    ASSUME IsSeq(down), NEW f, authFrame(f)
    PROVE  \E s \in DOMAIN AuthStatus :
             /\ SendsOf({AuthResp("DECODE_ERROR"), AuthResp(s)}, f.tag)
             /\ \/ s \in {"AUTH_CONTINUE", "AUTH_REJECT", "INVALID_REQUEST", "DECODE_ERROR"}
                \/ state' = FinalState
<1>1. PICK r \in decode(scoder, f, "ClientAuthRequest", areq) :
        \/ doAuth(r.msg, IF r.ok THEN <<>> ELSE <<AuthResp("DECODE_ERROR")>>, f.tag)
        \/ otherAuthRequest(IF r.ok THEN <<>> ELSE <<AuthResp("DECODE_ERROR")>>, f.tag)
  BY Zenon DEF authFrame
<1>2. PICK before : before = IF r.ok THEN <<>> ELSE <<AuthResp("DECODE_ERROR")>>
  OBVIOUS
<1>3. \/ respond(before \o <<AuthResp("AUTH_ACCEPT")>>, f.tag) /\ state' = FinalState
      \/ respond(before \o <<AuthResp("AUTH_CONTINUE")>>, f.tag)
      \/ respond(before \o <<AuthResp("AUTH_REJECT")>>, f.tag)
      \/ respond(before \o <<AuthResp("INVALID_REQUEST")>>, f.tag)
  BY <1>1, <1>2, Zenon DEF doAuth, otherAuthRequest
<1>4. ASSUME NEW s, respond(before \o <<AuthResp(s)>>, f.tag)
      PROVE  SendsOf({AuthResp("DECODE_ERROR"), AuthResp(s)}, f.tag)
  <2>1. PICK v, w : v = AuthResp("DECODE_ERROR") /\ w = AuthResp(s)
    OBVIOUS
  <2>2. respond(<<>> \o <<w>>, f.tag) \/ respond(<<v>> \o <<w>>, f.tag)
    BY <1>2, <1>4, <2>1, Zenon
  <2>3. SendsOf({w}, f.tag) \/ SendsOf({v, w}, f.tag)
    BY <2>2, SentAnswers, Zenon
  <2>4. SendsOf({v, w}, f.tag)
    BY <2>3 DEF SendsOf
  <2> QED
    BY <2>1, <2>4, Zenon
<1>5. {"AUTH_ACCEPT", "AUTH_CONTINUE", "AUTH_REJECT", "INVALID_REQUEST", "DECODE_ERROR"}
        \subseteq DOMAIN AuthStatus
  BY DEF AuthStatus
<1>6. CASE respond(before \o <<AuthResp("AUTH_ACCEPT")>>, f.tag) /\ state' = FinalState
  BY <1>4, <1>5, <1>6
<1>7. CASE respond(before \o <<AuthResp("AUTH_CONTINUE")>>, f.tag)
  BY <1>4, <1>5, <1>7
<1>8. CASE respond(before \o <<AuthResp("AUTH_REJECT")>>, f.tag)
  BY <1>4, <1>5, <1>8
<1>9. CASE respond(before \o <<AuthResp("INVALID_REQUEST")>>, f.tag)
  BY <1>4, <1>5, <1>9
<1> QED
  BY <1>3, <1>6, <1>7, <1>8, <1>9

LEMMA UserAnswers ==
    ASSUME IsSeq(down), NEW f, userFrame(f)
    PROVE  \E r \in decode(scoder, f, "UserRequest", New("UserRequest")) :
             SendsOf({ReplyWire(userReply(r))}, f.tag)
<1>1. \E r \in decode(scoder, f, "UserRequest", New("UserRequest")) :
        respond(<<ReplyWire(userReply(r))>>, f.tag)
  BY Zenon DEF userFrame, ReplyWire
<1> QED
  BY <1>1, SentAnswers, Zenon

\* A frame to the client: plain, or with the server's key and then without a key
\* exchange in it.
DownFrame(f) ==
    /\ f = encode(f.key, f.wire, f.tag) /\ IsSeq(f.wire)
    /\ f.key = Plain \/ (f.key = scoder /\ FirstOnly(f.wire))

DownInv == IsSeq(down) /\ \A f \in Range(down) : DownFrame(f)

LEMMA FirstOnlyIsSeq == \A wire : FirstOnly(wire) => IsSeq(wire)
  BY DEF FirstOnly, IsSeq

LEMMA HandledDown ==
    ASSUME DownInv, KeyInv, handleFrame, NEW e \in Range(down'), e \notin Range(down)
    PROVE  \E w : /\ e = encode(scoder, w, Head(up).tag)
                  /\ IsSeq(w) /\ (scoder = Plain \/ FirstOnly(w))
<1>1. PICK f : f = Head(up)
  OBVIOUS
<1>2. connectedFrame(f) \/ authFrame(f) \/ userFrame(f)
  BY <1>1, Zenon DEF handleFrame
<1>3. IsSeq(down)
  BY DEF DownInv
<1>4. ASSUME NEW S, SendsOf(S, f.tag), \A w \in S : IsSeq(w) /\ (scoder = Plain \/ FirstOnly(w))
      PROVE  \E w : e = encode(scoder, w, f.tag) /\ IsSeq(w) /\ (scoder = Plain \/ FirstOnly(w))
  BY <1>4 DEF SendsOf
<1>5. ASSUME NEW w, FirstOnly(w), SendsOf({w}, f.tag)
      PROVE  \E x : e = encode(scoder, x, f.tag) /\ IsSeq(x) /\ (scoder = Plain \/ FirstOnly(x))
  BY <1>4, <1>5, FirstOnlyIsSeq
<1>6. CASE connectedFrame(f)
  <2>1. ASSUME NEW s, NEW k, ~isKexComplete, SendsOf({KexResp(s, k)}, f.tag)
        PROVE  \E x : /\ e = encode(scoder, x, f.tag)
                      /\ IsSeq(x) /\ (scoder = Plain \/ FirstOnly(x))
    <3>1. scoder = Plain
      BY <2>1 DEF KeyInv
    <3> QED
      BY <1>4, <2>1, <3>1, WiresSent
  <2>2. CASE SendsOf({}, f.tag)
    BY <1>1, <1>4, <2>2
  <2>3. CASE \E s : SendsOf({ConnectedResp(s)}, f.tag)
    BY <1>1, <1>5, <2>3, WiresSent
  <2>4. \/ SendsOf({}, f.tag)
        \/ \E s : SendsOf({ConnectedResp(s)}, f.tag)
        \/ ~isKexComplete /\ \E s, k : SendsOf({KexResp(s, k)}, f.tag)
    BY <1>3, <1>6, ConnectedAnswers, Zenon
  <2> QED
    BY <1>1, <2>1, <2>2, <2>3, <2>4
<1>7. CASE authFrame(f)
  <2>1. PICK s : SendsOf({AuthResp("DECODE_ERROR"), AuthResp(s)}, f.tag)
    BY <1>3, <1>7, AuthAnswers
  <2>2. PICK v, w : v = AuthResp("DECODE_ERROR") /\ w = AuthResp(s)
    OBVIOUS
  <2>3. FirstOnly(v) /\ FirstOnly(w) /\ SendsOf({v, w}, f.tag)
    BY <2>1, <2>2, WiresSent
  <2> QED
    BY <1>1, <1>4, <2>3, FirstOnlyIsSeq
<1>8. CASE userFrame(f)
  <2>1. PICK b : SendsOf({ReplyWire(b)}, f.tag)
    BY <1>3, <1>8, UserAnswers
  <2> QED
    BY <1>1, <1>5, <2>1, WiresSent
<1> QED
  BY <1>2, <1>6, <1>7, <1>8

\* Whatever else happens adds nothing on the way to the client.
LEMMA DownTaken ==
    ASSUME IsSeq(down), [PSNext]_vars, ~handleFrame
    PROVE  IsSeq(down') /\ Range(down') \subseteq Range(down)
<1> DEFINE q == down
<1>1. CASE down' = q
  BY <1>1
<1>2. CASE down' = <<>>
  <2>1. IsSeq(<<>>) /\ Range(<<>>) = {}
    BY DEF IsSeq, Range
  <2> QED
    BY <1>2, <2>1
<1>3. CASE q # <<>> /\ down' = Tail(q)
  BY <1>3, SeqsKept
<1>4. CASE \E k \in 0..Len(q) : down' = SubSeq(q, 1, k)
  BY <1>4, SeqsKept
<1>5. ClientReads => (TakeAnswer /\ down # <<>>) \/ readEof \/ readReset
  BY Zenon DEF ClientReads, kexAnswer, askAuthAnswer, authAnswer, requestAnswer, Fetched
<1>6. ClientCalls => \E o : Call(o)
  BY Zenon DEF ClientCalls, connect, connectRefused, authenticateAs, fetchRequest
<1>7. addUser \/ delUser => \E table : changeUsers(table)
  BY Zenon DEF addUser, delUser
<1>8. \/ down' = q \/ down' = <<>> \/ (q # <<>> /\ down' = Tail(q))
      \/ \E k \in 0..Len(q) : down' = SubSeq(q, 1, k)
  <2>1. (\E o : Call(o)) \/ (\E table : changeUsers(table)) \/ timeOut \/ readEof => down' = down
    BY Zenon DEF Call, changeUsers, timeOut, readEof
  <2>2. readReset \/ otherFrame => down' = <<>>
    BY Zenon DEF readReset, otherFrame
  <2>3. closeClient => \E k \in 0..Len(q) : down' = SubSeq(q, 1, k)
    BY Zenon DEF closeClient
  <2>4. UNCHANGED vars => down' = down
    BY DEF vars
  <2>5. TakeAnswer => down' = Tail(down)
    BY Zenon DEF TakeAnswer
  <2> QED
    BY <1>5, <1>6, <1>7, <2>1, <2>2, <2>3, <2>4, <2>5, Zenon DEF PSNext, Server
<1> QED
  BY <1>1, <1>2, <1>3, <1>4, <1>8

LEMMA DownInvStep ==
    ASSUME DownInv, KeyInv, [PSNext]_vars
    PROVE  DownInv'
<1>1. ASSUME NEW f, DownFrame(f) PROVE DownFrame(f)'
  <2>1. f = encode(f.key, f.wire, f.tag) /\ IsSeq(f.wire)
    BY <1>1 DEF DownFrame
  <2>2. f.key = Plain \/ (f.key = scoder' /\ FirstOnly(f.wire))
    BY <1>1, KeyStep DEF DownFrame, KeyInv
  <2> QED
    BY <2>1, <2>2 DEF DownFrame
<1>2. CASE ~handleFrame
  BY <1>1, <1>2, DownTaken DEF DownInv
<1>3. CASE handleFrame
  <2>1. IsSeq(down')
    <3>1. PICK f : connectedFrame(f) \/ authFrame(f) \/ userFrame(f)
      BY <1>3, Zenon DEF handleFrame
    <3>2. IsSeq(down)
      BY DEF DownInv
    <3>3. \E S : SendsOf(S, f.tag)
      BY <3>1, <3>2, ConnectedAnswers, AuthAnswers, UserAnswers, Zenon
    <3> QED
      BY <3>3 DEF SendsOf
  <2>2. ASSUME NEW e \in Range(down') PROVE DownFrame(e)'
    <3>1. CASE e \in Range(down)
      BY <1>1, <3>1 DEF DownInv
    <3>2. CASE e \notin Range(down)
      <4>1. PICK w, tag : /\ e = encode(scoder, w, tag)
                          /\ IsSeq(w) /\ (scoder = Plain \/ FirstOnly(w))
        BY <1>3, <2>2, <3>2, HandledDown
      <4>2. e = encode(e.key, e.wire, e.tag) /\ e.key = scoder /\ e.wire = w
        BY <4>1, EncodedIs
      <4>3. DownFrame(e)
        BY <4>1, <4>2 DEF DownFrame
      <4> QED
        BY <1>1, <4>3
    <3> QED
      BY <3>1, <3>2
  <2> QED
    BY <2>1, <2>2 DEF DownInv
<1> QED
  BY <1>2, <1>3

LEMMA DownInvInit == PSInit => DownInv
<1> SUFFICES ASSUME PSInit PROVE DownInv
  OBVIOUS
<1>1. down = <<>>
  BY Zenon DEF PSInit
<1>2. IsSeq(<<>>) /\ Range(<<>>) = {}
  BY DEF IsSeq, Range
<1> QED
  BY <1>1, <1>2 DEF DownInv

LEMMA DownInvHolds == PSSpec => []DownInv
  BY DownInvInit, DownInvStep, KeyInvHolds, PTL DEF PSSpec

-----------------------------------------------------------------------------
(* Both ends have the same key. *)

Same == scoder # Plain /\ ccoder = scoder

KeysInv == (cpc = "askauth" => ccoder # Plain) /\ (connected => Same)

\* What a client with a key has read was encrypted with it.
LEMMA Opened ==
    ASSUME NEW key, key # Plain, NEW f, NEW C, NEW m, NEW r \in decode(key, f, C, m), r.ok
    PROVE  f.key = key /\ f.whole /\ r = ParseFromArray(C, m, f.wire)
<1>1. r \in IF opens(key, f) THEN {ParseFromArray(C, m, f.wire)} ELSE {[ok |-> FALSE, msg |-> m]}
  BY Zenon DEF decode
<1>2. [ok |-> FALSE, msg |-> m].ok = FALSE
  OBVIOUS
<1>3. opens(key, f) /\ r = ParseFromArray(C, m, f.wire)
  BY <1>1, <1>2, Zenon
<1> QED
  BY <1>3 DEF opens

\* Once the keys agree, a late answer to a key exchange is not taken for one.
LEMMA NoSecondKey ==
    ASSUME DownInv, Same, kexAnswer
    PROVE  UNCHANGED ccoder /\ cpc' = "idle"
<1> DEFINE C == "ServerConnectedStateResponse"
<1>1. PICK r \in Fetched("kex", C) :
        \/ r.ok /\ has(C, r.msg, "kex")
        \/ Return(FALSE, EmptyBytes) /\ UNCHANGED ccoder
  BY Zenon DEF kexAnswer
<1>2. PICK f : f = Head(down)
  OBVIOUS
<1>3. down # <<>> /\ r \in decode(ccoder, f, C, New(C))
  BY <1>1, <1>2, Zenon DEF Fetched
<1>4. DownFrame(f)
  BY <1>2, <1>3, SeqsKept DEF DownInv
<1>5. ASSUME r.ok PROVE ~has(C, r.msg, "kex")
  <2>1. PICK D : D = C
    OBVIOUS
  <2>2. f.key = ccoder /\ r = ParseFromArray(D, New(D), f.wire)
    <3>1. r \in decode(ccoder, f, D, New(D)) /\ ccoder # Plain
      BY <1>3, <2>1 DEF Same
    <3> HIDE DEF C
    <3> QED
      BY <1>5, <3>1, Opened
  <2>3. FirstOnly(f.wire)
    BY <1>4, <2>2 DEF DownFrame, Same
  <2> QED
    BY <2>1, <2>2, <2>3, FirstOnlyParsed
<1> QED
  BY <1>1, <1>5 DEF Return

\* The key of the client changes only when a key exchange is answered.
LEMMA ClientKeys ==
    ASSUME [PSNext]_vars
    PROVE  \/ kexAnswer \/ askAuthAnswer
           \/ UNCHANGED <<ccoder, connected>> /\ (cpc' = "askauth" => cpc = "askauth")
<1>1. CASE handleFrame \/ closeClient
  BY <1>1 DEF handleFrame, closeClient, clientVars, noteVars
<1>2. CASE \E table : changeUsers(table)
  BY <1>2 DEF changeUsers, clientVars, noteVars
<1>3. CASE authAnswer \/ requestAnswer \/ timeOut \/ readEof \/ readReset
  BY <1>3, Zenon DEF authAnswer, requestAnswer, timeOut, readEof, readReset, Return, noteVars
<1>4. CASE ClientCalls
  <2>1. PICK o : Call(o)
    BY <1>4, Zenon DEF ClientCalls, connect, connectRefused, authenticateAs, fetchRequest
  <2>2. cpc' # "askauth"
    BY <1>4, ClientBegins DEF Began, Sends
  <2> QED
    BY <2>1, <2>2 DEF Call
<1>5. CASE otherFrame
  BY <1>5 DEF otherFrame, noteVars
<1>6. CASE UNCHANGED vars
  BY <1>6 DEF vars, clientVars, noteVars
<1>7. addUser \/ delUser => \E table : changeUsers(table)
  BY Zenon DEF addUser, delUser
<1> QED
  BY <1>1, <1>2, <1>3, <1>4, <1>5, <1>6, <1>7 DEF PSNext, Server, ClientReads

\* Once the two ends have the same key they keep it.
LEMMA SameKept ==
    ASSUME KeyInv, DownInv, Same, [PSNext]_vars
    PROVE  Same'
<1>1. scoder' = scoder
  BY KeyStep DEF Same, KeyInv
<1>2. ccoder' = ccoder
  <2>1. askAuthAnswer => UNCHANGED ccoder
    BY Zenon DEF askAuthAnswer
  <2> QED
    BY <2>1, ClientKeys, NoSecondKey
<1> QED
  BY <1>1, <1>2 DEF Same

LEMMA KeysInvStep ==
    ASSUME KeyInv, DownInv, KeysInv, [PSNext]_vars
    PROVE  KeysInv'
<1>1. ASSUME Same PROVE Same'
  BY <1>1, SameKept
<1>2. CASE UNCHANGED <<ccoder, connected>> /\ (cpc' = "askauth" => cpc = "askauth")
  BY <1>1, <1>2 DEF KeysInv
<1>3. CASE kexAnswer
  <2>1. UNCHANGED connected
    BY <1>3, Zenon DEF kexAnswer
  <2>2. cpc' = "askauth" => ccoder' # Plain
    <3>1. \/ \E text : ccoder' = <<text>>
          \/ Return(FALSE, EmptyBytes)
      BY <1>3, Zenon DEF kexAnswer
    <3> QED
      BY <3>1 DEF Plain, Return
  <2> QED
    BY <1>1, <2>1, <2>2 DEF KeysInv
<1>4. CASE askAuthAnswer
  <2> DEFINE C == "ServerConnectedStateResponse"
  <2>1. PICK r \in Fetched("askauth", C) :
          /\ connected' = (connected \/ (r.ok /\ r.msg.val["status"] = ConnectedStatus.OK))
          /\ cpc' = "idle" /\ UNCHANGED ccoder
    BY <1>4, Zenon DEF askAuthAnswer, Return
  <2>2. PICK f : f = Head(down)
    OBVIOUS
  <2>3. down # <<>> /\ r \in decode(ccoder, f, C, New(C)) /\ cpc = "askauth"
    BY <2>1, <2>2, Zenon DEF Fetched
  <2>4. ASSUME r.ok PROVE Same
    <3>1. PICK D : D = C
      OBVIOUS
    <3>2. r \in decode(ccoder, f, D, New(D)) /\ ccoder # Plain
      BY <2>3, <3>1 DEF KeysInv
    <3>3. f.key = ccoder
      BY <2>4, <3>2, Opened
    <3>4. DownFrame(f)
      BY <2>2, <2>3, SeqsKept DEF DownInv
    <3> QED
      BY <3>2, <3>3, <3>4 DEF DownFrame, Same
  <2> HIDE DEF C
  <2> QED
    BY <1>1, <2>1, <2>4 DEF KeysInv
<1> QED
  BY <1>2, <1>3, <1>4, ClientKeys

LEMMA KeysInvHolds == PSSpec => []KeysInv
<1>1. PSInit => KeysInv
  <2> SUFFICES ASSUME PSInit PROVE KeysInv
    OBVIOUS
  <2>1. cpc = "idle" /\ connected = FALSE
    BY Zenon DEF PSInit
  <2> QED
    BY <2>1 DEF KeysInv
<1> QED
  BY <1>1, KeysInvStep, KeyInvHolds, DownInvHolds, PTL DEF PSSpec

\* Once connect has returned TRUE both ends use one key, whatever was answered late:
\* the server agrees on a key once, what it encrypts holds no key exchange, and what
\* the client reads with its own key was encrypted with it.
THEOREM KeysStayAgreed == PSSpec => []KeysAgree
<1>1. KeysInv => KeysAgree
  BY DEF KeysInv, Same, KeysAgree
<1> QED
  BY <1>1, KeysInvHolds, PTL

-----------------------------------------------------------------------------
(* The key exchange comes first. *)

\* A key exchange that nobody has answered.
Offer(f) == f.key = Plain /\ f.tag[2] = "kex" /\ \E n : f.wire = KexWire(n)

\* The client has sent nothing, or the other end is no Client, or the key exchange is
\* what the server reads next.
Silent == ~isConnected /\ conn_open /\ cpc = "idle" /\ ccoder = Plain /\ up = <<>>
Strange == ~isConnected /\ cpc = "other" /\ \A f \in Range(up) : f.tag[2] # "auth"
Offered == up # <<>> /\ Offer(Head(up))

KeyFirst == isKexComplete \/ Silent \/ Strange \/ Offered

\* What is added comes last.
LEMMA UpGrows ==
    ASSUME [PSNext]_vars, ~handleFrame
    PROVE  UNCHANGED up \/ \E e : up' = Append(up, e)
<1>1. CASE closeClient \/ timeOut \/ readEof \/ readReset \/ UNCHANGED vars
  BY <1>1 DEF closeClient, timeOut, readEof, readReset, Return, vars
<1>2. CASE addUser \/ delUser
  <2>1. PICK table : changeUsers(table)
    BY <1>2, Zenon DEF addUser, delUser
  <2> QED
    BY <2>1 DEF changeUsers
<1>3. CASE askAuthAnswer \/ authAnswer \/ requestAnswer
  <2>1. \E ok, got : Return(ok, got)
    BY <1>3, Zenon DEF askAuthAnswer, authAnswer, requestAnswer
  <2> QED
    BY <2>1 DEF Return
<1>4. CASE kexAnswer
  <2>1. Return(FALSE, EmptyBytes) \/ \E e : up' = Append(up, e)
    BY <1>4, Zenon DEF kexAnswer
  <2> QED
    BY <2>1 DEF Return
<1>5. CASE ClientCalls
  <2>1. Began
    BY <1>5, ClientBegins
  <2> QED
    BY <2>1, Zenon DEF Began, Sends
<1>6. CASE otherFrame
  BY <1>6, Zenon DEF otherFrame
<1> QED
  BY <1>1, <1>2, <1>3, <1>4, <1>5, <1>6 DEF PSNext, Server, ClientReads

\* A public key has 32 bytes that are not taken for text.
LEMMA KeyIsBinary ==
    ASSUME NEW owner, NEW b, b = PublicKey(owner)
    PROVE  b.len = 32 /\ b.utf8 = FALSE
<1> DEFINE t == Text(owner, 32)
<1>1. b = [t EXCEPT !.utf8 = FALSE]
  BY DEF PublicKey, Binary
<1>2. t = [len |-> 32, utf8 |-> TRUE, text |-> owner, parses |-> FALSE, sub |-> <<>>]
  BY DEF Text
<1> HIDE DEF t
<1> QED
  BY <1>1, <1>2

\* The server accepts a key exchange that it reads first.
LEMMA OfferAccepted ==
    ASSUME KeyInv, KeyInv', ~isKexComplete, NEW f, Offer(f),
           connectedFrame(f) \/ authFrame(f) \/ userFrame(f)
    PROVE  isKexComplete'
<1> DEFINE C == "ClientConnectedStateRequest"
<1>1. scoder = Plain /\ state = "connected"
  BY DEF KeyInv
<1>2. connectedFrame(f)
  BY <1>1 DEF authFrame, userFrame
<1>3. PICK b : b = PublicKey(b.text) /\ f.wire = OfferFields(b)
  <2>1. PICK n : f.wire = KexWire(n)
    BY DEF Offer
  <2>2. PICK b : b = PublicKey(ToString(n))
    OBVIOUS
  <2>3. f.wire = OfferFields(b)
    BY <2>1, <2>2, OfferWritten, Zenon
  <2>4. b = PublicKey(b.text)
    BY <2>2 DEF PublicKey, Binary, Text
  <2> QED
    BY <2>3, <2>4
<1>4. PICK p : p = ParseFromArray(C, New(C), OfferFields(b))
  OBVIOUS
<1>5. /\ p.ok /\ p.msg.val["type"] = RequestType.REQUEST_KEX /\ has(C, p.msg, "kex")
      /\ get(C, p.msg, "kex").val["alg"] = KexAlg.KEX_ECDH
      /\ get(C, p.msg, "kex").val["pkey"] = b
  BY <1>4, OfferRead
<1>6. decode(scoder, f, C, New(C)) = {p}
  BY <1>1, <1>3, <1>4 DEF decode, Offer
<1>7. RequestType.REQUEST_KEX # RequestType.REQUEST_AUTH
  BY DEF RequestType
<1>8. handleKex(f, p.msg)
  <2>1. PICK r \in decode(scoder, f, C, New(C)) :
          \/ ~r.ok
          \/ r.ok /\ r.msg.val["type"] = RequestType.REQUEST_KEX /\ handleKex(f, r.msg)
          \/ r.msg.val["type"] = RequestType.REQUEST_AUTH
          \/ r.msg.val["type"] \notin {RequestType.REQUEST_KEX, RequestType.REQUEST_AUTH}
    BY <1>2, Zenon DEF connectedFrame
  <2>2. r = p
    BY <1>6, <2>1
  <2> QED
    BY <1>5, <1>7, <2>1, <2>2, Zenon
<1>9. IsPublicKey(b) /\ agree(b)
  <2>1. b.len = 32 /\ b.utf8 = FALSE
    BY <1>3, KeyIsBinary
  <2>2. LowOrder.utf8 = TRUE
    BY DEF LowOrder, Text
  <2> QED
    BY <2>1, <2>2 DEF IsPublicKey, agree
<1> QED
  BY <1>5, <1>8, <1>9, Zenon DEF handleKex

LEMMA OfferSent ==
    ASSUME NEW n
    PROVE  /\ Encodable(KexWire(n))
           /\ Offer(encode(Plain, KexWire(n), <<n, "kex">>))
<1>1. PICK b : b = PublicKey(ToString(n))
  OBVIOUS
<1>2. IsBytes(b) /\ IsPublicKey(b)
  BY <1>1 DEF PublicKey, Binary, Text, IsPublicKey, IsBytes, EmptyBytes
<1>3. Encodable(OfferFields(b))
  BY <1>2, OfferFits
<1>4. KexWire(n) = OfferFields(b)
  BY <1>1, OfferWritten, Zenon
<1>5. PICK f, key, wire, tag :
        f = encode(key, wire, tag) /\ key = Plain /\ wire = KexWire(n) /\ tag = <<n, "kex">>
  OBVIOUS
<1>6. f.key = key /\ f.wire = wire /\ f.tag = tag
  BY <1>5, EncodedIs
<1>7. f.tag[2] = "kex"
  BY <1>5, <1>6
<1>8. Offer(f)
  BY <1>5, <1>6, <1>7 DEF Offer
<1> QED
  BY <1>3, <1>4, <1>5, <1>8

\* The first message of a client is its key exchange.
LEMMA SilentCalls ==
    ASSUME Silent, ClientCalls
    PROVE  Silent' \/ Offered'
<1>1. ASSUME NEW o, Call(o) PROVE UNCHANGED <<ccoder, conn_open>>
  BY <1>1 DEF Call
<1>2. CASE connectRefused
  BY <1>1, <1>2 DEF connectRefused, Silent
<1>3. CASE authenticateAs \/ fetchRequest
  BY <1>3 DEF authenticateAs, fetchRequest, Silent
<1>4. CASE connect
  <2>1. PICK n : n = calls'
    OBVIOUS
  <2>2. sendOr(KexWire(calls'), "kex", EmptyBytes)
    BY <1>4 DEF connect
  <2>3. Sent(KexWire(n))
    BY <2>1, OfferSent DEF Sent, Silent
  <2>4. up' = Append(up, encode(ccoder, KexWire(calls'), <<calls', "kex">>))
    BY <2>1, <2>2, <2>3, Zenon DEF sendOr
  <2>5. PICK e : e = encode(Plain, KexWire(n), <<n, "kex">>)
    OBVIOUS
  <2>6. up' = Append(<<>>, e) /\ Offer(e)
    BY <2>1, <2>4, <2>5, OfferSent DEF Silent
  <2>7. up' # <<>> /\ Head(up') = e
    BY <2>6
  <2> QED
    BY <2>6, <2>7 DEF Offered, Offer
<1> QED
  BY <1>2, <1>3, <1>4 DEF ClientCalls

LEMMA StrangeBegins ==
    ASSUME ~isConnected, otherFrame
    PROVE  Strange'
<1>1. PICK key \in {Plain, <<"other">>}, wire \in OtherFrames :
        up' = Append(up, encode(key, wire, <<calls', "other">>))
  BY Zenon DEF otherFrame
<1>2. PICK e, tag, n : e = encode(key, wire, tag) /\ tag = <<n, "other">> /\ n = calls'
  OBVIOUS
<1>3. e.tag = tag
  BY <1>2, EncodedIs
<1>4. e.tag[2] = "other"
  BY <1>2, <1>3
<1>5. up = <<>> /\ cpc' = "other" /\ UNCHANGED isConnected
  BY DEF otherFrame
<1>6. up' = <<e>>
  BY <1>1, <1>2, <1>5
<1>7. Range(<<e>>) = {e}
  BY DEF Range
<1> QED
  BY <1>4, <1>5, <1>6, <1>7 DEF Strange

LEMMA KeyFirstStep ==
    ASSUME KeyInv, KeyInv', UpInv, KeyFirst, [PSNext]_vars
    PROVE  KeyFirst'
<1>1. CASE isKexComplete
  BY <1>1, KeyStep DEF KeyFirst
<1> SUFFICES ASSUME ~isKexComplete PROVE KeyFirst'
  BY <1>1
<1>2. state = "connected"
  BY DEF KeyInv
<1>3. CASE Offered
  <2>1. PICK q : q = up
    OBVIOUS
  <2>2. q # <<>> /\ IsSeq(q) /\ Offer(Head(q))
    BY <1>3, <2>1 DEF Offered, UpInv
  <2>3. CASE handleFrame
    <3>1. PICK f : f = Head(up)
      OBVIOUS
    <3>2. connectedFrame(f) \/ authFrame(f) \/ userFrame(f)
      BY <2>3, <3>1, Zenon DEF handleFrame
    <3>3. Offer(f)
      BY <2>1, <2>2, <3>1
    <3> QED
      BY <3>2, <3>3, OfferAccepted DEF KeyFirst
  <2>4. CASE ~handleFrame
    <3>1. up' = q \/ \E e : up' = Append(q, e)
      BY <2>1, <2>4, UpGrows
    <3>2. \A e : Append(q, e) # <<>> /\ Head(Append(q, e)) = Head(q)
      BY <2>2 DEF IsSeq
    <3>3. up' # <<>> /\ Head(up') = Head(q)
      BY <2>2, <3>1, <3>2
    <3> QED
      BY <2>2, <3>3 DEF KeyFirst, Offered, Offer
  <2> QED
    BY <2>3, <2>4
<1>4. CASE Silent \/ Strange
  <2>1. ~isConnected /\ cpc \in {"idle", "other"} /\ ~Waiting
    BY <1>4 DEF Silent, Strange, Waiting
  <2>2. ~closeClient /\ ~timeOut /\ ~readEof /\ ~readReset
    BY <1>2, <2>1 DEF closeClient, timeOut, readEof, readReset
  <2>3. ASSUME NEW C
        PROVE  /\ Fetched("kex", C) = {} /\ Fetched("askauth", C) = {}
               /\ Fetched("auth", C) = {} /\ Fetched("request", C) = {}
    BY <2>1 DEF Fetched
  <2>4. ~kexAnswer /\ ~askAuthAnswer /\ ~authAnswer /\ ~requestAnswer
    BY <2>3, Zenon DEF kexAnswer, askAuthAnswer, authAnswer, requestAnswer
  <2>5. CASE otherFrame
    BY <2>1, <2>5, StrangeBegins DEF KeyFirst
  <2>6. CASE ClientCalls
    <3>1. cpc = "idle"
      <4>1. \E o : Call(o)
        BY <2>6, Zenon DEF ClientCalls, connect, connectRefused, authenticateAs, fetchRequest
      <4> QED
        BY <4>1 DEF Call
    <3>2. Silent
      BY <1>4, <3>1 DEF Strange
    <3> QED
      BY <2>6, <3>2, SilentCalls DEF KeyFirst
  <2>7. CASE UNCHANGED <<clientVars, up>>
    BY <1>4, <2>7 DEF clientVars, Silent, Strange, KeyFirst
  <2>8. CASE handleFrame
    <3>1. UNCHANGED clientVars /\ up # <<>> /\ up' = Tail(up)
      BY <2>8 DEF handleFrame
    <3>2. Strange
      BY <1>4, <3>1 DEF Silent
    <3>3. Range(up') \subseteq Range(up)
      BY <3>1, SeqsKept DEF UpInv
    <3>4. Strange'
      BY <3>1, <3>2, <3>3 DEF Strange, clientVars
    <3> QED
      BY <3>4 DEF KeyFirst
  <2>9. addUser \/ delUser => UNCHANGED <<clientVars, up>>
    <3>1. addUser \/ delUser => \E table : changeUsers(table)
      BY Zenon DEF addUser, delUser
    <3>2. \A table : changeUsers(table) => UNCHANGED <<clientVars, up>>
      BY DEF changeUsers
    <3> QED
      BY <3>1, <3>2
  <2>10. UNCHANGED vars => UNCHANGED <<clientVars, up>>
    BY DEF vars
  <2> QED
    BY <2>2, <2>4, <2>5, <2>6, <2>7, <2>8, <2>9, <2>10 DEF PSNext, Server, ClientReads
<1> QED
  BY <1>3, <1>4 DEF KeyFirst

LEMMA KeyFirstHolds == PSSpec => []KeyFirst
<1>1. PSInit => KeyFirst
  <2> SUFFICES ASSUME PSInit PROVE KeyFirst
    OBVIOUS
  <2>1. isConnected = FALSE /\ conn_open = TRUE /\ cpc = "idle" /\ ccoder = Plain /\ up = <<>>
    BY Zenon DEF PSInit
  <2> QED
    BY <2>1 DEF KeyFirst, Silent
<1> QED
  BY <1>1, KeyFirstStep, KeyInvHolds, UpInvHolds, PTL DEF PSSpec

-----------------------------------------------------------------------------
(* Who is told that it is authenticated. *)

Accepted == state = "user" \/ (state = "null" /\ finalStateFactory # "test")

LEMMA ClearedValues ==
    /\ Clear("ClientConnectedStateRequest", New("ClientConnectedStateRequest")).val["type"] = 0
    /\ Clear("ServerAuthResponse", New("ServerAuthResponse")).val["status"] = 0
<1>1. /\ Class["ClientConnectedStateRequest"].members = ClientConnectedStateRequest
      /\ Class["ClientConnectedStateRequest"].clear = ClientConnectedStateRequest_Clear
  BY DEF Class, ClientConnectedStateRequest_class, Of
<1>2. Clear("ClientConnectedStateRequest", New("ClientConnectedStateRequest")).val["type"] = 0
  BY <1>1 DEF Clear, ClearWith, ClientConnectedStateRequest, ClientConnectedStateRequest_Clear,
              Members, TypeOf, Default, None
<1> QED
  BY <1>2, ClearedObjects

\* A message read as what it is not: of ciphertext a plain coder makes nothing.
LEMMA Decoded ==
    ASSUME NEW key, NEW f, NEW C, NEW m, NEW r \in decode(key, f, C, m), r.ok
    PROVE  \/ f.key = key /\ r = ParseFromArray(C, m, f.wire)
           \/ r.msg = Clear(C, m)
<1>1. CASE key # Plain
  BY <1>1, Opened
<1>2. CASE key = Plain /\ f.key = Plain
  BY <1>2 DEF decode
<1>3. CASE key = Plain /\ f.key # Plain
  BY <1>3 DEF decode
<1> QED
  BY <1>1, <1>2, <1>3

\* A login that arrives in the first phase does not ask for the second.
LEMMA LoginRefused ==
    ASSUME NEW key, NEW f, NEW c, f.wire = LoginWire(c),
           NEW r \in ConnectedRequest(key, f), r.ok
    PROVE  ~AsksLogin(r.msg)
<1> DEFINE C == "ClientConnectedStateRequest"
<1>1. r = ParseFromArray(C, New(C), LoginWire(c)) \/ r.msg = Clear(C, New(C))
  BY Decoded DEF ConnectedRequest
<1>2. RequestType.REQUEST_KEX = 1 /\ RequestType.REQUEST_AUTH = 2
  BY DEF RequestType
<1>3. CASE r.msg = Clear(C, New(C))
  BY <1>2, <1>3, ClearedValues DEF AsksLogin
<1>4. CASE r = ParseFromArray(C, New(C), LoginWire(c))
  <2>1. r.msg.val["type"] = RequestType.REQUEST_KEX
    BY <1>4, LoginAsRequest, Zenon
  <2> QED
    BY <1>2, <2>1 DEF AsksLogin
<1> QED
  BY <1>1, <1>3, <1>4

\* An acceptance that was read was sent, with the key that it was read with.
LEMMA AcceptRead ==
    ASSUME NEW key, NEW f,
           NEW r \in decode(key, f, "ServerAuthResponse", New("ServerAuthResponse")),
           r.ok, r.msg.val["status"] = AuthStatus.AUTH_ACCEPT
    PROVE  f.key = key /\ ~NotOne(f.wire)
<1> DEFINE C == "ServerAuthResponse"
<1>1. r.msg.val["status"] = 1
  BY DEF AuthStatus
<1>2. r.msg # Clear(C, New(C))
  BY <1>1, ClearedValues
<1>3. f.key = key /\ r = ParseFromArray(C, New(C), f.wire)
  BY <1>2, Decoded
<1> QED
  BY <1>1, <1>3, NotOneParsed

LEMMA FactoryKept ==
    ASSUME [PSNext]_vars
    PROVE  UNCHANGED finalStateFactory
<1>1. UNCHANGED handlerVars => UNCHANGED finalStateFactory
  BY DEF handlerVars
<1>2. ASSUME NEW f, connectedFrame(f) PROVE UNCHANGED finalStateFactory
  <2>1. (\E m : handleKex(f, m)) \/ handleAuthRequest(f) \/ UNCHANGED handlerVars
    BY <1>2, Zenon DEF connectedFrame, handlerVars
  <2>2. (\E m : handleKex(f, m)) => UNCHANGED finalStateFactory \/ UNCHANGED handlerVars
    BY DEF handleKex
  <2>3. handleAuthRequest(f) => UNCHANGED finalStateFactory \/ UNCHANGED handlerVars
    BY DEF handleAuthRequest
  <2> QED
    BY <1>1, <2>1, <2>2, <2>3, Zenon
<1>3. ASSUME NEW f, authFrame(f) \/ userFrame(f) PROVE UNCHANGED finalStateFactory
  BY <1>3 DEF authFrame, userFrame
<1>4. handleFrame => \E f : connectedFrame(f) \/ authFrame(f) \/ userFrame(f)
  BY Zenon DEF handleFrame
<1> QED
  BY <1>1, <1>2, <1>3, <1>4, OnlyHandled

LEMMA AcceptedKept ==
    ASSUME WorkerSurvives', Accepted, [PSNext]_vars
    PROVE  Accepted'
<1>1. PhaseStep
  BY StepOfPhases
<1>2. state = "user" => state' = "user"
  BY <1>1 DEF PhaseStep, KexAgreed, LoginAsked, LoginTried, Served, UsersChanged, WorkerSurvives
<1>3. state = "null" => state' = "null"
  BY <1>1 DEF PhaseStep, KexAgreed, LoginAsked, LoginTried, Served, UsersChanged
<1> QED
  BY <1>2, <1>3, FactoryKept DEF Accepted

LEMMA AuthIsRead ==
    ASSUME [PSNext]_vars
    PROVE  (authAnswer \/ UNCHANGED isAuthenticated) /\ (crossed => crossed')
<1>1. CASE handleFrame \/ closeClient
  BY <1>1 DEF handleFrame, closeClient, clientVars, noteVars
<1>2. CASE \E table : changeUsers(table)
  BY <1>2 DEF changeUsers, clientVars, noteVars
<1>3. CASE ClientReads
  <2>1. authAnswer \/ UNCHANGED isAuthenticated
    BY <1>3, Zenon DEF ClientReads, kexAnswer, askAuthAnswer, authAnswer, requestAnswer,
                       readEof, readReset
  <2>2. TakeAnswer \/ readEof \/ readReset
    BY <1>3, Zenon DEF ClientReads, kexAnswer, askAuthAnswer, authAnswer, requestAnswer
  <2>3. crossed => crossed'
    BY <2>2 DEF TakeAnswer, readEof, readReset, noteVars
  <2> QED
    BY <2>1, <2>3
<1>4. CASE \E o : Call(o)
  BY <1>4 DEF Call
<1>5. CASE otherFrame \/ timeOut
  <2>1. UNCHANGED isAuthenticated
    BY <1>5, Zenon DEF otherFrame, timeOut
  <2>2. UNCHANGED crossed \/ UNCHANGED noteVars
    BY <1>5, Zenon DEF otherFrame, timeOut
  <2> QED
    BY <2>1, <2>2 DEF noteVars
<1>6. CASE UNCHANGED vars
  BY <1>6 DEF vars, clientVars, noteVars
<1>7. addUser \/ delUser => \E table : changeUsers(table)
  BY Zenon DEF addUser, delUser
<1>8. ClientCalls => \E o : Call(o)
  BY Zenon DEF ClientCalls, connect, connectRefused, authenticateAs, fetchRequest
<1> QED
  BY <1>1, <1>2, <1>3, <1>4, <1>5, <1>6, <1>7, <1>8, Zenon DEF PSNext, Server

\* An answer to a login says something else than AUTH_ACCEPT, or the login was
\* accepted and the answer is encrypted.
Verdicts ==
    \A f \in Range(down) : f.tag[2] = "auth" => NotOne(f.wire) \/ (Accepted /\ f.key # Plain)

AcceptInv == Verdicts /\ (isAuthenticated = "true" /\ ~crossed => Accepted /\ Same)

LEMMA HandledVerdicts ==
    ASSUME KeyInv, KeyFirst, UpInv, DownInv, WorkerSurvives', Verdicts, [PSNext]_vars,
           handleFrame
    PROVE  Verdicts'
<1> SUFFICES ASSUME NEW e \in Range(down'), e.tag[2] = "auth"
             PROVE  NotOne(e.wire) \/ (Accepted' /\ e.key # Plain)
  BY DEF Verdicts
<1>1. CASE e \in Range(down)
  BY <1>1, AcceptedKept DEF Verdicts
<1>2. CASE e \notin Range(down)
  <2>1. PICK f : f = Head(up)
    OBVIOUS
  <2>2. connectedFrame(f) \/ authFrame(f) \/ userFrame(f)
    BY <2>1, Zenon DEF handleFrame
  <2>3. up # <<>> /\ IsSeq(down)
    BY DEF handleFrame, DownInv
  <2>4. UpFrame(f)
    BY <2>1, <2>3, SeqsKept DEF UpInv
  <2>5. ASSUME NEW S, SendsOf(S, f.tag)
        PROVE  /\ e.tag = f.tag /\ e.key = scoder
               /\ \E w \in S : e.wire = w
    <3>1. PICK w \in S : e = encode(scoder, w, f.tag)
      BY <1>2, <2>5 DEF SendsOf
    <3> QED
      BY <3>1, EncodedIs
  <2>6. ASSUME NEW w, NotOne(w), SendsOf({w}, f.tag) PROVE NotOne(e.wire)
    BY <2>5, <2>6
  <2>7. CASE connectedFrame(f)
    <3>1. CASE SendsOf({}, f.tag)
      BY <2>5, <3>1
    <3>2. CASE SendsOf({ConnectedResp("REQUEST_ERROR")}, f.tag)
      BY <2>6, <3>2, WiresSent
    <3>3. CASE SendsOf({ConnectedResp("DECODE_ERROR")}, f.tag)
      BY <2>6, <3>3, WiresSent
    <3>4. CASE \E k : SendsOf({KexResp("REQUEST_ERROR", k)}, f.tag)
      BY <2>6, <3>4, WiresSent
    <3>5. ASSUME NEW S, SendsOf(S, f.tag) PROVE isKexComplete
      <4>1. f.tag[2] = "auth" /\ f \in Range(up)
        BY <2>1, <2>3, <2>5, <3>5, SeqsKept DEF UpInv
      <4> QED
        BY <2>1, <2>3, <4>1 DEF KeyFirst, Silent, Strange, Offered, Offer
    <3>6. ASSUME NEW S, SendsOf(S, f.tag), NEW r \in ConnectedRequest(scoder, f), r.ok
          PROVE  ~AsksLogin(r.msg)
      <4>1. f.tag[2] = "auth"
        BY <2>5, <3>6
      <4>2. PICK c \in Credentials : f.wire = LoginWire(c)
        BY <2>4, <4>1 DEF UpFrame
      <4> QED
        BY <3>6, <4>2, LoginRefused
    <3> QED
      BY <2>3, <2>7, <3>1, <3>2, <3>3, <3>4, <3>5, <3>6, ConnectedAnswers, Zenon
  <2>8. CASE authFrame(f)
    <3>1. PICK s : /\ SendsOf({AuthResp("DECODE_ERROR"), AuthResp(s)}, f.tag)
                   /\ \/ s \in {"AUTH_CONTINUE", "AUTH_REJECT", "INVALID_REQUEST",
                                "DECODE_ERROR"}
                      \/ state' = FinalState
      BY <2>3, <2>8, AuthAnswers
    <3>2. e.key = scoder /\ (e.wire = AuthResp("DECODE_ERROR") \/ e.wire = AuthResp(s))
      BY <2>5, <3>1
    <3>3. CASE s \in {"AUTH_CONTINUE", "AUTH_REJECT", "INVALID_REQUEST", "DECODE_ERROR"}
      <4>1. NotOne(AuthResp("DECODE_ERROR")) /\ NotOne(AuthResp(s))
        BY <3>3, WiresSent
      <4> QED
        BY <3>2, <4>1
    <3>4. CASE state' = FinalState
      <4>1. Accepted'
        BY <3>4, FactoryKept DEF FinalState, Accepted
      <4>2. scoder # Plain
        BY <2>8 DEF authFrame, KeyInv
      <4> QED
        BY <3>2, <4>1, <4>2
    <3> QED
      BY <3>1, <3>3, <3>4
  <2>9. CASE userFrame(f)
    <3>1. state = "user"
      BY <2>9 DEF userFrame
    <3>2. Accepted' /\ scoder # Plain
      BY <3>1, AcceptedKept DEF Accepted, KeyInv
    <3>3. \E S : SendsOf(S, f.tag)
      BY <2>3, <2>9, UserAnswers
    <3> QED
      BY <2>5, <3>2, <3>3
  <2> QED
    BY <2>2, <2>7, <2>8, <2>9
<1> QED
  BY <1>1, <1>2

LEMMA AcceptInvStep ==
    ASSUME KeyInv, KeyFirst, UpInv, DownInv, WorkerSurvives', AcceptInv, [PSNext]_vars
    PROVE  AcceptInv'
<1>1. Verdicts'
  <2>1. CASE handleFrame
    BY <2>1, HandledVerdicts DEF AcceptInv
  <2>2. CASE ~handleFrame
    <3>1. Range(down') \subseteq Range(down)
      BY <2>2, DownTaken DEF DownInv
    <3> QED
      BY <3>1, AcceptedKept DEF AcceptInv, Verdicts
  <2> QED
    BY <2>1, <2>2
<1>2. ASSUME Accepted, Same PROVE Accepted' /\ Same'
  BY <1>2, AcceptedKept, SameKept
<1>3. ASSUME isAuthenticated' = "true", ~crossed' PROVE Accepted /\ Same
  <2>1. CASE UNCHANGED isAuthenticated
    BY <1>3, <2>1, AuthIsRead DEF AcceptInv
  <2>2. CASE authAnswer /\ isAuthenticated # "true"
    <3> DEFINE C == "ServerAuthResponse"
    <3>1. PICK r \in Fetched("auth", C) :
            /\ TakeAnswer
            /\ isAuthenticated' = IF r.ok /\ r.msg.val["status"] = AuthStatus.AUTH_ACCEPT
                                  THEN "true" ELSE isAuthenticated
      BY <2>2, Zenon DEF authAnswer
    <3>2. PICK f : f = Head(down)
      OBVIOUS
    <3>3. r.ok /\ r.msg.val["status"] = AuthStatus.AUTH_ACCEPT
      BY <1>3, <2>2, <3>1
    <3>4. cpc = "auth" /\ down # <<>> /\ r \in decode(ccoder, f, C, New(C))
      BY <3>1, <3>2, Zenon DEF Fetched
    <3>5. f.tag = <<calls, cpc>>
      BY <1>3, <3>1, <3>2 DEF TakeAnswer
    <3>6. f.key = ccoder /\ ~NotOne(f.wire)
      BY <3>3, <3>4, AcceptRead
    <3>7. f \in Range(down) /\ f.tag[2] = "auth"
      BY <3>2, <3>4, <3>5, SeqsKept DEF DownInv
    <3>8. Accepted /\ f.key # Plain /\ DownFrame(f)
      BY <3>6, <3>7 DEF AcceptInv, Verdicts, DownInv
    <3> QED
      BY <3>6, <3>8 DEF DownFrame, Same
  <2>3. CASE isAuthenticated = "true"
    BY <1>3, <2>3, AuthIsRead DEF AcceptInv
  <2> QED
    BY <2>1, <2>2, <2>3, AuthIsRead
<1> QED
  BY <1>1, <1>2, <1>3 DEF AcceptInv

LEMMA AcceptInvHolds == PSSpec => []AcceptInv
<1>1. PSInit => AcceptInv
  <2> SUFFICES ASSUME PSInit PROVE AcceptInv
    OBVIOUS
  <2>1. down = <<>> /\ isAuthenticated = "uninitialised"
    BY Zenon DEF PSInit
  <2>2. Range(<<>>) = {}
    BY DEF Range
  <2> QED
    BY <2>1, <2>2 DEF AcceptInv, Verdicts
<1>2. KeyInv /\ KeyFirst /\ UpInv /\ DownInv /\ WorkerSurvives' /\ AcceptInv /\ [PSNext]_vars
      => AcceptInv'
  BY AcceptInvStep
<1> QED
  BY <1>1, <1>2, KeyInvHolds, KeyFirstHolds, UpInvHolds, DownInvHolds, WorkersSurvive,
     PTL DEF PSSpec

\* A client whose authenticate succeeded was accepted, unless it read the answer to
\* another request: the server says AUTH_ACCEPT to a login when it accepts it and at no
\* other time, and a login does not find it before the key exchange, whose OK has the
\* same number.
THEOREM AcceptedWhenTold == PSSpec => []AuthenticatedMeansAccepted
<1>1. AcceptInv => AuthenticatedMeansAccepted
  BY DEF AcceptInv, Accepted, AuthenticatedMeansAccepted
<1> QED
  BY <1>1, AcceptInvHolds, PTL

-----------------------------------------------------------------------------
(* The echo. *)

\* What a request is to be answered with.
Echo(b) == IF b.utf8 /\ b.len + 4 + Overhead <= MaxLen THEN Said(b) ELSE Stupid

LEMMA UserSizes ==
    ASSUME NEW b, IsBytes(b)
    PROVE  /\ b.len + 4 + Overhead <= MaxLen => WireSize(UserWire(b)) + Overhead <= MaxLen
           /\ WireSize(UserWire(b)) + Overhead <= MaxLen => b.len + 4 + Overhead <= MaxLen
<1>1. UserWire(b) = IF b = EmptyBytes THEN <<>> ELSE <<Bytes(1, b)>>
  BY UserWritten DEF UserClasses, UserWire
<1>2. PICK w, len : w = Bytes(1, b) /\ len = b.len
  OBVIOUS
<1>3. w.bytes = b /\ w.wt = "len" /\ len \in Nat /\ w.bytes.len \in Nat
  BY <1>2, FieldsAreBytes DEF IsBytes
<1>4. FieldSize(w) \in Nat /\ FieldSize(w) <= len + 4
  BY <1>2, <1>3, FieldSizes
<1>5. len >= 16384 => FieldSize(w) = len + 4
  BY <1>2, <1>3 DEF FieldSize, VarintSize
<1>6. WireSize(<<>>) = 0 /\ WireSize(<<w>>) = FieldSize(w)
  BY <1>3, SmallSizes
<1>7. PICK size : size = FieldSize(w)
  OBVIOUS
<1>8. CASE b = EmptyBytes
  <2>1. WireSize(UserWire(b)) = 0 /\ b.len = 0
    BY <1>1, <1>6, <1>8, EmptyIs
  <2> QED
    BY <2>1 DEF Overhead, MaxLen
<1>9. CASE b # EmptyBytes
  <2>1. WireSize(UserWire(b)) = size
    BY <1>1, <1>2, <1>6, <1>7, <1>9
  <2>2. size \in Nat /\ size <= len + 4 /\ (len >= 16384 => size = len + 4)
    BY <1>4, <1>5, <1>7
  <2>3. /\ len + 4 + 32 <= 65535 => size + 32 <= 65535
        /\ size + 32 <= 65535 => len + 4 + 32 <= 65535
    BY <1>3, <2>2
  <2> QED
    BY <1>2, <2>1, <2>3 DEF Overhead, MaxLen
<1> QED
  BY <1>8, <1>9

\* The service replies to a request of its own client with the echo.
LEMMA EchoMade ==
    ASSUME NEW b, IsBytes(b), NEW key, key # Plain,
           NEW f, f = encode(f.key, f.wire, f.tag), f.key = key, f.wire = UserWire(b),
           NEW r \in decode(key, f, "UserRequest", New("UserRequest"))
    PROVE  userReply(r) = Echo(b)
<1> DEFINE C == "UserRequest"
<1>1. LET p == ParseFromArray(C, New(C), UserWire(b))
      IN  p.msg.val["msg"] = b /\ (p.ok => b.utf8) /\ (b.utf8 => p.ok)
  BY UserRead DEF UserClasses, UserWire
<1>2. r.ok => f.whole /\ r = ParseFromArray(C, New(C), f.wire)
  BY Opened
<1>3. f.whole => r = ParseFromArray(C, New(C), f.wire)
  BY DEF decode, opens
<1>4. f.whole => WireSize(f.wire) + Overhead <= MaxLen
  BY WholeFrames
<1>5. WireSize(f.wire) + Overhead <= MaxLen => f.whole
  <2>1. PICK k, wire, tag : k = f.key /\ wire = f.wire /\ tag = f.tag
    OBVIOUS
  <2>2. encode(k, wire, tag).whole = whole(k, wire)
    BY DEF encode
  <2>3. f.whole = whole(k, wire)
    BY <2>1, <2>2, Zenon
  <2> QED
    BY <2>1, <2>3 DEF whole
<1>6. r.ok => b.utf8 /\ b.len + 4 + Overhead <= MaxLen
  BY <1>1, <1>2, <1>4, UserSizes
<1>7. b.utf8 /\ b.len + 4 + Overhead <= MaxLen => r.ok
  BY <1>1, <1>3, <1>5, UserSizes
<1>8. r.ok => r.msg.val["msg"] = b
  BY <1>1, <1>2
<1>9. CASE r.ok
  BY <1>6, <1>8, <1>9, Zenon DEF userReply, Echo
<1>10. CASE ~r.ok
  BY <1>7, <1>10, Zenon DEF userReply, Echo
<1> QED
  BY <1>9, <1>10

\* A reply is read as it was written.
LEMMA ReplyRead ==
    ASSUME NEW b, NEW key, key # Plain, NEW f, f.wire = ReplyWire(b),
           NEW r \in decode(key, f, "ServerResponse", New("ServerResponse")), r.ok
    PROVE  r.msg.val["msg"] = b
<1> DEFINE C == "ServerResponse"
<1>1. ParseFromArray(C, New(C), ReplyWire(b)).msg.val["msg"] = b
  BY UserRead DEF UserClasses, ReplyWire
<1>2. r = ParseFromArray(C, New(C), f.wire)
  BY Opened
<1> QED
  BY <1>1, <1>2

\* An answer to the request that the client waits for is its echo.
Echoes ==
    /\ \A f \in Range(down) : f.tag[1] \in 0..calls
    /\ isAuthenticated = "true" /\ ~crossed /\ cpc = "request" =>
         \A f \in Range(down) : f.tag = <<calls, "request">> => f.wire = ReplyWire(Echo(req))

EchoInv == Echoes /\ EchoIsOwn

\* When a request is answered, its text and what makes the client wait for it stand.
LEMMA WaitKept ==
    ASSUME [PSNext]_vars, cpc' = "request"
    PROVE  \/ calls' = calls + 1
           \/ UNCHANGED <<calls, cpc, req, isAuthenticated>>
<1>1. CASE handleFrame \/ closeClient
  BY <1>1 DEF handleFrame, closeClient, clientVars
<1>2. CASE \E table : changeUsers(table)
  BY <1>2 DEF changeUsers, clientVars
<1>3. ~(timeOut \/ readEof \/ readReset \/ otherFrame)
  BY DEF timeOut, readEof, readReset, otherFrame, Return
<1>4. ~(kexAnswer \/ askAuthAnswer \/ authAnswer \/ requestAnswer)
  <2>1. \A ok, got : ~Return(ok, got)
    BY DEF Return
  <2> QED
    BY <2>1, Zenon DEF kexAnswer, askAuthAnswer, authAnswer, requestAnswer
<1>5. CASE ClientCalls
  BY <1>5, ClientBegins DEF Began
<1>6. CASE UNCHANGED vars
  BY <1>6 DEF vars, clientVars
<1>7. addUser \/ delUser => \E table : changeUsers(table)
  BY Zenon DEF addUser, delUser
<1> QED
  BY <1>1, <1>2, <1>3, <1>4, <1>5, <1>6, <1>7 DEF PSNext, Server, ClientReads

LEMMA CallsGrow ==
    ASSUME [PSNext]_vars, calls \in Nat
    PROVE  calls' = calls \/ calls' = calls + 1
  BY ClientSide DEF Idle, Ended, Asked, Began, Others

LEMMA HandledEchoes ==
    ASSUME KeyInv, UpInv, DownInv, AcceptInv, Echoes, [PSNext]_vars, handleFrame
    PROVE  Echoes'
<1>1. UNCHANGED <<calls, cpc, req, isAuthenticated, ccoder, crossed>>
  BY DEF handleFrame, clientVars, noteVars
<1>2. PICK f : f = Head(up)
  OBVIOUS
<1>3. connectedFrame(f) \/ authFrame(f) \/ userFrame(f)
  BY <1>2, Zenon DEF handleFrame
<1>4. up # <<>> /\ IsSeq(down)
  BY DEF handleFrame, DownInv
<1>5. UpFrame(f)
  BY <1>2, <1>4, SeqsKept DEF UpInv
<1>6. PICK S : SendsOf(S, f.tag) /\ (userFrame(f) =>
        \E r \in decode(scoder, f, "UserRequest", New("UserRequest")) :
          S = {ReplyWire(userReply(r))})
  <2>1. CASE userFrame(f)
    BY <1>4, <2>1, UserAnswers, Zenon
  <2>2. CASE connectedFrame(f) /\ ~userFrame(f)
    <3>1. \E S : SendsOf(S, f.tag)
      BY <1>4, <2>2, ConnectedAnswers, Zenon
    <3> QED
      BY <2>2, <3>1, Zenon
  <2>3. CASE authFrame(f) /\ ~userFrame(f)
    <3>1. \E S : SendsOf(S, f.tag)
      BY <1>4, <2>3, AuthAnswers, Zenon
    <3> QED
      BY <2>3, <3>1, Zenon
  <2> QED
    BY <1>3, <2>1, <2>2, <2>3, Zenon
<1>7. ASSUME NEW e \in Range(down'), e \notin Range(down)
      PROVE  e.tag = f.tag /\ \E w \in S : e.wire = w
  <2>1. PICK w \in S : e = encode(scoder, w, f.tag)
    BY <1>6, <1>7 DEF SendsOf
  <2> QED
    BY <2>1, EncodedIs
<1>8. \A e \in Range(down') : e.tag[1] \in 0..calls
  BY <1>5, <1>7 DEF UpFrame, Echoes
<1>9. ASSUME isAuthenticated = "true", ~crossed, cpc = "request",
             NEW e \in Range(down'), e.tag = <<calls, "request">>
      PROVE  e.wire = ReplyWire(Echo(req))
  <2>1. CASE e \in Range(down)
    BY <1>9, <2>1 DEF Echoes
  <2>2. CASE e \notin Range(down)
    <3>1. Accepted /\ Same
      BY <1>9 DEF AcceptInv
    <3>2. userFrame(f)
      BY <1>3, <3>1 DEF Accepted, connectedFrame, authFrame
    <3>3. f.tag = <<calls, "request">>
      BY <1>7, <1>9, <2>2
    <3>4. f.wire = UserWire(req) /\ f.key = ccoder /\ f = encode(f.key, f.wire, f.tag)
      BY <1>5, <1>9, <3>3 DEF UpFrame
    <3>5. PICK r \in decode(scoder, f, "UserRequest", New("UserRequest")) :
            S = {ReplyWire(userReply(r))}
      BY <1>6, <3>2
    <3>6. IsBytes(req)
      BY <1>9, SessionAssumption DEF UpInv
    <3>7. userReply(r) = Echo(req)
      BY <3>1, <3>4, <3>6, EchoMade DEF Same
    <3> QED
      BY <1>7, <2>2, <3>5, <3>7
  <2> QED
    BY <2>1, <2>2
<1> QED
  BY <1>1, <1>8, <1>9 DEF Echoes

LEMMA EchoesStep ==
    ASSUME KeyInv, UpInv, DownInv, AcceptInv, Echoes, [PSNext]_vars
    PROVE  Echoes'
<1>1. CASE handleFrame
  BY <1>1, HandledEchoes
<1>2. CASE ~handleFrame
  <2>1. Range(down') \subseteq Range(down)
    BY <1>2, DownTaken DEF DownInv
  <2>2. calls \in Nat /\ (calls' = calls \/ calls' = calls + 1)
    BY CallsGrow DEF UpInv
  <2>3. \A n \in 0..calls : n \in 0..calls'
    BY <2>2
  <2>4. \A f \in Range(down') : f.tag[1] \in 0..calls /\ f.tag[1] \in 0..calls'
    BY <2>1, <2>3 DEF Echoes
  <2>5. ASSUME isAuthenticated' = "true", ~crossed', cpc' = "request",
               NEW f \in Range(down'), f.tag = <<calls', "request">>
        PROVE  f.wire = ReplyWire(Echo(req'))
    <3>1. f.tag[1] = calls' /\ f.tag[1] \in 0..calls
      BY <2>4, <2>5
    <3>2. calls' # calls + 1
      BY <2>2, <3>1
    <3>3. UNCHANGED <<calls, cpc, req, isAuthenticated>>
      BY <2>5, <3>2, WaitKept
    <3>4. ~crossed
      BY <2>5, AuthIsRead
    <3> QED
      BY <2>1, <2>5, <3>3, <3>4 DEF Echoes
  <2> QED
    BY <2>4, <2>5 DEF Echoes
<1> QED
  BY <1>1, <1>2

\* The note on the last call is made by its return.
LEMMA LastKept ==
    ASSUME [PSNext]_vars, last'.stage = "request", last'.ok
    PROVE  requestAnswer \/ UNCHANGED <<last, req, isAuthenticated>>
<1>1. CASE handleFrame \/ closeClient
  BY <1>1 DEF handleFrame, closeClient, clientVars, noteVars
<1>2. CASE \E table : changeUsers(table)
  BY <1>2 DEF changeUsers, clientVars, noteVars
<1>3. ASSUME NEW got, Return(FALSE, got) PROVE FALSE
  BY <1>3 DEF Return
<1>4. ASSUME NEW ok, NEW got, Return(ok, got), cpc # "request" PROVE FALSE
  BY <1>4 DEF Return
<1>5. ~timeOut /\ ~readEof
  BY <1>3, Zenon DEF timeOut, readEof
<1>6. ~authAnswer /\ ~askAuthAnswer
  <2>1. authAnswer \/ askAuthAnswer => cpc # "request" /\ \E ok, got : Return(ok, got)
    BY Zenon DEF authAnswer, askAuthAnswer, Fetched
  <2> QED
    BY <1>4, <2>1
<1>7. CASE kexAnswer
  <2>1. /\ TakeAnswer /\ UNCHANGED isAuthenticated
        /\ UNCHANGED last \/ Return(FALSE, EmptyBytes)
    BY <1>7, Zenon DEF kexAnswer
  <2> QED
    BY <1>3, <2>1 DEF TakeAnswer
<1>8. CASE readReset \/ otherFrame
  <2>1. UNCHANGED <<req, isAuthenticated>> /\ UNCHANGED noteVars
    BY <1>8 DEF readReset, otherFrame
  <2> QED
    BY <2>1 DEF noteVars
<1>9. ~ClientCalls
  <2>1. ClientCalls => \E o : Call(o)
    BY Zenon DEF ClientCalls, connect, connectRefused, authenticateAs, fetchRequest
  <2>2. \A o : Call(o) => last' = NoReturn
    BY DEF Call
  <2> QED
    BY <2>1, <2>2 DEF NoReturn
<1>10. CASE UNCHANGED vars
  BY <1>10 DEF vars, clientVars, noteVars
<1>11. addUser \/ delUser => \E table : changeUsers(table)
  BY Zenon DEF addUser, delUser
<1> QED
  BY <1>1, <1>2, <1>5, <1>6, <1>7, <1>8, <1>9, <1>10, <1>11 DEF PSNext, Server, ClientReads

LEMMA EchoStep ==
    ASSUME DownInv, AcceptInv, Echoes, EchoIsOwn, [PSNext]_vars
    PROVE  EchoIsOwn'
<1> SUFFICES ASSUME isAuthenticated' = "true", ~crossed', last'.stage = "request", last'.ok
             PROVE  last'.got = Echo(req')
  BY Zenon DEF EchoIsOwn, Echo
<1>1. CASE UNCHANGED <<last, req, isAuthenticated>>
  <2>1. ~crossed
    BY AuthIsRead
  <2>2. isAuthenticated = "true" /\ last.stage = "request" /\ last.ok
    BY <1>1
  <2>3. last.got = Echo(req)
    BY <2>1, <2>2, Zenon DEF EchoIsOwn, Echo
  <2> QED
    BY <1>1, <2>3
<1>2. CASE requestAnswer
  <2> DEFINE C == "ServerResponse"
  <2>1. PICK r \in Fetched("request", C) :
          /\ TakeAnswer /\ Return(r.ok, r.msg.val["msg"]) /\ UNCHANGED isAuthenticated
    BY <1>2, Zenon DEF requestAnswer
  <2>2. PICK f : f = Head(down)
    OBVIOUS
  <2>3. cpc = "request" /\ down # <<>> /\ r \in decode(ccoder, f, C, New(C))
    BY <2>1, <2>2, Zenon DEF Fetched
  <2>4. f.tag = <<calls, "request">> /\ ~crossed /\ UNCHANGED req
    BY <2>1, <2>2, <2>3 DEF TakeAnswer
  <2>5. f \in Range(down)
    BY <2>2, <2>3, SeqsKept DEF DownInv
  <2>6. r.ok /\ last'.got = r.msg.val["msg"]
    BY <2>1 DEF Return
  <2>7. isAuthenticated = "true"
    BY <2>1
  <2>8. f.wire = ReplyWire(Echo(req))
    BY <2>3, <2>4, <2>5, <2>7 DEF Echoes
  <2>9. ccoder # Plain
    BY <2>4, <2>7 DEF AcceptInv, Same
  <2>10. r.msg.val["msg"] = Echo(req)
    BY <2>3, <2>6, <2>8, <2>9, ReplyRead
  <2> QED
    BY <2>4, <2>6, <2>10
<1> QED
  BY <1>1, <1>2, LastKept

\* In service, an answered request gets its own echo, and one that was not UTF-8 or did
\* not fit an encrypted frame the reply to what cannot be decoded: the answer that bears
\* the call's number was made from the frame the call sent, with the key they share.
THEOREM EchoesAreOwn == PSSpec => []EchoIsOwn
<1>1. PSInit => EchoInv
  <2> SUFFICES ASSUME PSInit PROVE EchoInv
    OBVIOUS
  <2>1. down = <<>> /\ isAuthenticated = "uninitialised"
    BY Zenon DEF PSInit
  <2>2. Range(<<>>) = {}
    BY DEF Range
  <2> QED
    BY <2>1, <2>2 DEF EchoInv, Echoes, EchoIsOwn
<1>2. KeyInv /\ UpInv /\ DownInv /\ AcceptInv /\ EchoInv /\ [PSNext]_vars => EchoInv'
  BY EchoesStep, EchoStep DEF EchoInv
<1>3. EchoInv => EchoIsOwn
  BY DEF EchoInv
<1> QED
  BY <1>1, <1>2, <1>3, AcceptInvHolds, KeyInvHolds, UpInvHolds, DownInvHolds, PTL DEF PSSpec

-----------------------------------------------------------------------------
(* Answers and their requests. *)

\* One frame, of the call and the stage that the client waits in.
TheOne(q) == q = <<q[1]>> /\ q[1].tag = <<calls, cpc>>

\* One frame is on its way at most, and only while the client waits for it.  What is
\* sent to a closed connection stays where it is.
InStep ==
    /\ down = <<>> \/ (TheOne(down) /\ Waiting)
    /\ open => up = <<>> \/ (TheOne(up) /\ Waiting /\ down = <<>>)

StepInv ==
    /\ AnswersInStep
    /\ late \/ garbled \/ cpc = "other" \/ InStep

\* A handler that answers with one frame.
LEMMA OneAnswer ==
    ASSUME NEW wire, NEW tag, down = <<>>, respond(<<wire>>, tag)
    PROVE  down' = <<>> \/ (down' = <<down'[1]>> /\ down'[1].tag = tag)
<1>1. CASE down' = down
  BY <1>1
<1>2. CASE down' = down \o [i \in DOMAIN <<wire>> |-> encode(scoder, <<wire>>[i], tag)]
  <2> DEFINE f == encode(scoder, wire, tag)
  <2>1. down' = <<>> \o <<f>>
    BY <1>2
  <2>2. f.tag = tag
    BY DEF encode
  <2> HIDE DEF f
  <2>3. down' = <<f>>
    BY <2>1
  <2> QED
    BY <2>2, <2>3
<1> QED
  BY <1>1, <1>2 DEF respond

\* A handler answers once, unless the authentication handler met what it cannot decode.
LEMMA AnswersOnce ==
    ASSUME NEW f, down = <<>>, connectedFrame(f) \/ authFrame(f) \/ userFrame(f)
    PROVE  garbled' \/ down' = <<>> \/ (down' = <<down'[1]>> /\ down'[1].tag = f.tag)
<1>1. ASSUME connectedFrame(f)
      PROVE  UNCHANGED down \/ \E wire : respond(<<wire>>, f.tag)
  <2>1. ASSUME NEW m, handleKex(f, m) PROVE \E wire : respond(<<wire>>, f.tag)
    BY <2>1, Zenon DEF handleKex
  <2>2. ASSUME handleAuthRequest(f) PROVE \E wire : respond(<<wire>>, f.tag)
    BY <2>2, Zenon DEF handleAuthRequest
  <2>3. \/ \E m : handleKex(f, m)
        \/ handleAuthRequest(f)
        \/ UNCHANGED down
        \/ respond(<<ConnectedResp("DECODE_ERROR")>>, f.tag)
    BY <1>1, Zenon DEF connectedFrame
  <2> QED
    BY <2>1, <2>2, <2>3, Zenon
<1>2. ASSUME authFrame(f), ~garbled'
      PROVE  \E wire : respond(<<wire>>, f.tag)
  <2>1. PICK r \in decode(scoder, f, "ClientAuthRequest", areq) :
        /\ garbled' = (garbled \/ ~r.ok)
        /\ \/ doAuth(r.msg, IF r.ok THEN <<>> ELSE <<AuthResp("DECODE_ERROR")>>, f.tag)
           \/ otherAuthRequest(IF r.ok THEN <<>> ELSE <<AuthResp("DECODE_ERROR")>>, f.tag)
    BY <1>2, Zenon DEF authFrame
  <2>2. r.ok
    BY <1>2, <2>1
  <2>3. doAuth(r.msg, <<>>, f.tag) \/ otherAuthRequest(<<>>, f.tag)
    BY <2>1, <2>2, Zenon
  <2>4. \A w : <<>> \o <<w>> = <<w>>
    OBVIOUS
  <2>5. \E w : respond(<<>> \o <<w>>, f.tag)
    BY <2>3, Zenon DEF doAuth, otherAuthRequest
  <2> QED
    BY <2>4, <2>5, Zenon
<1>3. ASSUME userFrame(f)
      PROVE  \E wire : respond(<<wire>>, f.tag)
  BY <1>3, Zenon DEF userFrame
<1> QED
  BY <1>1, <1>2, <1>3, OneAnswer, Zenon

LEMMA NotesGrow ==
    ASSUME [PSNext]_vars
    PROVE  (late => late') /\ (garbled => garbled')
<1> USE DEF vars, serverVars, noteVars
<1>1. CASE handleFrame
  <2>1. UNCHANGED late
    BY <1>1 DEF handleFrame
  <2>2. garbled => garbled'
    BY <1>1, Zenon DEF handleFrame, connectedFrame, authFrame, userFrame
  <2> QED
    BY <2>1, <2>2
<1>2. CASE closeClient \/ readEof \/ readReset \/ otherFrame \/ timeOut
  <2>1. UNCHANGED late \/ late'
    BY <1>2, Zenon DEF closeClient, readEof, readReset, otherFrame, timeOut
  <2>2. UNCHANGED garbled
    BY <1>2, Zenon DEF closeClient, readEof, readReset, otherFrame, timeOut
  <2> QED
    BY <2>1, <2>2
<1>3. CASE TakeAnswer
  BY <1>3 DEF TakeAnswer
<1>4. CASE \E o : Call(o)
  BY <1>4 DEF Call
<1>5. CASE \E table : changeUsers(table)
  BY <1>5 DEF changeUsers
<1>6. CASE UNCHANGED vars
  BY <1>6
<1>7. ClientReads => TakeAnswer \/ readEof \/ readReset
  BY Zenon DEF ClientReads, kexAnswer, askAuthAnswer, authAnswer, requestAnswer
<1>8. ClientCalls => \E o : Call(o)
  BY Zenon DEF ClientCalls, connect, connectRefused, authenticateAs, fetchRequest
<1>9. addUser \/ delUser => \E table : changeUsers(table)
  BY Zenon DEF addUser, delUser
<1> QED
  BY <1>1, <1>2, <1>3, <1>4, <1>5, <1>6, <1>7, <1>8, <1>9, Zenon DEF PSNext, Server

LEMMA HandlerInStep ==
    ASSUME InStep, handleFrame
    PROVE  garbled' \/ InStep'
<1>1. /\ open /\ up # <<>> /\ up' = Tail(up)
      /\ UNCHANGED <<calls, cpc, open>>
  BY DEF handleFrame, clientVars
<1>2. PICK f : f = up[1]
  OBVIOUS
<1>3. up = <<f>> /\ f.tag = <<calls, cpc>> /\ Waiting /\ down = <<>>
  BY <1>1, <1>2 DEF InStep, TheOne
<1>4. Head(up) = f /\ up' = <<>>
  BY <1>1, <1>3
<1>5. garbled' \/ down' = <<>> \/ (down' = <<down'[1]>> /\ down'[1].tag = f.tag)
  BY <1>3, <1>4, AnswersOnce DEF handleFrame
<1>6. Waiting'
  BY <1>1, <1>3 DEF Waiting
<1> QED
  BY <1>1, <1>3, <1>4, <1>5, <1>6 DEF InStep, TheOne

\* A call begins when nothing is on its way.
LEMMA CallInStep ==
    ASSUME InStep, NEW o, Call(o), NEW wire, NEW stage, NEW text, sendOr(wire, stage, text),
           stage \notin {"idle", "dead", "other"}
    PROVE  InStep'
<1>1. cpc = "idle" /\ UNCHANGED <<down, open>>
  BY DEF Call, serverVars
<1>2. down = <<>> /\ (open => up = <<>>)
  BY <1>1 DEF InStep, Waiting
<1>3. CASE UNCHANGED <<up, cpc>>
  BY <1>1, <1>2, <1>3 DEF InStep
<1>4. CASE up' = Append(up, encode(ccoder, wire, <<calls', stage>>)) /\ cpc' = stage
  <2> DEFINE f == encode(ccoder, wire, <<calls', stage>>)
  <2>1. f.tag = <<calls', cpc'>>
    BY <1>4 DEF encode
  <2>2. up' = Append(up, f)
    BY <1>4
  <2> HIDE DEF f
  <2>3. open => up' = <<f>>
    BY <1>2, <2>2
  <2>4. Waiting'
    BY <1>4 DEF Waiting
  <2> QED
    BY <1>1, <1>2, <2>1, <2>3, <2>4 DEF InStep, TheOne
<1> QED
  BY <1>3, <1>4 DEF sendOr

\* The answer taken is the one that was waited for, and nothing is left.
LEMMA TakenInStep ==
    ASSUME InStep, TakeAnswer, down # <<>>
    PROVE  /\ Head(down).tag = <<calls, cpc>> /\ down' = <<>>
           /\ UNCHANGED <<calls, open>> /\ (open => up = <<>>)
<1>1. PICK f : f = down[1]
  OBVIOUS
<1>2. down = <<f>> /\ f.tag = <<calls, cpc>>
  BY <1>1 DEF InStep, TheOne
<1>3. Head(down) = f /\ Tail(down) = <<>>
  BY <1>2
<1> QED
  BY <1>2, <1>3 DEF TakeAnswer, InStep, serverVars

LEMMA ReadsInStep ==
    ASSUME InStep, ClientReads
    PROVE  InStep'
<1>1. CASE readEof \/ readReset
  BY <1>1 DEF readEof, readReset, Return, InStep, serverVars
<1>2. ASSUME TakeAnswer, down # <<>>, Return(FALSE, EmptyBytes) \/ UNCHANGED up PROVE InStep'
  BY <1>2, TakenInStep DEF Return, InStep
<1>3. CASE kexAnswer
  <2>1. TakeAnswer /\ down # <<>>
    BY <1>3, Zenon DEF kexAnswer, Fetched
  <2>2. \/ Return(FALSE, EmptyBytes)
        \/ /\ up' = Append(up, encode(ccoder', AuthReqWire, <<calls, "askauth">>))
           /\ cpc' = "askauth"
    BY <1>3, Zenon DEF kexAnswer
  <2>3. CASE /\ up' = Append(up, encode(ccoder', AuthReqWire, <<calls, "askauth">>))
             /\ cpc' = "askauth"
    <3>1. PICK f : f = encode(ccoder', AuthReqWire, <<calls, "askauth">>)
      OBVIOUS
    <3>2. f.tag = <<calls', cpc'>>
      BY <2>1, <2>3, <3>1, TakenInStep DEF encode
    <3>3. open => up' = <<f>>
      BY <2>1, <2>3, <3>1, TakenInStep
    <3>4. open => up' = <<up'[1]>> /\ up'[1].tag = <<calls', cpc'>>
      BY <3>2, <3>3
    <3>5. UNCHANGED open /\ down' = <<>>
      BY <2>1, TakenInStep
    <3>6. Waiting'
      BY <2>3 DEF Waiting
    <3> QED
      BY <3>4, <3>5, <3>6 DEF InStep, TheOne
  <2> QED
    BY <1>2, <2>1, <2>2, <2>3
<1>4. CASE askAuthAnswer \/ authAnswer \/ requestAnswer
  <2>1. TakeAnswer /\ down # <<>>
    BY <1>4, Zenon DEF askAuthAnswer, authAnswer, requestAnswer, Fetched
  <2>2. UNCHANGED up
    BY <1>4, Zenon DEF askAuthAnswer, authAnswer, requestAnswer, Return
  <2> QED
    BY <1>2, <2>1, <2>2
<1> QED
  BY <1>1, <1>3, <1>4 DEF ClientReads

\* Another client program never makes a call.
LEMMA OthersStay ==
    ASSUME cpc = "other", [PSNext]_vars
    PROVE  cpc' = "other" /\ UNCHANGED crossed
<1>1. ~ClientReads
  BY Zenon DEF ClientReads, kexAnswer, askAuthAnswer, authAnswer, requestAnswer, Fetched,
               readEof, readReset, Waiting
<1>2. ~ClientCalls /\ ~timeOut
  BY Zenon DEF ClientCalls, connect, connectRefused, authenticateAs, fetchRequest, Call, timeOut,
               Waiting
<1> QED
  BY <1>1, <1>2 DEF PSNext, Server, handleFrame, closeClient, otherFrame, addUser, delUser,
                    changeUsers, vars, clientVars, noteVars

LEMMA CrossesByReading ==
    ASSUME [PSNext]_vars, ~ClientReads
    PROVE  UNCHANGED crossed
<1>1. ClientCalls => \E o : Call(o)
  BY Zenon DEF ClientCalls, connect, connectRefused, authenticateAs, fetchRequest
<1> QED
  BY <1>1 DEF PSNext, Server, handleFrame, closeClient, otherFrame, addUser, delUser,
              changeUsers, timeOut, Call, vars, noteVars

LEMMA TakenUncrossed ==
    ASSUME InStep, ClientReads
    PROVE  crossed' => crossed
<1>1. CASE readEof \/ readReset
  BY <1>1 DEF readEof, readReset, noteVars
<1>2. CASE kexAnswer \/ askAuthAnswer \/ authAnswer \/ requestAnswer
  <2>1. TakeAnswer /\ down # <<>>
    BY <1>2, Zenon DEF kexAnswer, askAuthAnswer, authAnswer, requestAnswer, Fetched
  <2> QED
    BY <2>1, TakenInStep DEF TakeAnswer
<1> QED
  BY <1>1, <1>2 DEF ClientReads

LEMMA InStepNext ==
    ASSUME InStep, [PSNext]_vars
    PROVE  late' \/ garbled' \/ cpc' = "other" \/ InStep'
<1>1. CASE handleFrame
  BY <1>1, HandlerInStep
<1>2. CASE closeClient
  <2>1. UNCHANGED <<cpc, calls, up>> /\ ~open'
    BY <1>2 DEF closeClient, clientVars
  <2>2. down' = <<>> \/ (down' = down /\ down # <<>>)
    <3>1. PICK k \in 0..Len(down) : down' = SubSeq(down, 1, k)
      BY <1>2 DEF closeClient
    <3>2. CASE down = <<>>
      BY <3>1, <3>2
    <3>3. CASE down # <<>>
      <4>1. PICK f : down = <<f>>
        BY <3>3 DEF InStep, TheOne
      <4>2. k = 0 \/ k = 1
        BY <3>1, <4>1
      <4>3. SubSeq(<<f>>, 1, 0) = <<>>
        BY SubSeqEmpty
      <4>4. SubSeq(<<f>>, 1, 1) = <<f>>
        <5> DEFINE s == SubSeq(<<f>>, 1, 1)
        <5>1. <<f>> \in Seq({f}) /\ 1 \in 1..2 /\ 1 \in 0..Len(<<f>>)
          OBVIOUS
        <5>2. s \in Seq({f}) /\ Len(s) = 1 /\ s[1] = f
          BY <5>1, SubSeqProperties
        <5> HIDE DEF s
        <5>3. s = <<f>>
          BY <5>2
        <5> QED
          BY <5>3 DEF s
      <4> QED
        BY <3>1, <3>3, <4>1, <4>2, <4>3, <4>4
    <3> QED
      BY <3>2, <3>3
  <2> QED
    BY <2>1, <2>2 DEF InStep, TheOne, Waiting
<1>3. CASE ClientReads
  BY <1>3, ReadsInStep
<1>4. CASE ClientCalls
  <2>1. CASE connectRefused
    BY <2>1 DEF connectRefused, Call, InStep, Waiting, serverVars
  <2>2. CASE connect
    <3>1. Call("connect") /\ \E wire, text : sendOr(wire, "kex", text)
      BY <2>2, Zenon DEF connect
    <3> QED
      BY <3>1, CallInStep
  <2>3. CASE authenticateAs
    <3>1. Call("authenticate") /\ \E wire, text : sendOr(wire, "auth", text)
      BY <2>3, Zenon DEF authenticateAs
    <3> QED
      BY <3>1, CallInStep
  <2>4. CASE fetchRequest
    <3>1. Call("fetchRequest") /\ \E wire, text : sendOr(wire, "request", text)
      BY <2>4, Zenon DEF fetchRequest
    <3> QED
      BY <3>1, CallInStep
  <2> QED
    BY <1>4, <2>1, <2>2, <2>3, <2>4 DEF ClientCalls
<1>5. CASE timeOut \/ otherFrame
  BY <1>5, Zenon DEF timeOut, otherFrame
<1>6. CASE addUser \/ delUser \/ UNCHANGED vars
  <2>1. UNCHANGED <<up, down, open, cpc, calls>>
    BY <1>6 DEF addUser, delUser, changeUsers, vars, clientVars, serverVars
  <2> QED
    BY <2>1 DEF InStep, TheOne, Waiting
<1> QED
  BY <1>1, <1>2, <1>3, <1>4, <1>5, <1>6 DEF PSNext, Server

LEMMA StepInvInit == PSInit => StepInv
<1> SUFFICES ASSUME PSInit PROVE StepInv
  OBVIOUS
<1>1. up = <<>> /\ down = <<>> /\ crossed = FALSE
  BY Zenon DEF PSInit
<1> QED
  BY <1>1 DEF StepInv, AnswersInStep, InStep

LEMMA StepInvStep ==
    ASSUME StepInv, [PSNext]_vars
    PROVE  StepInv'
<1>1. (late => late') /\ (garbled => garbled')
  BY NotesGrow
<1>2. CASE cpc = "other"
  BY <1>1, <1>2, OthersStay DEF StepInv, AnswersInStep
<1>3. CASE late \/ garbled
  BY <1>1, <1>3 DEF StepInv, AnswersInStep
<1>4. CASE InStep
  <2>1. crossed' => crossed
    BY <1>4, CrossesByReading, TakenUncrossed
  <2> QED
    BY <1>1, <1>4, <2>1, InStepNext DEF StepInv, AnswersInStep
<1> QED
  BY <1>2, <1>3, <1>4 DEF StepInv

\* A call takes the answer to its own request, unless one timed out before or the
\* authentication handler answered twice to a frame it could not decode: whatever the
\* client asks and the server makes of it, at most one frame is on its way, and it
\* belongs to the call and the stage of it that the client waits in.
THEOREM AnswersStayInStep == PSSpec => []AnswersInStep
<1>1. StepInv => AnswersInStep
  BY DEF StepInv
<1> QED
  BY <1>1, StepInvInit, StepInvStep, PTL DEF PSSpec

-----------------------------------------------------------------------------
(* The message classes: the tables of a class agree. *)

RowOf(C, num, f) == F(num, f, TypeOf(C, f), BitOf(C, f))

\* Every member is serialised once, under a number of its own, and the parser knows
\* the same numbers.
RowsAgree(C) ==
    LET rows == Class[C].serialize
    IN  /\ rows \in Seq(Range(rows))
        /\ \A i \in DOMAIN rows : /\ rows[i].f \in Members(C)
                                  /\ rows[i] = RowOf(C, rows[i].num, rows[i].f)
        /\ \A f \in Members(C) : \E i \in DOMAIN rows : rows[i].f = f
        /\ \A i, j \in DOMAIN rows :
             i # j => rows[i].f # rows[j].f /\ rows[i].num # rows[j].num
        /\ Class[C].table = Range(rows)
        /\ Class[C].bytesize = {RowOf(C, 1, f) : f \in Members(C)}

\* Every function that the generator wrote gives a member the same has-bit, or looks
\* at the member itself.
BitsAgree(C) ==
    /\ \A f, g \in Members(C) : f # g /\ BitOf(C, f) # None => BitOf(C, f) # BitOf(C, g)
    /\ \A f \in Members(C) :
         /\ TypeOf(C, f) \in {"int", "string", "bytes", "message"}
         /\ TypeOf(C, f) = "message" <=> f = "kex"
         /\ TypeOf(C, f) = "message" => BitOf(C, f) # None
         /\ Class[C].clear[f] \in {None, BitOf(C, f)}
         /\ Class[C].copied[f] \in {None, BitOf(C, f)}
         /\ TypeOf(C, f) = "message" => Class[C].copied[f] = BitOf(C, f)
         /\ Class[C].merge[f] = BitOf(C, f)
    /\ Class[C].swap = Members(C)

LEMMA OneRow ==
    ASSUME NEW C, NEW f, Members(C) = {f}, Class[C].serialize = <<RowOf(C, 1, f)>>,
           Class[C].table = {RowOf(C, 1, f)}, Class[C].bytesize = {RowOf(C, 1, f)}
    PROVE  RowsAgree(C)
<1> DEFINE rows == Class[C].serialize
           r1 == RowOf(C, 1, f)
<1>1. r1.num = 1 /\ r1.f = f
  BY DEF RowOf, F
<1>2. rows = <<r1>>
  OBVIOUS
<1> HIDE DEF r1, rows
<1>3. rows \in Seq({r1}) /\ DOMAIN rows = {1} /\ rows[1] = r1
  BY <1>2
<1>4. Range(rows) = {r1}
  BY <1>3 DEF Range
<1>5. {RowOf(C, 1, g) : g \in Members(C)} = {r1}
  BY DEF r1
<1> QED
  BY <1>1, <1>3, <1>4, <1>5 DEF RowsAgree, rows, r1

LEMMA TwoRows ==
    ASSUME NEW C, NEW f, NEW g, f # g, Members(C) = {f, g},
           Class[C].serialize = <<RowOf(C, 1, f), RowOf(C, 2, g)>>,
           Class[C].table = {RowOf(C, 1, f), RowOf(C, 2, g)},
           Class[C].bytesize = {RowOf(C, 1, f), RowOf(C, 1, g)}
    PROVE  RowsAgree(C)
<1> DEFINE rows == Class[C].serialize
           r1 == RowOf(C, 1, f)
           r2 == RowOf(C, 2, g)
<1>1. r1.num = 1 /\ r1.f = f /\ r2.num = 2 /\ r2.f = g
  BY DEF RowOf, F
<1>2. rows = <<r1, r2>>
  OBVIOUS
<1>3. Class[C].table = {r1, r2} /\ r1 = RowOf(C, 1, f) /\ r2 = RowOf(C, 2, g)
  OBVIOUS
<1> HIDE DEF r1, r2, rows
<1>4. /\ rows \in Seq({r1, r2}) /\ DOMAIN rows = {1, 2} /\ Len(rows) = 2
      /\ rows[1] = r1 /\ rows[2] = r2
  BY <1>2
<1>5. Range(rows) = {r1, r2}
  BY <1>4 DEF Range
<1>6. {RowOf(C, 1, h) : h \in Members(C)} = {RowOf(C, 1, f), RowOf(C, 1, g)}
  OBVIOUS
<1>7. \A i \in DOMAIN rows : rows[i].f \in Members(C) /\ rows[i] = RowOf(C, rows[i].num, rows[i].f)
  BY <1>1, <1>3, <1>4
<1>8. \A h \in Members(C) : \E i \in DOMAIN rows : rows[i].f = h
  BY <1>1, <1>4
<1>9. \A i, j \in DOMAIN rows : i # j => rows[i].f # rows[j].f /\ rows[i].num # rows[j].num
  BY <1>1, <1>4
<1> QED
  BY <1>3, <1>4, <1>5, <1>6, <1>7, <1>8, <1>9 DEF RowsAgree, rows

LEMMA ThreeRows ==
    ASSUME NEW C, NEW f, NEW g, NEW h, f # g, g # h, f # h, Members(C) = {f, g, h},
           Class[C].serialize = <<RowOf(C, 1, f), RowOf(C, 2, g), RowOf(C, 3, h)>>,
           Class[C].table = {RowOf(C, 1, f), RowOf(C, 2, g), RowOf(C, 3, h)},
           Class[C].bytesize = {RowOf(C, 1, f), RowOf(C, 1, g), RowOf(C, 1, h)}
    PROVE  RowsAgree(C)
<1> DEFINE rows == Class[C].serialize
           r1 == RowOf(C, 1, f)
           r2 == RowOf(C, 2, g)
           r3 == RowOf(C, 3, h)
<1>1. r1.num = 1 /\ r1.f = f /\ r2.num = 2 /\ r2.f = g /\ r3.num = 3 /\ r3.f = h
  BY DEF RowOf, F
<1>2. rows = <<r1, r2, r3>>
  OBVIOUS
<1>3. /\ Class[C].table = {r1, r2, r3}
      /\ r1 = RowOf(C, 1, f) /\ r2 = RowOf(C, 2, g) /\ r3 = RowOf(C, 3, h)
  OBVIOUS
<1> HIDE DEF r1, r2, r3, rows
<1>4. /\ rows \in Seq({r1, r2, r3}) /\ DOMAIN rows = {1, 2, 3} /\ Len(rows) = 3
      /\ rows[1] = r1 /\ rows[2] = r2 /\ rows[3] = r3
  BY <1>2
<1>5. Range(rows) = {r1, r2, r3}
  BY <1>4 DEF Range
<1>6. {RowOf(C, 1, e) : e \in Members(C)} = {RowOf(C, 1, f), RowOf(C, 1, g), RowOf(C, 1, h)}
  OBVIOUS
<1>7. \A i \in DOMAIN rows : rows[i].f \in Members(C) /\ rows[i] = RowOf(C, rows[i].num, rows[i].f)
  BY <1>1, <1>3, <1>4
<1>8. \A e \in Members(C) : \E i \in DOMAIN rows : rows[i].f = e
  BY <1>1, <1>4
<1>9. \A i, j \in DOMAIN rows : i # j => rows[i].f # rows[j].f /\ rows[i].num # rows[j].num
  BY <1>1, <1>4
<1> QED
  BY <1>3, <1>4, <1>5, <1>6, <1>7, <1>8, <1>9 DEF RowsAgree, rows

LEMMA KexAgrees == RowsAgree("KexMsg") /\ BitsAgree("KexMsg")
<1> DEFINE C == "KexMsg"
<1>1. /\ Class[C].serialize = KexMsg_Serialize /\ Class[C].table = KexMsg_table
      /\ Class[C].members = KexMsg /\ Class[C].accessors = KexMsg_accessors
      /\ Class[C].clear = KexMsg_Clear /\ Class[C].copied = KexMsg_copied
      /\ Class[C].merge = KexMsg_Merge /\ Class[C].swap = KexMsg_Swap
      /\ Class[C].bytesize = KexMsg_ByteSize
  BY DEF Class, KexMsg_class, Of
<1> HIDE DEF C
<1>2. Members(C) = {"alg", "pkey"}
  BY <1>1 DEF Members, KexMsg
<1>3. \A num : /\ RowOf(C, num, "alg") = F(num, "alg", "int", None)
               /\ RowOf(C, num, "pkey") = F(num, "pkey", "bytes", None)
  BY <1>1 DEF RowOf, TypeOf, BitOf, KexMsg, KexMsg_accessors
<1>4. RowsAgree(C)
  <2>1. PICK f, g : f = "alg" /\ g = "pkey"
    OBVIOUS
  <2>2. /\ Class[C].serialize = <<RowOf(C, 1, f), RowOf(C, 2, g)>>
        /\ Class[C].table = {RowOf(C, 1, f), RowOf(C, 2, g)}
        /\ Class[C].bytesize = {RowOf(C, 1, f), RowOf(C, 1, g)}
    BY <1>1, <1>3, <2>1 DEF KexMsg_Serialize, KexMsg_table, KexMsg_ByteSize
  <2>3. Members(C) = {f, g} /\ f # g
    BY <1>2, <2>1
  <2> QED
    BY <2>2, <2>3, TwoRows
<1>5. BitsAgree(C)
  BY <1>1, <1>2 DEF BitsAgree, TypeOf, BitOf, KexMsg, KexMsg_accessors, KexMsg_Clear,
                    KexMsg_copied, KexMsg_Merge, KexMsg_Swap, None
<1> QED
  BY <1>4, <1>5 DEF C

LEMMA RequestAgrees ==
    RowsAgree("ClientConnectedStateRequest") /\ BitsAgree("ClientConnectedStateRequest")
<1> DEFINE C == "ClientConnectedStateRequest"
<1>1. /\ Class[C].serialize = ClientConnectedStateRequest_Serialize
      /\ Class[C].table = ClientConnectedStateRequest_table
      /\ Class[C].members = ClientConnectedStateRequest
      /\ Class[C].accessors = ClientConnectedStateRequest_accessors
      /\ Class[C].clear = ClientConnectedStateRequest_Clear
      /\ Class[C].copied = ClientConnectedStateRequest_copied
      /\ Class[C].merge = ClientConnectedStateRequest_Merge
      /\ Class[C].swap = ClientConnectedStateRequest_Swap
      /\ Class[C].bytesize = ClientConnectedStateRequest_ByteSize
  BY DEF Class, ClientConnectedStateRequest_class, Of
<1> HIDE DEF C
<1>2. Members(C) = {"type", "kex"}
  BY <1>1 DEF Members, ClientConnectedStateRequest
<1>3. \A num : /\ RowOf(C, num, "type") = F(num, "type", "int", None)
               /\ RowOf(C, num, "kex") = F(num, "kex", "message", 0)
  BY <1>1 DEF RowOf, TypeOf, BitOf, ClientConnectedStateRequest,
              ClientConnectedStateRequest_accessors
<1>4. RowsAgree(C)
  <2>1. PICK f, g : f = "type" /\ g = "kex"
    OBVIOUS
  <2>2. /\ Class[C].serialize = <<RowOf(C, 1, f), RowOf(C, 2, g)>>
        /\ Class[C].table = {RowOf(C, 1, f), RowOf(C, 2, g)}
        /\ Class[C].bytesize = {RowOf(C, 1, f), RowOf(C, 1, g)}
    BY <1>1, <1>3, <2>1
       DEF ClientConnectedStateRequest_Serialize, ClientConnectedStateRequest_table,
                            ClientConnectedStateRequest_ByteSize
  <2>3. Members(C) = {f, g} /\ f # g
    BY <1>2, <2>1
  <2> QED
    BY <2>2, <2>3, TwoRows
<1>5. BitsAgree(C)
  BY <1>1, <1>2
     DEF BitsAgree, TypeOf, BitOf, None, ClientConnectedStateRequest,
         ClientConnectedStateRequest_accessors,
                    ClientConnectedStateRequest_Clear, ClientConnectedStateRequest_copied,
                    ClientConnectedStateRequest_Merge, ClientConnectedStateRequest_Swap
<1> QED
  BY <1>4, <1>5 DEF C

LEMMA ResponseAgrees ==
    RowsAgree("ServerConnectedStateResponse") /\ BitsAgree("ServerConnectedStateResponse")
<1> DEFINE C == "ServerConnectedStateResponse"
<1>1. /\ Class[C].serialize = ServerConnectedStateResponse_Serialize
      /\ Class[C].table = ServerConnectedStateResponse_table
      /\ Class[C].members = ServerConnectedStateResponse
      /\ Class[C].accessors = ServerConnectedStateResponse_accessors
      /\ Class[C].clear = ServerConnectedStateResponse_Clear
      /\ Class[C].copied = ServerConnectedStateResponse_copied
      /\ Class[C].merge = ServerConnectedStateResponse_Merge
      /\ Class[C].swap = ServerConnectedStateResponse_Swap
      /\ Class[C].bytesize = ServerConnectedStateResponse_ByteSize
  BY DEF Class, ServerConnectedStateResponse_class, Of
<1> HIDE DEF C
<1>2. Members(C) = {"status", "kex", "iv"}
  BY <1>1 DEF Members, ServerConnectedStateResponse
<1>3. \A num : /\ RowOf(C, num, "status") = F(num, "status", "int", None)
               /\ RowOf(C, num, "kex") = F(num, "kex", "message", 1)
               /\ RowOf(C, num, "iv") = F(num, "iv", "bytes", 0)
  BY <1>1 DEF RowOf, TypeOf, BitOf, ServerConnectedStateResponse,
              ServerConnectedStateResponse_accessors
<1>4. RowsAgree(C)
  <2>1. PICK f, g, h : f = "status" /\ g = "kex" /\ h = "iv"
    OBVIOUS
  <2>2. /\ Class[C].serialize = <<RowOf(C, 1, f), RowOf(C, 2, g), RowOf(C, 3, h)>>
        /\ Class[C].table = {RowOf(C, 1, f), RowOf(C, 2, g), RowOf(C, 3, h)}
        /\ Class[C].bytesize = {RowOf(C, 1, f), RowOf(C, 1, g), RowOf(C, 1, h)}
    BY <1>1, <1>3, <2>1
       DEF ServerConnectedStateResponse_Serialize, ServerConnectedStateResponse_table,
                            ServerConnectedStateResponse_ByteSize
  <2>3. Members(C) = {f, g, h} /\ f # g /\ g # h /\ f # h
    BY <1>2, <2>1
  <2> QED
    BY <2>2, <2>3, ThreeRows
<1>5. BitsAgree(C)
  BY <1>1, <1>2
     DEF BitsAgree, TypeOf, BitOf, None, ServerConnectedStateResponse,
         ServerConnectedStateResponse_accessors,
                    ServerConnectedStateResponse_Clear, ServerConnectedStateResponse_copied,
                    ServerConnectedStateResponse_Merge, ServerConnectedStateResponse_Swap
<1> QED
  BY <1>4, <1>5 DEF C

LEMMA LoginAgrees == RowsAgree("ClientAuthRequest") /\ BitsAgree("ClientAuthRequest")
<1> DEFINE C == "ClientAuthRequest"
<1>1. /\ Class[C].serialize = ClientAuthRequest_Serialize
      /\ Class[C].table = ClientAuthRequest_table
      /\ Class[C].members = ClientAuthRequest
      /\ Class[C].accessors = ClientAuthRequest_accessors
      /\ Class[C].clear = ClientAuthRequest_Clear
      /\ Class[C].copied = ClientAuthRequest_copied
      /\ Class[C].merge = ClientAuthRequest_Merge
      /\ Class[C].swap = ClientAuthRequest_Swap
      /\ Class[C].bytesize = ClientAuthRequest_ByteSize
  BY DEF Class, ClientAuthRequest_class, Of
<1> HIDE DEF C
<1>2. Members(C) = {"request", "username", "authCredential"}
  BY <1>1 DEF Members, ClientAuthRequest
<1>3. \A num : /\ RowOf(C, num, "request") = F(num, "request", "int", None)
               /\ RowOf(C, num, "username") = F(num, "username", "string", 0)
               /\ RowOf(C, num, "authCredential") = F(num, "authCredential", "bytes", 1)
  BY <1>1 DEF RowOf, TypeOf, BitOf, ClientAuthRequest, ClientAuthRequest_accessors
<1>4. RowsAgree(C)
  <2>1. PICK f, g, h : f = "request" /\ g = "username" /\ h = "authCredential"
    OBVIOUS
  <2>2. /\ Class[C].serialize = <<RowOf(C, 1, f), RowOf(C, 2, g), RowOf(C, 3, h)>>
        /\ Class[C].table = {RowOf(C, 1, f), RowOf(C, 2, g), RowOf(C, 3, h)}
        /\ Class[C].bytesize = {RowOf(C, 1, f), RowOf(C, 1, g), RowOf(C, 1, h)}
    BY <1>1, <1>3, <2>1 DEF ClientAuthRequest_Serialize, ClientAuthRequest_table,
                            ClientAuthRequest_ByteSize
  <2>3. Members(C) = {f, g, h} /\ f # g /\ g # h /\ f # h
    BY <1>2, <2>1
  <2> QED
    BY <2>2, <2>3, ThreeRows
<1>5. BitsAgree(C)
  BY <1>1, <1>2 DEF BitsAgree, TypeOf, BitOf, None, ClientAuthRequest, ClientAuthRequest_accessors,
                    ClientAuthRequest_Clear, ClientAuthRequest_copied,
                    ClientAuthRequest_Merge, ClientAuthRequest_Swap
<1> QED
  BY <1>4, <1>5 DEF C

LEMMA VerdictAgrees == RowsAgree("ServerAuthResponse") /\ BitsAgree("ServerAuthResponse")
<1> DEFINE C == "ServerAuthResponse"
<1>1. /\ Class[C].serialize = ServerAuthResponse_Serialize
      /\ Class[C].table = ServerAuthResponse_table
      /\ Class[C].members = ServerAuthResponse
      /\ Class[C].accessors = ServerAuthResponse_accessors
      /\ Class[C].clear = ServerAuthResponse_Clear
      /\ Class[C].copied = ServerAuthResponse_copied
      /\ Class[C].merge = ServerAuthResponse_Merge
      /\ Class[C].swap = ServerAuthResponse_Swap
      /\ Class[C].bytesize = ServerAuthResponse_ByteSize
  BY DEF Class, ServerAuthResponse_class, Of
<1> HIDE DEF C
<1>2. Members(C) = {"status", "serverInfo"}
  BY <1>1 DEF Members, ServerAuthResponse
<1>3. \A num : /\ RowOf(C, num, "status") = F(num, "status", "int", None)
               /\ RowOf(C, num, "serverInfo") = F(num, "serverInfo", "string", 0)
  BY <1>1 DEF RowOf, TypeOf, BitOf, ServerAuthResponse, ServerAuthResponse_accessors
<1>4. RowsAgree(C)
  <2>1. PICK f, g : f = "status" /\ g = "serverInfo"
    OBVIOUS
  <2>2. /\ Class[C].serialize = <<RowOf(C, 1, f), RowOf(C, 2, g)>>
        /\ Class[C].table = {RowOf(C, 1, f), RowOf(C, 2, g)}
        /\ Class[C].bytesize = {RowOf(C, 1, f), RowOf(C, 1, g)}
    BY <1>1, <1>3, <2>1 DEF ServerAuthResponse_Serialize, ServerAuthResponse_table,
                            ServerAuthResponse_ByteSize
  <2>3. Members(C) = {f, g} /\ f # g
    BY <1>2, <2>1
  <2> QED
    BY <2>2, <2>3, TwoRows
<1>5. BitsAgree(C)
  BY <1>1, <1>2
     DEF BitsAgree, TypeOf, BitOf, None, ServerAuthResponse,
         ServerAuthResponse_accessors,
                    ServerAuthResponse_Clear, ServerAuthResponse_copied,
                    ServerAuthResponse_Merge, ServerAuthResponse_Swap
<1> QED
  BY <1>4, <1>5 DEF C

LEMMA UserRequestAgrees == RowsAgree("UserRequest") /\ BitsAgree("UserRequest")
<1> DEFINE C == "UserRequest"
<1>1. /\ Class[C].serialize = UserRequest_Serialize
      /\ Class[C].table = UserRequest_table
      /\ Class[C].members = UserRequest
      /\ Class[C].accessors = UserRequest_accessors
      /\ Class[C].clear = UserRequest_Clear
      /\ Class[C].copied = UserRequest_copied
      /\ Class[C].merge = UserRequest_Merge
      /\ Class[C].swap = UserRequest_Swap
      /\ Class[C].bytesize = UserRequest_ByteSize
  BY DEF Class, UserRequest_class, Of
<1> HIDE DEF C
<1>2. Members(C) = {"msg"}
  BY <1>1 DEF Members, UserRequest
<1>3. \A num : RowOf(C, num, "msg") = F(num, "msg", "string", None)
  BY <1>1 DEF RowOf, TypeOf, BitOf, UserRequest, UserRequest_accessors
<1>4. RowsAgree(C)
  <2>1. PICK f : f = "msg"
    OBVIOUS
  <2>2. /\ Class[C].serialize = <<RowOf(C, 1, f)>>
        /\ Class[C].table = {RowOf(C, 1, f)}
        /\ Class[C].bytesize = {RowOf(C, 1, f)}
    BY <1>1, <1>3, <2>1 DEF UserRequest_Serialize, UserRequest_table,
                            UserRequest_ByteSize
  <2>3. Members(C) = {f}
    BY <1>2, <2>1
  <2> QED
    BY <2>2, <2>3, OneRow
<1>5. BitsAgree(C)
  BY <1>1, <1>2 DEF BitsAgree, TypeOf, BitOf, None, UserRequest, UserRequest_accessors,
                    UserRequest_Clear, UserRequest_copied,
                    UserRequest_Merge, UserRequest_Swap
<1> QED
  BY <1>4, <1>5 DEF C

LEMMA ReplyAgrees == RowsAgree("ServerResponse") /\ BitsAgree("ServerResponse")
<1> DEFINE C == "ServerResponse"
<1>1. /\ Class[C].serialize = ServerResponse_Serialize
      /\ Class[C].table = ServerResponse_table
      /\ Class[C].members = ServerResponse
      /\ Class[C].accessors = ServerResponse_accessors
      /\ Class[C].clear = ServerResponse_Clear
      /\ Class[C].copied = ServerResponse_copied
      /\ Class[C].merge = ServerResponse_Merge
      /\ Class[C].swap = ServerResponse_Swap
      /\ Class[C].bytesize = ServerResponse_ByteSize
  BY DEF Class, ServerResponse_class, Of
<1> HIDE DEF C
<1>2. Members(C) = {"msg"}
  BY <1>1 DEF Members, ServerResponse
<1>3. \A num : RowOf(C, num, "msg") = F(num, "msg", "string", None)
  BY <1>1 DEF RowOf, TypeOf, BitOf, ServerResponse, ServerResponse_accessors
<1>4. RowsAgree(C)
  <2>1. PICK f : f = "msg"
    OBVIOUS
  <2>2. /\ Class[C].serialize = <<RowOf(C, 1, f)>>
        /\ Class[C].table = {RowOf(C, 1, f)}
        /\ Class[C].bytesize = {RowOf(C, 1, f)}
    BY <1>1, <1>3, <2>1 DEF ServerResponse_Serialize, ServerResponse_table,
                            ServerResponse_ByteSize
  <2>3. Members(C) = {f}
    BY <1>2, <2>1
  <2> QED
    BY <2>2, <2>3, OneRow
<1>5. BitsAgree(C)
  BY <1>1, <1>2 DEF BitsAgree, TypeOf, BitOf, None, ServerResponse, ServerResponse_accessors,
                    ServerResponse_Clear, ServerResponse_copied,
                    ServerResponse_Merge, ServerResponse_Swap
<1> QED
  BY <1>4, <1>5 DEF C

LEMMA TestAgrees == RowsAgree("Test") /\ BitsAgree("Test")
<1> DEFINE C == "Test"
<1>1. /\ Class[C].serialize = Test_Serialize
      /\ Class[C].table = Test_table
      /\ Class[C].members = Test
      /\ Class[C].accessors = Test_accessors
      /\ Class[C].clear = Test_Clear
      /\ Class[C].copied = Test_copied
      /\ Class[C].merge = Test_Merge
      /\ Class[C].swap = Test_Swap
      /\ Class[C].bytesize = Test_ByteSize
  BY DEF Class, Test_class, Of
<1> HIDE DEF C
<1>2. Members(C) = {"id", "str"}
  BY <1>1 DEF Members, Test
<1>3. \A num : /\ RowOf(C, num, "id") = F(num, "id", "int", 1)
               /\ RowOf(C, num, "str") = F(num, "str", "bytes", 0)
  BY <1>1 DEF RowOf, TypeOf, BitOf, Test, Test_accessors
<1>4. RowsAgree(C)
  <2>1. PICK f, g : f = "id" /\ g = "str"
    OBVIOUS
  <2>2. /\ Class[C].serialize = <<RowOf(C, 1, f), RowOf(C, 2, g)>>
        /\ Class[C].table = {RowOf(C, 1, f), RowOf(C, 2, g)}
        /\ Class[C].bytesize = {RowOf(C, 1, f), RowOf(C, 1, g)}
    BY <1>1, <1>3, <2>1 DEF Test_Serialize, Test_table,
                            Test_ByteSize
  <2>3. Members(C) = {f, g} /\ f # g
    BY <1>2, <2>1
  <2> QED
    BY <2>2, <2>3, TwoRows
<1>5. BitsAgree(C)
  BY <1>1, <1>2 DEF BitsAgree, TypeOf, BitOf, None, Test, Test_accessors,
                    Test_Clear, Test_copied,
                    Test_Merge, Test_Swap
<1> QED
  BY <1>4, <1>5 DEF C

LEMMA ClassesAgree ==
    ASSUME NEW C \in ClassNames
    PROVE  RowsAgree(C) /\ BitsAgree(C)
  BY KexAgrees, RequestAgrees, ResponseAgrees, LoginAgrees, VerdictAgrees,
     UserRequestAgrees, ReplyAgrees, TestAgrees, Zenon DEF ClassNames, Class

-----------------------------------------------------------------------------
(* Proper objects. *)

\* What a member may hold, N being the fields that nobody knows.
Flat(C, m, N) ==
    /\ IsObject(C, m) /\ m.unknown \in Seq(N)
    /\ \A f \in Members(C) : TypeOf(C, f) \in {"string", "bytes"} => IsBytes(m.val[f])

Points(v, N) == v = Null \/ \E k : v = <<k>> /\ Flat("KexMsg", k, N)

Proper(C, m, N) ==
    /\ Flat(C, m, N)
    /\ \A f \in Members(C) : TypeOf(C, f) = "message" => Points(m.val[f], N)

\* What RetainedIsEmpty says of a member with value v.
Kept(C, bits, f, v) ==
    IF BitOf(C, f) \in bits
    THEN TypeOf(C, f) = "message" => v # Null
    ELSE BitOf(C, f) # None =>
           IF TypeOf(C, f) = "message" THEN v \in {Null, <<New("KexMsg")>>}
           ELSE v = Default(TypeOf(C, f))

Retained(C, m) == \A f \in Members(C) : Kept(C, m.bits, f, m.val[f])

\* An object that holds nothing; it may have kept an empty sub-message.
Emptied(C, m) ==
    /\ IsObject(C, m) /\ m.bits = {} /\ m.unknown = <<>>
    /\ \A f \in Members(C) :
         IF TypeOf(C, f) = "message" THEN m.val[f] \in {Null, <<New("KexMsg")>>}
         ELSE m.val[f] = Default(TypeOf(C, f))

LEMMA DefaultsAre ==
    /\ Default("int") = 0 /\ Default("string") = EmptyBytes /\ Default("bytes") = EmptyBytes
    /\ Default("message") = Null /\ IsBytes(EmptyBytes)
<1>1. IsBytes(EmptyBytes)
  BY DEF IsBytes, EmptyBytes
<1> QED
  BY <1>1 DEF Default

LEMMA NewIsEmptied ==
    ASSUME NEW C
    PROVE  Emptied(C, New(C))
<1>1. IsObject(C, New(C)) /\ New(C).bits = {} /\ New(C).unknown = <<>>
  BY ObjectsAre, NewIs
<1>2. \A f \in Members(C) : New(C).val[f] = Default(TypeOf(C, f))
  BY NewIs
<1> QED
  BY <1>1, <1>2, DefaultsAre DEF Emptied

LEMMA KexHasNone ==
    /\ \A f \in Members("KexMsg") : /\ BitOf("KexMsg", f) = None
                                    /\ TypeOf("KexMsg", f) \in {"int", "bytes"}
                                    /\ Class["KexMsg"].clear[f] = None
                                    /\ Class["KexMsg"].merge[f] = None
<1> DEFINE C == "KexMsg"
<1>1. /\ Class[C].members = KexMsg /\ Class[C].accessors = KexMsg_accessors
      /\ Class[C].clear = KexMsg_Clear /\ Class[C].merge = KexMsg_Merge
  BY DEF Class, KexMsg_class, Of
<1> HIDE DEF C
<1> QED
  BY <1>1 DEF Members, TypeOf, BitOf, KexMsg, KexMsg_accessors, KexMsg_Clear, KexMsg_Merge, C

LEMMA EmptiedIsFlat ==
    ASSUME NEW C, NEW m, Emptied(C, m), NEW N
    PROVE  Flat(C, m, N)
<1>1. m.unknown \in Seq(N)
  BY DEF Emptied
<1>2. \A f \in Members(C) : TypeOf(C, f) \in {"string", "bytes"} => m.val[f] = EmptyBytes
  BY DefaultsAre DEF Emptied
<1> QED
  BY <1>1, <1>2, DefaultsAre DEF Flat, Emptied

LEMMA EmptiedIs ==
    ASSUME NEW C, BitsAgree(C), NEW m, Emptied(C, m), NEW N
    PROVE  /\ Proper(C, m, N) /\ Retained(C, m)
           /\ \A f \in Members(C) : ~has(C, m, f)
<1>1. Flat(C, m, N)
  BY EmptiedIsFlat
<1>2. Flat("KexMsg", New("KexMsg"), N)
  BY EmptiedIsFlat, NewIsEmptied
<1>3. \A f \in Members(C) : TypeOf(C, f) = "message" => Points(m.val[f], N)
  BY <1>2 DEF Points, Emptied
<1>4. Retained(C, m)
  BY DEF Retained, Kept, Emptied
<1>5. ASSUME NEW f \in Members(C) PROVE ~has(C, m, f)
  <2>1. BitOf(C, f) \notin m.bits
    BY DEF Emptied
  <2>2. BitOf(C, f) = None => m.val[f] = Default(TypeOf(C, f))
    BY DEF Emptied, BitsAgree
  <2> QED
    BY <2>1, <2>2 DEF has, Present
<1> QED
  BY <1>1, <1>3, <1>4, <1>5 DEF Proper

LEMMA ClearKexIsNew ==
    ASSUME NEW k
    PROVE  ClearKex(k) = New("KexMsg")
<1>1. \A f \in Members("KexMsg") :
        Class["KexMsg"].clear[f] = None /\ TypeOf("KexMsg", f) # "message"
  BY KexHasNone
<1> QED
  BY <1>1 DEF ClearKex, ClearWith, New

\* Clear leaves nothing.
LEMMA ClearEmpties ==
    ASSUME NEW C, BitsAgree(C), NEW m, Retained(C, m)
    PROVE  Emptied(C, Clear(C, m))
<1> DEFINE c == Clear(C, m)
           reset(f) == Class[C].clear[f] = None \/ Class[C].clear[f] \in m.bits
           cleared(f) == IF TypeOf(C, f) = "message"
                         THEN IF m.val[f] = Null THEN Null ELSE <<ClearKex(m.val[f][1])>>
                         ELSE Default(TypeOf(C, f))
<1>1. /\ IsObject(C, c) /\ c.bits = {} /\ c.unknown = <<>>
      /\ \A f \in Members(C) : c.val[f] = IF reset(f) THEN cleared(f) ELSE m.val[f]
  <2>1. c = [bits |-> {}, unknown |-> <<>>,
             val |-> [f \in Members(C) |-> IF reset(f) THEN cleared(f) ELSE m.val[f]]]
    BY DEF Clear, ClearWith
  <2> HIDE DEF c, reset, cleared
  <2> QED
    BY <2>1 DEF IsObject
<1> HIDE DEF c
<1>2. ASSUME NEW f \in Members(C)
      PROVE  IF TypeOf(C, f) = "message" THEN c.val[f] \in {Null, <<New("KexMsg")>>}
             ELSE c.val[f] = Default(TypeOf(C, f))
  <2>1. CASE reset(f)
    BY <1>1, <2>1, ClearKexIsNew
  <2>2. CASE ~reset(f)
    <3>1. BitOf(C, f) # None /\ BitOf(C, f) \notin m.bits
      BY <2>2 DEF BitsAgree
    <3> QED
      BY <1>1, <2>2, <3>1 DEF Retained, Kept
  <2> QED
    BY <2>1, <2>2
<1> QED
  BY <1>1, <1>2 DEF Emptied, c

-----------------------------------------------------------------------------
(* The accessors touch one member. *)

\* What can be observed of a member that is there.
KexValue(s) == [g \in Fields("KexMsg", s) |-> s.val[g]]
Observed(C, m, f) == IF TypeOf(C, f) # "message" THEN m.val[f] ELSE KexValue(get(C, m, f))

Shaped(C, f, v, N) ==
    /\ TypeOf(C, f) \in {"string", "bytes"} => IsBytes(v)
    /\ TypeOf(C, f) = "message" => Points(v, N)

AtOnly(C, m, t, f) ==
    /\ IsObject(C, t) /\ t.unknown = m.unknown
    /\ \A g \in Members(C) \ {f} :
         /\ t.val[g] = m.val[g]
         /\ BitOf(C, g) # None => (BitOf(C, g) \in t.bits <=> BitOf(C, g) \in m.bits)

LEMMA OthersKept ==
    ASSUME NEW C, BitsAgree(C), NEW N, NEW m, Proper(C, m, N), Retained(C, m),
           NEW f \in Members(C), NEW t, AtOnly(C, m, t, f),
           Shaped(C, f, t.val[f], N), Kept(C, t.bits, f, t.val[f])
    PROVE  /\ Proper(C, t, N) /\ Retained(C, t)
           /\ \A g \in Members(C) \ {f} : /\ has(C, t, g) <=> has(C, m, g)
                                          /\ Observed(C, t, g) = Observed(C, m, g)
<1>1. \A g \in Members(C) : Shaped(C, g, t.val[g], N)
  BY DEF AtOnly, Proper, Flat, Shaped
<1>2. Proper(C, t, N)
  BY <1>1 DEF Proper, Flat, Shaped, AtOnly
<1>3. ASSUME NEW g \in Members(C) \ {f} PROVE Kept(C, t.bits, g, t.val[g])
  <2>1. t.val[g] = m.val[g] /\ Kept(C, m.bits, g, m.val[g])
    BY DEF AtOnly, Retained
  <2>2. CASE BitOf(C, g) # None
    <3>1. BitOf(C, g) \in t.bits <=> BitOf(C, g) \in m.bits
      BY <2>2 DEF AtOnly
    <3> QED
      BY <2>1, <3>1 DEF Kept
  <2>3. CASE BitOf(C, g) = None
    BY <2>3 DEF Kept, BitsAgree
  <2> QED
    BY <2>2, <2>3
<1>4. Retained(C, t)
  BY <1>3 DEF Retained
<1>5. ASSUME NEW g \in Members(C) \ {f}
      PROVE  (has(C, t, g) <=> has(C, m, g)) /\ Observed(C, t, g) = Observed(C, m, g)
  BY DEF AtOnly, has, Present, Observed, get
<1> QED
  BY <1>2, <1>4, <1>5

LEMMA SetOnly ==
    ASSUME NEW C, BitsAgree(C), NEW m, IsObject(C, m), NEW f \in Members(C), NEW v
    PROVE  LET t == set(C, m, f, v)
           IN  AtOnly(C, m, t, f) /\ t.val[f] = v /\ (BitOf(C, f) # None => BitOf(C, f) \in t.bits)
<1> DEFINE t == set(C, m, f, v)
<1>1. /\ IsObject(C, t) /\ t.val[f] = v /\ t.bits = m.bits \union Bit(BitOf(C, f))
      /\ \A g \in Members(C) \ {f} : t.val[g] = m.val[g]
      /\ t.unknown = m.unknown
  BY SetIs
<1> HIDE DEF t
<1>2. ASSUME NEW g \in Members(C) \ {f}, BitOf(C, g) # None
      PROVE  BitOf(C, g) \in t.bits <=> BitOf(C, g) \in m.bits
  <2>1. BitOf(C, g) # BitOf(C, f)
    BY <1>2 DEF BitsAgree
  <2> QED
    BY <1>1, <2>1 DEF Bit
<1> QED
  BY <1>1, <1>2 DEF AtOnly, Bit, t

\* A member is taken away, v being what it leaves.
Dropped(C, m, f, v) == [m EXCEPT !.val[f] = v, !.bits = @ \ Bit(BitOf(C, f))]

LEMMA DropOnly ==
    ASSUME NEW C, BitsAgree(C), NEW m, IsObject(C, m), NEW f \in Members(C), NEW v
    PROVE  LET t == Dropped(C, m, f, v)
           IN  /\ AtOnly(C, m, t, f) /\ t.val[f] = v
               /\ BitOf(C, f) # None => BitOf(C, f) \notin t.bits
<1> DEFINE t == Dropped(C, m, f, v)
<1>1. /\ IsObject(C, t) /\ t.val[f] = v /\ t.bits = m.bits \ Bit(BitOf(C, f))
      /\ \A g \in Members(C) \ {f} : t.val[g] = m.val[g]
      /\ t.unknown = m.unknown
  BY DEF IsObject, Dropped
<1> HIDE DEF t
<1>2. ASSUME NEW g \in Members(C) \ {f}, BitOf(C, g) # None
      PROVE  BitOf(C, g) \in t.bits <=> BitOf(C, g) \in m.bits
  <2>1. BitOf(C, g) # BitOf(C, f)
    BY <1>2 DEF BitsAgree
  <2> QED
    BY <1>1, <2>1 DEF Bit
<1> QED
  BY <1>1, <1>2 DEF AtOnly, Bit, t

-----------------------------------------------------------------------------
(* What the accessors do to a message. *)

\* A message object as the operations of its class leave it.
Good(C, m) == Proper(C, m, {Newer}) /\ Retained(C, m)

\* t is m but for the member f.
Touches(C, m, t, f) ==
    /\ Good(C, t) /\ t.unknown = m.unknown
    /\ \A g \in Members(C) \ {f} : /\ has(C, t, g) <=> has(C, m, g)
                                   /\ Observed(C, t, g) = Observed(C, m, g)

LEMMA AtOnlyTouches ==
    ASSUME NEW C, BitsAgree(C), NEW m, Good(C, m), NEW f \in Members(C), NEW t,
           AtOnly(C, m, t, f), Shaped(C, f, t.val[f], {Newer}), Kept(C, t.bits, f, t.val[f])
    PROVE  Touches(C, m, t, f)
<1>1. t.unknown = m.unknown
  BY DEF AtOnly
<1>2. Proper(C, m, {Newer}) /\ Retained(C, m)
  BY DEF Good
<1> QED
  BY <1>1, <1>2, OthersKept DEF Touches, Good

\* A setter makes the member present or leaves a member without a has-bit.
LEMMA SetTouches ==
    ASSUME NEW C, BitsAgree(C), NEW m, Good(C, m), NEW f \in Members(C), NEW v,
           Shaped(C, f, v, {Newer}), TypeOf(C, f) = "message" => v # Null
    PROVE  Touches(C, m, set(C, m, f, v), f) /\ set(C, m, f, v).val[f] = v
<1> DEFINE t == set(C, m, f, v)
<1>1. IsObject(C, m)
  BY DEF Good, Proper, Flat
<1>2. AtOnly(C, m, t, f) /\ t.val[f] = v /\ (BitOf(C, f) # None => BitOf(C, f) \in t.bits)
  BY <1>1, SetOnly
<1> HIDE DEF t
<1>3. Kept(C, t.bits, f, t.val[f])
  BY <1>2 DEF Kept
<1> QED
  BY <1>2, <1>3, AtOnlyTouches DEF t

LEMMA ValuesAreShaped ==
    ASSUME NEW C, NEW f \in Scalars(C), NEW v \in Values(TypeOf(C, f))
    PROVE  Shaped(C, f, v, {Newer}) /\ TypeOf(C, f) # "message"
<1>1. TypeOf(C, f) # "message"
  BY DEF Scalars
<1>2. \A name, len : len \in Nat => IsBytes(Text(name, len)) /\ IsBytes(Binary(name, len))
  BY DEF IsBytes, Text, Binary, EmptyBytes
<1>3. \A w \in Values("string") \union Values("bytes") :
        w = EmptyBytes \/ \E name : \E len \in Nat : w = Text(name, len) \/ w = Binary(name, len)
  BY DEF Values
<1>4. \A w \in Values("string") \union Values("bytes") : IsBytes(w)
  BY <1>2, <1>3, DefaultsAre
<1> QED
  BY <1>1, <1>4 DEF Shaped

LEMMA GetIs ==
    ASSUME NEW C, NEW m, Good(C, m), NEW f \in Members(C), TypeOf(C, f) = "message"
    PROVE  Flat("KexMsg", get(C, m, f), {Newer})
<1>1. Points(m.val[f], {Newer})
  BY DEF Good, Proper
<1>2. Flat("KexMsg", New("KexMsg"), {Newer})
  BY EmptiedIsFlat, NewIsEmptied
<1> QED
  BY <1>1, <1>2 DEF Points, get

LEMMA MutableTouches ==
    ASSUME NEW C, BitsAgree(C), NEW m, Good(C, m), NEW f \in Members(C)
    PROVE  Touches(C, m, mutable(C, m, f), f)
<1>1. CASE TypeOf(C, f) = "message"
  <2> DEFINE v == <<get(C, m, f)>>
  <2>1. mutable(C, m, f) = set(C, m, f, v)
    BY <1>1 DEF mutable
  <2>2. Shaped(C, f, v, {Newer}) /\ v # Null
    BY <1>1, GetIs DEF Shaped, Points, Null
  <2> HIDE DEF v
  <2> QED
    BY <2>1, <2>2, SetTouches
<1>2. CASE TypeOf(C, f) # "message"
  <2> DEFINE v == m.val[f]
  <2>1. mutable(C, m, f) = set(C, m, f, v)
    BY <1>2 DEF mutable
  <2>2. Shaped(C, f, v, {Newer})
    BY <1>2 DEF Good, Proper, Flat, Shaped
  <2> HIDE DEF v
  <2> QED
    BY <1>2, <2>1, <2>2, SetTouches
<1> QED
  BY <1>1, <1>2

\* A setter of a KexMsg.
LEMMA KexSet ==
    ASSUME NEW k, Flat("KexMsg", k, {Newer}), NEW g \in Members("KexMsg"),
           NEW v \in Values(TypeOf("KexMsg", g))
    PROVE  Flat("KexMsg", set("KexMsg", k, g, v), {Newer})
<1> DEFINE C == "KexMsg"
           t == set(C, k, g, v)
<1>1. IsObject(C, t) /\ t.unknown = k.unknown /\ t.val[g] = v
      /\ \A h \in Members(C) \ {g} : t.val[h] = k.val[h]
  BY SetIs DEF Flat
<1>2. Shaped(C, g, v, {Newer})
  BY KexHasNone, ValuesAreShaped DEF Scalars
<1> HIDE DEF C, t
<1>3. \A h \in Members(C) : TypeOf(C, h) \in {"string", "bytes"} => IsBytes(t.val[h])
  BY <1>1, <1>2 DEF Shaped, Flat, C
<1> QED
  BY <1>1, <1>3 DEF Flat, C, t

\* mutable_f()->set_g(v)
LEMMA InsideTouches ==
    ASSUME NEW C, BitsAgree(C), NEW m, Good(C, m), NEW f \in Pointers(C),
           NEW g \in Members("KexMsg"), NEW v \in Values(TypeOf("KexMsg", g))
    PROVE  Touches(C, m, [mutable(C, m, f) EXCEPT !.val[f] = <<set("KexMsg", @[1], g, v)>>], f)
<1> DEFINE old == get(C, m, f)
           w == <<set("KexMsg", old, g, v)>>
           t == set(C, m, f, w)
<1>1. f \in Members(C) /\ TypeOf(C, f) = "message"
  BY DEF Pointers, Scalars
<1>2. Flat("KexMsg", old, {Newer})
  BY <1>1, GetIs
<1> HIDE DEF old
<1>3. Points(w, {Newer}) /\ w # Null
  BY <1>2, KexSet DEF Points, Null
<1>4. Touches(C, m, t, f)
  <2>1. Shaped(C, f, w, {Newer})
    BY <1>1, <1>3 DEF Shaped
  <2> HIDE DEF w
  <2> QED
    BY <1>1, <1>3, <2>1, SetTouches
<1>5. [mutable(C, m, f) EXCEPT !.val[f] = <<set("KexMsg", @[1], g, v)>>] = t
  <2>1. mutable(C, m, f) = set(C, m, f, <<old>>)
    BY <1>1 DEF mutable, old
  <2>2. IsObject(C, m)
    BY DEF Good, Proper, Flat
  <2>3. ASSUME NEW x, NEW y
        PROVE  [set(C, m, f, x) EXCEPT !.val[f] = y] = set(C, m, f, y) /\ set(C, m, f, x).val[f] = x
    BY <1>1, <2>2 DEF set, IsObject
  <2>4. [set(C, m, f, <<old>>) EXCEPT !.val[f] = w] = t /\ set(C, m, f, <<old>>).val[f] = <<old>>
    BY <2>3
  <2> QED
    BY <2>1, <2>4
<1> QED
  BY <1>4, <1>5

\* A member is taken away: its has-bit goes, and what stays is empty.
LEMMA DropTouches ==
    ASSUME NEW C, BitsAgree(C), NEW m, Good(C, m), NEW f \in Members(C), NEW v,
           IF TypeOf(C, f) = "message" THEN v \in {Null, <<New("KexMsg")>>}
           ELSE v = Default(TypeOf(C, f))
    PROVE  Touches(C, m, Dropped(C, m, f, v), f) /\ ~has(C, Dropped(C, m, f, v), f)
<1> DEFINE t == Dropped(C, m, f, v)
<1>1. IsObject(C, m)
  BY DEF Good, Proper, Flat
<1>2. AtOnly(C, m, t, f) /\ t.val[f] = v /\ (BitOf(C, f) # None => BitOf(C, f) \notin t.bits)
  BY <1>1, DropOnly
<1> HIDE DEF t
<1>3. Shaped(C, f, v, {Newer})
  <2>1. Flat("KexMsg", New("KexMsg"), {Newer})
    BY EmptiedIsFlat, NewIsEmptied
  <2> QED
    BY <2>1, DefaultsAre DEF Shaped, Points
<1>4. Kept(C, t.bits, f, v)
  <2>1. CASE TypeOf(C, f) = "message"
    <3>1. BitOf(C, f) # None
      BY <2>1 DEF BitsAgree
    <3> QED
      BY <1>2, <2>1, <3>1 DEF Kept
  <2>2. CASE TypeOf(C, f) # "message"
    BY <2>2 DEF Kept
  <2> QED
    BY <2>1, <2>2
<1>5. ~has(C, t, f)
  <2>1. CASE BitOf(C, f) = None
    <3>1. TypeOf(C, f) # "message"
      BY <2>1 DEF BitsAgree
    <3> QED
      BY <1>2, <2>1, <3>1 DEF has, Present
  <2>2. CASE BitOf(C, f) # None
    BY <1>2, <2>2 DEF has, Present
  <2> QED
    BY <2>1, <2>2
<1> QED
  BY <1>2, <1>3, <1>4, <1>5, AtOnlyTouches DEF t

LEMMA ClearFieldTouches ==
    ASSUME NEW C, BitsAgree(C), NEW m, Good(C, m), NEW f \in Members(C)
    PROVE  Touches(C, m, clear_field(C, m, f), f)
<1> DEFINE v == IF TypeOf(C, f) # "message" THEN Default(TypeOf(C, f))
                ELSE IF m.val[f] = Null THEN Null ELSE <<ClearKex(m.val[f][1])>>
<1>1. clear_field(C, m, f) = Dropped(C, m, f, v)
  <2>1. IsObject(C, m)
    BY DEF Good, Proper, Flat
  <2> QED
    BY <2>1 DEF clear_field, IsObject, Dropped
<1>2. IF TypeOf(C, f) = "message" THEN v \in {Null, <<New("KexMsg")>>}
      ELSE v = Default(TypeOf(C, f))
  BY ClearKexIsNew
<1> HIDE DEF v
<1> QED
  BY <1>1, <1>2, DropTouches

\* release_f and set_allocated_f(nullptr).
LEMMA ReleaseTouches ==
    ASSUME NEW C, BitsAgree(C), NEW m, Good(C, m), NEW f \in Members(C)
    PROVE  LET t == set_allocated(C, m, f, Null) IN Touches(C, m, t, f) /\ ~has(C, t, f)
<1> DEFINE v == Default(TypeOf(C, f))
<1>1. IF TypeOf(C, f) = "message" THEN v \in {Null, <<New("KexMsg")>>} ELSE v = v
  BY DefaultsAre
<1>2. set_allocated(C, m, f, Null) = Dropped(C, m, f, v)
  BY DEF set_allocated, Dropped
<1> HIDE DEF v
<1> QED
  BY <1>1, <1>2, DropTouches DEF v

\* set_allocated_f(y.release_f()): what y had of f is in t now; a sub-message that was
\* not present may be there as an empty one.
Moved(C, y, t, f) ==
    /\ has(C, y, f) => has(C, t, f) /\ Observed(C, t, f) = Observed(C, y, f)
    /\ ~has(C, y, f) /\ has(C, t, f) =>
         TypeOf(C, f) = "message" /\ Observed(C, t, f) = KexValue(New("KexMsg"))

LEMMA MoveMessage ==
    ASSUME NEW C, BitsAgree(C), NEW m, Good(C, m), NEW y, Good(C, y),
           NEW f \in Members(C), TypeOf(C, f) = "message"
    PROVE  LET t == set_allocated(C, m, f, released(C, y, f))
           IN  Touches(C, m, t, f) /\ Moved(C, y, t, f)
<1> DEFINE p == y.val[f]
           t == set_allocated(C, m, f, p)
<1>1. released(C, y, f) = p
  BY DEF released
<1>2. /\ Points(p, {Newer}) /\ BitOf(C, f) # None
      /\ IF BitOf(C, f) \in y.bits THEN p # Null ELSE p \in {Null, <<New("KexMsg")>>}
  BY DEF Good, Proper, Retained, Kept, BitsAgree
<1>3. CASE p = Null
  <2>1. Touches(C, m, t, f) /\ ~has(C, t, f)
    BY <1>3, ReleaseTouches
  <2>2. ~has(C, y, f)
    BY <1>2, <1>3 DEF has, Present
  <2> QED
    BY <1>1, <2>1, <2>2 DEF Moved
<1>4. CASE p # Null
  <2>1. t = set(C, m, f, p)
    BY <1>4 DEF set_allocated
  <2>2. Shaped(C, f, p, {Newer})
    BY <1>2 DEF Shaped
  <2>3. IsObject(C, m)
    BY DEF Good, Proper, Flat
  <2> HIDE DEF p
  <2>4. Touches(C, m, set(C, m, f, p), f)
    BY <1>4, <2>2, SetTouches
  <2>5. set(C, m, f, p).val[f] = p /\ BitOf(C, f) \in set(C, m, f, p).bits
    BY <1>2, <2>3, SetOnly
  <2>6. t.val[f] = p /\ has(C, t, f)
    BY <1>2, <2>1, <2>5 DEF has, Present
  <2>7. Observed(C, t, f) = KexValue(p[1])
    BY <1>4, <2>6 DEF Observed, get
  <2>8. has(C, y, f) => Observed(C, y, f) = KexValue(p[1])
    BY <1>4 DEF Observed, get, p
  <2>9. ~has(C, y, f) => p[1] = New("KexMsg")
    BY <1>2, <1>4 DEF has, Present
  <2> QED
    BY <1>1, <2>1, <2>4, <2>6, <2>7, <2>8, <2>9 DEF Moved
<1> QED
  BY <1>3, <1>4

LEMMA MoveScalar ==
    ASSUME NEW C, BitsAgree(C), NEW m, Good(C, m), NEW y, Good(C, y),
           NEW f \in Members(C), TypeOf(C, f) # "message"
    PROVE  LET t == set_allocated(C, m, f, released(C, y, f))
           IN  Touches(C, m, t, f) /\ Moved(C, y, t, f)
<1> DEFINE v == y.val[f]
           t == set_allocated(C, m, f, released(C, y, f))
<1>1. CASE BitOf(C, f) \in y.bits \union {None}
  <2>1. released(C, y, f) = <<v>>
    BY <1>1 DEF released
  <2>2. t = set(C, m, f, v)
    BY <2>1 DEF set_allocated, Null
  <2>3. Shaped(C, f, v, {Newer})
    BY DEF Shaped, Good, Proper, Flat
  <2>4. IsObject(C, m)
    BY DEF Good, Proper, Flat
  <2> HIDE DEF v
  <2>5. Touches(C, m, set(C, m, f, v), f)
    BY <2>3, SetTouches
  <2>6. set(C, m, f, v).val[f] = v /\ (BitOf(C, f) # None => BitOf(C, f) \in set(C, m, f, v).bits)
    BY <2>4, SetOnly
  <2> HIDE DEF t
  <2>7. t.val[f] = v /\ Observed(C, t, f) = v
    BY <2>2, <2>6 DEF Observed
  <2>8. has(C, t, f) <=> has(C, y, f)
    BY <1>1, <2>2, <2>6 DEF has, Present, v
  <2>9. Observed(C, y, f) = v
    BY DEF Observed, v
  <2> QED
    BY <2>2, <2>5, <2>7, <2>8, <2>9 DEF Moved, t
<1>2. CASE BitOf(C, f) \notin y.bits \union {None}
  <2>1. released(C, y, f) = Null
    BY <1>2 DEF released
  <2>2. Touches(C, m, t, f) /\ ~has(C, t, f)
    BY <2>1, ReleaseTouches
  <2>3. ~has(C, y, f)
    BY <1>2 DEF has, Present
  <2> QED
    BY <2>2, <2>3 DEF Moved
<1> QED
  BY <1>1, <1>2

-----------------------------------------------------------------------------
(* What can be observed of a message. *)

Seen(C, m) == [fields |-> [f \in Fields(C, m) |-> Observed(C, m, f)], other |-> m.unknown]

LEMMA SeenIs ==
    ASSUME NEW C, NEW m
    PROVE  /\ DOMAIN Seen(C, m).fields = {f \in Members(C) : has(C, m, f)}
           /\ \A f \in Members(C) : has(C, m, f) => Seen(C, m).fields[f] = Observed(C, m, f)
           /\ Seen(C, m).other = m.unknown
  BY DEF Seen, Fields

\* Two messages of which the same can be observed.
LEMMA SameSeen ==
    ASSUME NEW C, NEW m, NEW t, m.unknown = t.unknown,
           \A f \in Members(C) : /\ has(C, t, f) <=> has(C, m, f)
                                 /\ has(C, m, f) => Observed(C, t, f) = Observed(C, m, f)
    PROVE  Seen(C, t) = Seen(C, m)
<1>1. Fields(C, t) = Fields(C, m)
  BY DEF Fields
<1>2. \A f \in Fields(C, m) : Observed(C, t, f) = Observed(C, m, f)
  BY DEF Fields
<1>3. [f \in Fields(C, t) |-> Observed(C, t, f)] = [f \in Fields(C, m) |-> Observed(C, m, f)]
  BY <1>1, <1>2
<1> QED
  BY <1>3, Zenon DEF Seen

\* Two values that differ in f only.
Changed(v, w, f) ==
    /\ w.other = v.other
    /\ Restrict(w.fields, DOMAIN w.fields \ {f}) = Restrict(v.fields, DOMAIN v.fields \ {f})

LEMMA TouchChanges ==
    ASSUME NEW C, NEW m, NEW t, NEW f, Touches(C, m, t, f)
    PROVE  /\ Changed(Seen(C, m), Seen(C, t), f)
           /\ ~has(C, m, f) /\ ~has(C, t, f) => Seen(C, t) = Seen(C, m)
<1> DEFINE v == Seen(C, m)
           w == Seen(C, t)
<1>1. \A g \in Members(C) \ {f} : /\ has(C, t, g) <=> has(C, m, g)
                                  /\ Observed(C, t, g) = Observed(C, m, g)
  BY DEF Touches
<1>2. /\ DOMAIN v.fields = {g \in Members(C) : has(C, m, g)}
      /\ DOMAIN w.fields = {g \in Members(C) : has(C, t, g)}
      /\ \A g \in Members(C) : has(C, m, g) => v.fields[g] = Observed(C, m, g)
      /\ \A g \in Members(C) : has(C, t, g) => w.fields[g] = Observed(C, t, g)
  BY SeenIs
<1>3. v.other = m.unknown /\ w.other = t.unknown /\ t.unknown = m.unknown
  BY SeenIs DEF Touches
<1>4. ~has(C, m, f) /\ ~has(C, t, f) => w = v
  BY <1>1, <1>3, SameSeen
<1> HIDE DEF v, w
<1>5. DOMAIN w.fields \ {f} = DOMAIN v.fields \ {f}
  BY <1>1, <1>2
<1>6. \A g \in DOMAIN v.fields \ {f} : w.fields[g] = v.fields[g]
  BY <1>1, <1>2
<1>7. Restrict(w.fields, DOMAIN w.fields \ {f}) = Restrict(v.fields, DOMAIN v.fields \ {f})
  BY <1>5, <1>6 DEF Restrict
<1> QED
  BY <1>3, <1>4, <1>7 DEF Changed, v, w

\* An emptied message is the message without fields.
LEMMA EmptiedSeen ==
    ASSUME NEW C, BitsAgree(C), NEW m, Emptied(C, m)
    PROVE  Seen(C, m).fields = <<>> /\ Seen(C, m) = Abstract!Nothing
<1>1. \A f \in Members(C) : ~has(C, m, f)
  BY EmptiedIs
<1>2. Fields(C, m) = {}
  BY <1>1 DEF Fields
<1>3. m.unknown = <<>>
  BY DEF Emptied
<1>4. [f \in Fields(C, m) |-> Observed(C, m, f)] = <<>>
  BY <1>2
<1> QED
  BY <1>3, <1>4 DEF Seen, Abstract!Nothing

LEMMA KexValueNew == KexValue(New("KexMsg")) = <<>>
<1>1. \A g \in Members("KexMsg") : ~has("KexMsg", New("KexMsg"), g)
  BY KexHasNone, NewIs DEF has, Present
<1>2. Fields("KexMsg", New("KexMsg")) = {}
  BY <1>1 DEF Fields
<1> QED
  BY <1>2 DEF KexValue

-----------------------------------------------------------------------------
(* Merging and copying. *)

\* t is m with y merged into it.
Merged(C, m, y, t) ==
    /\ IsObject(C, t) /\ t.bits = m.bits \union y.bits
    /\ t.unknown = m.unknown \o y.unknown
    /\ \A f \in Members(C) :
         /\ ~has(C, y, f) => t.val[f] = m.val[f]
         /\ has(C, y, f) =>
              /\ TypeOf(C, f) # "message" \/ m.val[f] = Null => t.val[f] = y.val[f]
              /\ TypeOf(C, f) = "message" /\ m.val[f] # Null =>
                   t.val[f] = <<MergeKex(m.val[f][1], y.val[f][1])>>

LEMMA MergeIs ==
    ASSUME NEW C, BitsAgree(C), NEW m, NEW y
    PROVE  Merged(C, m, y, MergeFrom(C, m, y))
<1> DEFINE taken(f) == Present(C, y, f, Class[C].merge[f])
           merged(f) == IF TypeOf(C, f) # "message" THEN y.val[f]
                        ELSE IF m.val[f] = Null THEN y.val[f]
                        ELSE <<MergeKex(m.val[f][1], y.val[f][1])>>
           val == [f \in Members(C) |-> IF taken(f) THEN merged(f) ELSE m.val[f]]
           t == [bits |-> m.bits \union y.bits, unknown |-> m.unknown \o y.unknown, val |-> val]
<1>1. MergeFrom(C, m, y) = t
  BY DEF MergeFrom, MergeWith
<1>2. \A f \in Members(C) : taken(f) <=> has(C, y, f)
  BY DEF BitsAgree, has
<1> HIDE DEF taken, merged
<1>3. /\ DOMAIN val = Members(C)
      /\ \A f \in Members(C) : val[f] = IF taken(f) THEN merged(f) ELSE m.val[f]
  OBVIOUS
<1> HIDE DEF val
<1>4. /\ IsObject(C, t) /\ t.bits = m.bits \union y.bits /\ t.unknown = m.unknown \o y.unknown
      /\ t.val = val
  BY <1>3 DEF IsObject
<1> HIDE DEF t
<1>5. ASSUME NEW f \in Members(C)
      PROVE  t.val[f] = IF has(C, y, f) THEN merged(f) ELSE m.val[f]
  BY <1>2, <1>3, <1>4
<1> QED
  BY <1>1, <1>4, <1>5 DEF merged, Merged

\* Which members are there afterwards.
LEMMA MergeHas ==
    ASSUME NEW C, BitsAgree(C), NEW m, NEW y, NEW f \in Members(C)
    PROVE  has(C, MergeFrom(C, m, y), f) <=> has(C, m, f) \/ has(C, y, f)
<1> DEFINE t == MergeFrom(C, m, y)
<1>0. Merged(C, m, y, t)
  BY MergeIs
<1>1. /\ t.bits = m.bits \union y.bits
      /\ ~has(C, y, f) => t.val[f] = m.val[f]
      /\ has(C, y, f) /\ TypeOf(C, f) # "message" => t.val[f] = y.val[f]
  BY <1>0 DEF Merged
<1> HIDE DEF t
<1>2. CASE BitOf(C, f) = None
  <2>1. TypeOf(C, f) # "message"
    BY <1>2 DEF BitsAgree
  <2> QED
    BY <1>1, <1>2, <2>1 DEF has, Present, t
<1>3. CASE BitOf(C, f) # None
  BY <1>1, <1>3 DEF has, Present, t
<1> QED
  BY <1>2, <1>3

\* Two KexMsg: what y has, y wins.
LEMMA MergeKexIs ==
    ASSUME NEW k, Flat("KexMsg", k, {Newer}), NEW y, Flat("KexMsg", y, {Newer})
    PROVE  /\ Flat("KexMsg", MergeKex(k, y), {Newer})
           /\ DOMAIN KexValue(MergeKex(k, y)) = DOMAIN KexValue(k) \union DOMAIN KexValue(y)
           /\ \A g \in DOMAIN KexValue(MergeKex(k, y)) :
                KexValue(MergeKex(k, y))[g] = IF g \in DOMAIN KexValue(y) THEN KexValue(y)[g]
                                              ELSE KexValue(k)[g]
<1> DEFINE C == "KexMsg"
           t == MergeFrom(C, k, y)
<1>1. MergeKex(k, y) = t
  <2>1. \A f \in Members("KexMsg") : TypeOf("KexMsg", f) # "message"
    BY KexHasNone
  <2> QED
    BY <2>1 DEF MergeKex, MergeFrom, MergeWith
<1>2. \A f \in Members(C) : TypeOf(C, f) # "message"
  BY KexHasNone
<1>3. BitsAgree(C)
  BY KexAgrees
<1> HIDE DEF C
<1>0. Merged(C, k, y, t)
  BY <1>3, MergeIs
<1>4. /\ IsObject(C, t) /\ t.unknown = k.unknown \o y.unknown
      /\ \A f \in Members(C) : /\ ~has(C, y, f) => t.val[f] = k.val[f]
                               /\ has(C, y, f) => t.val[f] = y.val[f]
  BY <1>0, <1>2 DEF Merged
<1>5. \A f \in Members(C) : has(C, t, f) <=> has(C, k, f) \/ has(C, y, f)
  BY <1>3, MergeHas
<1> HIDE DEF t
<1>6. t.unknown \in Seq({Newer})
  BY <1>4, ConcatProperties DEF Flat, C
<1>7. Flat(C, t, {Newer})
  BY <1>4, <1>6 DEF Flat, C
<1>8. \A m : /\ DOMAIN KexValue(m) = {f \in Members(C) : has(C, m, f)}
             /\ \A f \in DOMAIN KexValue(m) : KexValue(m)[f] = m.val[f]
  BY DEF KexValue, Fields, C
<1>9. DOMAIN KexValue(t) = DOMAIN KexValue(k) \union DOMAIN KexValue(y)
  BY <1>5, <1>8
<1>10. ASSUME NEW g \in DOMAIN KexValue(t)
       PROVE  KexValue(t)[g] = IF g \in DOMAIN KexValue(y) THEN KexValue(y)[g] ELSE KexValue(k)[g]
  <2>1. g \in Members(C) /\ KexValue(t)[g] = t.val[g]
    BY <1>8
  <2>2. CASE has(C, y, g)
    BY <1>4, <1>8, <2>1, <2>2
  <2>3. CASE ~has(C, y, g)
    BY <1>4, <1>5, <1>8, <2>1, <2>3
  <2> QED
    BY <2>2, <2>3
<1> QED
  BY <1>1, <1>7, <1>9, <1>10 DEF C

\* A member that is a message, on either side of a merge.
LEMMA MemberIs ==
    ASSUME NEW C, BitsAgree(C), NEW m, Good(C, m), NEW f \in Members(C), TypeOf(C, f) = "message"
    PROVE  /\ BitOf(C, f) # None /\ (has(C, m, f) <=> BitOf(C, f) \in m.bits)
           /\ m.val[f] = Null \/ \E k : m.val[f] = <<k>> /\ Flat("KexMsg", k, {Newer})
           /\ has(C, m, f) => m.val[f] # Null
           /\ ~has(C, m, f) => m.val[f] \in {Null, <<New("KexMsg")>>}
<1>1. BitOf(C, f) # None
  BY DEF BitsAgree
<1>2. Points(m.val[f], {Newer}) /\ Kept(C, m.bits, f, m.val[f])
  BY DEF Good, Proper, Retained
<1> QED
  BY <1>1, <1>2 DEF Points, Kept, has, Present

LEMMA MergeMember ==
    ASSUME NEW C, BitsAgree(C), NEW m, Good(C, m), NEW y, Good(C, y),
           NEW t, Merged(C, m, y, t), NEW f \in Members(C), TypeOf(C, f) = "message"
    PROVE  Points(t.val[f], {Newer}) /\ Kept(C, t.bits, f, t.val[f])
<1>1. /\ ~has(C, y, f) => t.val[f] = m.val[f]
      /\ has(C, y, f) /\ m.val[f] = Null => t.val[f] = y.val[f]
      /\ has(C, y, f) /\ m.val[f] # Null => t.val[f] = <<MergeKex(m.val[f][1], y.val[f][1])>>
      /\ t.bits = m.bits \union y.bits
  BY DEF Merged
<1>2. /\ BitOf(C, f) # None
      /\ has(C, m, f) <=> BitOf(C, f) \in m.bits
      /\ has(C, y, f) <=> BitOf(C, f) \in y.bits
      /\ has(C, m, f) => m.val[f] # Null
      /\ has(C, y, f) => y.val[f] # Null
      /\ ~has(C, m, f) => m.val[f] \in {Null, <<New("KexMsg")>>}
      /\ m.val[f] = Null \/ \E k : m.val[f] = <<k>> /\ Flat("KexMsg", k, {Newer})
      /\ y.val[f] = Null \/ \E k : y.val[f] = <<k>> /\ Flat("KexMsg", k, {Newer})
  BY MemberIs
<1>3. CASE has(C, y, f) /\ m.val[f] # Null
  <2>1. PICK k, l : /\ m.val[f] = <<k>> /\ Flat("KexMsg", k, {Newer})
                    /\ y.val[f] = <<l>> /\ Flat("KexMsg", l, {Newer})
    BY <1>2, <1>3
  <2>2. t.val[f] = <<MergeKex(k, l)>>
    BY <1>1, <1>3, <2>1
  <2>3. Flat("KexMsg", MergeKex(k, l), {Newer})
    BY <2>1, MergeKexIs
  <2>4. BitOf(C, f) \in t.bits
    BY <1>1, <1>2, <1>3
  <2> QED
    BY <2>2, <2>3, <2>4 DEF Points, Kept, Null
<1>4. CASE has(C, y, f) /\ m.val[f] = Null
  BY <1>1, <1>2, <1>4 DEF Points, Kept
<1>5. CASE ~has(C, y, f)
  <2>1. t.val[f] = m.val[f] /\ (BitOf(C, f) \in t.bits <=> BitOf(C, f) \in m.bits)
    BY <1>1, <1>2, <1>5
  <2> QED
    BY <1>2, <2>1 DEF Points, Kept
<1> QED
  BY <1>3, <1>4, <1>5

LEMMA MergeGood ==
    ASSUME NEW C, BitsAgree(C), NEW m, Good(C, m), NEW y, Good(C, y)
    PROVE  Good(C, MergeFrom(C, m, y))
<1> DEFINE t == MergeFrom(C, m, y)
<1>1. Merged(C, m, y, t)
  BY MergeIs
<1> HIDE DEF t
<1>2. t.unknown \in Seq({Newer})
  BY <1>1, ConcatProperties DEF Good, Proper, Flat, Merged
<1>3. ASSUME NEW f \in Members(C), TypeOf(C, f) # "message"
      PROVE  Shaped(C, f, t.val[f], {Newer}) /\ Kept(C, t.bits, f, t.val[f])
  <2>1. /\ t.val[f] \in {m.val[f], y.val[f]} /\ t.bits = m.bits \union y.bits
        /\ ~has(C, y, f) => t.val[f] = m.val[f]
    BY <1>1, <1>3 DEF Merged
  <2>2. TypeOf(C, f) \in {"string", "bytes"} => IsBytes(m.val[f]) /\ IsBytes(y.val[f])
    BY DEF Good, Proper, Flat
  <2>3. Kept(C, m.bits, f, m.val[f])
    BY DEF Good, Retained
  <2>4. BitOf(C, f) # None /\ BitOf(C, f) \notin t.bits
          => ~has(C, y, f) /\ BitOf(C, f) \notin m.bits
    BY <2>1 DEF has, Present
  <2> QED
    BY <1>3, <2>1, <2>2, <2>3, <2>4 DEF Shaped, Kept
<1>4. \A f \in Members(C) : TypeOf(C, f) = "message" =>
        Points(t.val[f], {Newer}) /\ Kept(C, t.bits, f, t.val[f])
  BY <1>1, MergeMember
<1>5. IsObject(C, t)
  BY <1>1 DEF Merged
<1>6. Proper(C, t, {Newer})
  BY <1>2, <1>3, <1>4, <1>5 DEF Proper, Flat, Shaped
<1>7. Retained(C, t)
  BY <1>3, <1>4 DEF Retained
<1> QED
  BY <1>6, <1>7 DEF Good, t

\* What is observed of a member after a merge.
JoinedMember(C, m, y, t, f) ==
    /\ ~has(C, y, f) => Observed(C, t, f) = Observed(C, m, f)
    /\ has(C, y, f) /\ (~has(C, m, f) \/ TypeOf(C, f) # "message") =>
         Observed(C, t, f) = Observed(C, y, f)
    /\ has(C, y, f) /\ has(C, m, f) /\ TypeOf(C, f) = "message" =>
         Observed(C, t, f) =
           [g \in DOMAIN Observed(C, m, f) \union DOMAIN Observed(C, y, f) |->
              IF g \in DOMAIN Observed(C, y, f) THEN Observed(C, y, f)[g]
              ELSE Observed(C, m, f)[g]]

LEMMA MergeObserved ==
    ASSUME NEW C, BitsAgree(C), NEW m, Good(C, m), NEW y, Good(C, y),
           NEW t, Merged(C, m, y, t), NEW f \in Members(C)
    PROVE  JoinedMember(C, m, y, t, f)
<1>1. /\ ~has(C, y, f) => t.val[f] = m.val[f]
      /\ has(C, y, f) /\ (TypeOf(C, f) # "message" \/ m.val[f] = Null) => t.val[f] = y.val[f]
      /\ has(C, y, f) /\ TypeOf(C, f) = "message" /\ m.val[f] # Null =>
           t.val[f] = <<MergeKex(m.val[f][1], y.val[f][1])>>
  BY DEF Merged
<1>2. ASSUME NEW u, t.val[f] = u.val[f] PROVE Observed(C, t, f) = Observed(C, u, f)
  BY <1>2 DEF Observed, get
<1>3. CASE ~has(C, y, f) \/ TypeOf(C, f) # "message" \/ m.val[f] = Null
  <2>1. TypeOf(C, f) = "message" /\ has(C, m, f) => m.val[f] # Null
    BY MemberIs
  <2> QED
    BY <1>1, <1>2, <1>3, <2>1 DEF JoinedMember
<1>4. CASE has(C, y, f) /\ TypeOf(C, f) = "message" /\ m.val[f] # Null
  <2>1. PICK k, l : /\ m.val[f] = <<k>> /\ Flat("KexMsg", k, {Newer})
                    /\ y.val[f] = <<l>> /\ Flat("KexMsg", l, {Newer})
    <3>1. \E k : m.val[f] = <<k>> /\ Flat("KexMsg", k, {Newer})
      BY <1>4, MemberIs
    <3>2. y.val[f] # Null
      BY <1>4, MemberIs
    <3>3. \E l : y.val[f] = <<l>> /\ Flat("KexMsg", l, {Newer})
      BY <1>4, <3>2, MemberIs
    <3> QED
      BY <3>1, <3>3
  <2> DEFINE s == MergeKex(k, l)
  <2>2. t.val[f] = <<s>>
    BY <1>1, <1>4, <2>1
  <2>3. /\ DOMAIN KexValue(s) = DOMAIN KexValue(k) \union DOMAIN KexValue(l)
        /\ \A g \in DOMAIN KexValue(s) :
             KexValue(s)[g] = IF g \in DOMAIN KexValue(l) THEN KexValue(l)[g] ELSE KexValue(k)[g]
    BY <2>1, MergeKexIs
  <2> HIDE DEF s
  <2>4. /\ Observed(C, t, f) = KexValue(s) /\ Observed(C, m, f) = KexValue(k)
        /\ Observed(C, y, f) = KexValue(l)
    BY <1>4, <2>1, <2>2 DEF Observed, get, Null
  <2>5. KexValue(s) = [g \in DOMAIN KexValue(k) \union DOMAIN KexValue(l) |->
                         IF g \in DOMAIN KexValue(l) THEN KexValue(l)[g] ELSE KexValue(k)[g]]
    BY <2>3 DEF KexValue
  <2>6. ~has(C, m, f) => KexValue(s) = KexValue(l)
    <3>1. ~has(C, m, f) => k = New("KexMsg")
      <4>1. ~has(C, m, f) => m.val[f] \in {Null, <<New("KexMsg")>>}
        BY <1>4, MemberIs
      <4> QED
        BY <1>4, <2>1, <4>1
    <3>2. DOMAIN KexValue(New("KexMsg")) = {}
      BY KexValueNew
    <3> SUFFICES ASSUME ~has(C, m, f) PROVE KexValue(s) = KexValue(l)
      OBVIOUS
    <3>3. DOMAIN KexValue(s) = DOMAIN KexValue(l)
      BY <2>3, <3>1, <3>2
    <3>4. \A g \in DOMAIN KexValue(l) : KexValue(s)[g] = KexValue(l)[g]
      BY <2>3, <3>3
    <3> QED
      BY <3>3, <3>4 DEF KexValue
  <2> QED
    BY <1>4, <2>4, <2>5, <2>6 DEF JoinedMember
<1> QED
  BY <1>3, <1>4

LEMMA MergeSeen ==
    ASSUME NEW C, BitsAgree(C), NEW m, Good(C, m), NEW y, Good(C, y)
    PROVE  Seen(C, MergeFrom(C, m, y)) = Abstract!Joined(Seen(C, m), Seen(C, y))
<1> DEFINE t == MergeFrom(C, m, y)
           v == Seen(C, m)
           w == Seen(C, y)
           joined(f) == IF f \notin DOMAIN w.fields THEN v.fields[f]
                        ELSE IF f \notin DOMAIN v.fields \/ f \notin {"kex"} THEN w.fields[f]
                        ELSE [g \in DOMAIN v.fields[f] \union DOMAIN w.fields[f] |->
                                IF g \in DOMAIN w.fields[f] THEN w.fields[f][g]
                                ELSE v.fields[f][g]]
<1>1. Merged(C, m, y, t)
  BY MergeIs
<1>2. \A f \in Members(C) : has(C, t, f) <=> has(C, m, f) \/ has(C, y, f)
  BY MergeHas
<1>3. t.unknown = m.unknown \o y.unknown
  BY <1>1 DEF Merged
<1> HIDE DEF t
<1>4. /\ DOMAIN v.fields = {f \in Members(C) : has(C, m, f)}
      /\ DOMAIN w.fields = {f \in Members(C) : has(C, y, f)}
      /\ \A f \in Members(C) : has(C, m, f) => v.fields[f] = Observed(C, m, f)
      /\ \A f \in Members(C) : has(C, y, f) => w.fields[f] = Observed(C, y, f)
      /\ v.other = m.unknown /\ w.other = y.unknown
  BY SeenIs
<1> HIDE DEF v, w
<1>5. Fields(C, t) = DOMAIN v.fields \union DOMAIN w.fields
  BY <1>2, <1>4 DEF Fields
<1>6. ASSUME NEW f \in Fields(C, t) PROVE Observed(C, t, f) = joined(f)
  <2>1. f \in Members(C) /\ (has(C, m, f) \/ has(C, y, f))
    BY <1>2 DEF Fields
  <2>2. TypeOf(C, f) = "message" <=> f \in {"kex"}
    BY <2>1 DEF BitsAgree
  <2>0. JoinedMember(C, m, y, t, f)
    BY <1>1, <2>1, MergeObserved
  <2>3. CASE ~has(C, y, f)
    <3>1. Observed(C, t, f) = Observed(C, m, f)
      BY <2>0, <2>3 DEF JoinedMember
    <3> QED
      BY <1>4, <2>1, <2>3, <3>1
  <2>4. CASE has(C, y, f) /\ (~has(C, m, f) \/ TypeOf(C, f) # "message")
    <3>1. Observed(C, t, f) = Observed(C, y, f)
      BY <2>0, <2>4 DEF JoinedMember
    <3> QED
      BY <1>4, <2>1, <2>2, <2>4, <3>1
  <2>5. CASE has(C, y, f) /\ has(C, m, f) /\ TypeOf(C, f) = "message"
    <3>1. /\ f \in DOMAIN v.fields /\ f \in DOMAIN w.fields /\ f \in {"kex"}
          /\ v.fields[f] = Observed(C, m, f) /\ w.fields[f] = Observed(C, y, f)
      BY <1>4, <2>1, <2>2, <2>5
    <3>2. Observed(C, t, f) =
            [g \in DOMAIN Observed(C, m, f) \union DOMAIN Observed(C, y, f) |->
               IF g \in DOMAIN Observed(C, y, f) THEN Observed(C, y, f)[g]
               ELSE Observed(C, m, f)[g]]
      BY <2>0, <2>5 DEF JoinedMember
    <3> QED
      BY <3>1, <3>2
  <2> QED
    BY <2>3, <2>4, <2>5
<1>7. Abstract!Joined(v, w)
        = [fields |-> [f \in DOMAIN v.fields \union DOMAIN w.fields |-> joined(f)],
           other |-> v.other \o w.other]
  BY DEF Abstract!Joined
<1>8. Seen(C, t) = [fields |-> [f \in Fields(C, t) |-> Observed(C, t, f)], other |-> t.unknown]
  BY DEF Seen
<1> HIDE DEF joined
<1>9. [f \in Fields(C, t) |-> Observed(C, t, f)]
        = [f \in DOMAIN v.fields \union DOMAIN w.fields |-> joined(f)]
  BY <1>5, <1>6
<1>10. t.unknown = v.other \o w.other
  BY <1>3, <1>4
<1> QED
  BY <1>7, <1>8, <1>9, <1>10, Zenon DEF t, v, w

\* Into an empty message a merge brings just the other one.
LEMMA CopySeen ==
    ASSUME NEW C, BitsAgree(C), NEW m, Good(C, m), NEW y, Good(C, y)
    PROVE  Good(C, CopyFrom(C, m, y)) /\ Seen(C, CopyFrom(C, m, y)) = Seen(C, y)
<1> DEFINE e == Clear(C, m)
           t == MergeFrom(C, e, y)
<1>1. Emptied(C, e)
  BY ClearEmpties DEF Good
<1>2. Good(C, e) /\ \A f \in Members(C) : ~has(C, e, f)
  BY <1>1, EmptiedIs DEF Good
<1>3. CopyFrom(C, m, y) = t
  BY DEF CopyFrom
<1> HIDE DEF e
<1>4. Good(C, t) /\ Merged(C, e, y, t)
  BY <1>2, MergeGood, MergeIs
<1>5. \A f \in Members(C) : has(C, t, f) <=> has(C, y, f)
  BY <1>2, MergeHas
<1> HIDE DEF t
<1>6. \A f \in Members(C) : has(C, y, f) => Observed(C, t, f) = Observed(C, y, f)
  <2>1. \A f \in Members(C) : JoinedMember(C, e, y, t, f)
    BY <1>2, <1>4, MergeObserved
  <2> QED
    BY <1>2, <2>1 DEF JoinedMember
<1>7. y.unknown \in Seq({Newer}) /\ e.unknown = <<>> /\ t.unknown = e.unknown \o y.unknown
  BY <1>1, <1>4 DEF Good, Proper, Flat, Emptied, Merged
<1>8. t.unknown = y.unknown
  BY <1>7
<1> QED
  BY <1>3, <1>4, <1>5, <1>6, <1>8, SameSeen

\* A copy, but for members whose has-bit is not set: those may be the default.
LEMMA CopyIs ==
    ASSUME NEW C, BitsAgree(C), NEW y, Good(C, y), NEW t, IsObject(C, t),
           t.bits = y.bits, t.unknown = y.unknown,
           \A f \in Members(C) :
             \/ t.val[f] = y.val[f]
             \/ /\ BitOf(C, f) # None /\ BitOf(C, f) \notin y.bits
                /\ t.val[f] = Default(TypeOf(C, f))
    PROVE  Good(C, t) /\ Seen(C, t) = Seen(C, y)
<1>1. ASSUME NEW f \in Members(C)
      PROVE  /\ Shaped(C, f, t.val[f], {Newer}) /\ Kept(C, t.bits, f, t.val[f])
             /\ has(C, t, f) <=> has(C, y, f)
             /\ has(C, y, f) => Observed(C, t, f) = Observed(C, y, f)
  <2>1. Shaped(C, f, y.val[f], {Newer}) /\ Kept(C, y.bits, f, y.val[f])
    BY DEF Good, Proper, Flat, Retained, Shaped
  <2>2. CASE t.val[f] = y.val[f]
    BY <2>1, <2>2 DEF has, Present, Observed, get
  <2>3. CASE /\ BitOf(C, f) # None /\ BitOf(C, f) \notin y.bits
             /\ t.val[f] = Default(TypeOf(C, f))
    <3>1. Shaped(C, f, t.val[f], {Newer}) /\ Kept(C, t.bits, f, t.val[f])
      BY <2>3, DefaultsAre DEF Shaped, Points, Kept
    <3> QED
      BY <2>3, <3>1 DEF has, Present
  <2> QED
    BY <2>2, <2>3
<1>2. Good(C, t)
  BY <1>1 DEF Good, Proper, Flat, Retained, Shaped
<1> QED
  BY <1>1, <1>2, SameSeen

LEMMA ConstructSeen ==
    ASSUME NEW C, BitsAgree(C), NEW y, Good(C, y)
    PROVE  Good(C, CopyConstruct(C, y)) /\ Seen(C, CopyConstruct(C, y)) = Seen(C, y)
<1> DEFINE val == [f \in Members(C) |-> IF Class[C].copied[f] \in y.bits \union {None}
                                        THEN y.val[f] ELSE Default(TypeOf(C, f))]
           t == [y EXCEPT !.val = val]
<1>1. CopyConstruct(C, y) = t
  BY DEF CopyConstruct
<1>2. IsObject(C, y)
  BY DEF Good, Proper, Flat
<1>3. DOMAIN val = Members(C) /\ \A f \in Members(C) :
        val[f] = IF Class[C].copied[f] \in y.bits \union {None}
                 THEN y.val[f] ELSE Default(TypeOf(C, f))
  OBVIOUS
<1> HIDE DEF val
<1>4. IsObject(C, t) /\ t.bits = y.bits /\ t.unknown = y.unknown /\ t.val = val
  BY <1>2, <1>3 DEF IsObject
<1> HIDE DEF t
<1>5. ASSUME NEW f \in Members(C)
      PROVE  \/ t.val[f] = y.val[f]
             \/ /\ BitOf(C, f) # None /\ BitOf(C, f) \notin y.bits
                /\ t.val[f] = Default(TypeOf(C, f))
  <2>1. Class[C].copied[f] \in {None, BitOf(C, f)}
    BY DEF BitsAgree
  <2> QED
    BY <1>3, <1>4, <2>1
<1> QED
  BY <1>1, <1>4, <1>5, CopyIs

LEMMA SwapSeen ==
    ASSUME NEW C, BitsAgree(C), NEW m, NEW y, Good(C, y)
    PROVE  Good(C, SwappedWith(C, m, y)) /\ Seen(C, SwappedWith(C, m, y)) = Seen(C, y)
<1> DEFINE t == SwappedWith(C, m, y)
<1>1. Class[C].swap = Members(C)
  BY DEF BitsAgree
<1>2. /\ IsObject(C, t) /\ t.bits = y.bits /\ t.unknown = y.unknown
      /\ \A f \in Members(C) : t.val[f] = y.val[f]
  BY <1>1 DEF SwappedWith, IsObject
<1> HIDE DEF t
<1> QED
  BY <1>2, CopyIs DEF t

-----------------------------------------------------------------------------
(* What is serialised arrives. *)

LEMMA ParsedAppend ==
    ASSUME NEW C, NEW m, NEW S, NEW a \in Seq(S), NEW w \in S
    PROVE  Parsed(C, m, Append(a, w)) = ParseStep(C, Parsed(C, m, a), w)
<1> DEFINE n == Len(a)
           b == Append(a, w)
<1>1. n \in Nat /\ DOMAIN a = 1..n
  BY LenProperties
<1>2. DOMAIN b = 1..n + 1 /\ b[n + 1] = w /\ \A k \in 1..n : b[k] = a[k]
  BY <1>1, AppendProperties
<1> HIDE DEF n, b
<1>3. PICK r : ParseRun(C, m, a, n, r)
  BY <1>1, ParseRuns
<1>4. PICK q : ParseRun(C, m, b, n + 1, q)
  <2>1. PICK l \in Nat : l = n + 1
    BY <1>1
  <2>2. DOMAIN b = 1..l
    BY <1>2, <2>1
  <2>3. \E q : ParseRun(C, m, b, l, q)
    BY <2>2, ParseRuns
  <2> QED
    BY <2>1, <2>3
<1> DEFINE T == {k \in Nat : k <= n => q[k] = r[k]}
<1>5. 0 \in T
  BY <1>3, <1>4 DEF ParseRun
<1>6. ASSUME NEW k \in T PROVE k + 1 \in T
  <2>1. k \in Nat /\ (k <= n => q[k] = r[k])
    OBVIOUS
  <2>2. ASSUME k + 1 <= n PROVE q[k + 1] = r[k + 1]
    <3>1. k + 1 \in 1..n /\ k + 1 \in 1..n + 1 /\ (k + 1) - 1 = k /\ k <= n
      BY <1>1, <2>1, <2>2
    <3>2. q[k + 1] = ParseStep(C, q[k], b[k + 1]) /\ r[k + 1] = ParseStep(C, r[k], a[k + 1])
      BY <1>3, <1>4, <3>1 DEF ParseRun
    <3> QED
      BY <1>2, <2>1, <3>1, <3>2
  <2> QED
    BY <2>1, <2>2
<1>7. T = Nat
  <2>1. T \in SUBSET Nat
    OBVIOUS
  <2> HIDE DEF T
  <2> QED
    BY <1>5, <1>6, <2>1, NatBySets
<1>8. q[n] = r[n]
  BY <1>1, <1>7
<1>9. n + 1 \in 1..n + 1 /\ (n + 1) - 1 = n
  BY <1>1
<1>10. q[n + 1] = ParseStep(C, q[n], w)
  BY <1>2, <1>4, <1>9 DEF ParseRun
<1> QED
  BY <1>3, <1>4, <1>8, <1>10 DEF b, ParseRun

LEMMA ParsedNothing ==
    ASSUME NEW C, NEW m
    PROVE  Parsed(C, m, <<>>) = [ok |-> TRUE, msg |-> m]
<1>1. PICK n \in Nat : n = 0
  OBVIOUS
<1>2. DOMAIN <<>> = 1..n
  BY <1>1
<1>3. PICK r : ParseRun(C, m, <<>>, n, r)
  BY <1>2, ParseRuns
<1> QED
  BY <1>1, <1>3 DEF ParseRun

\* The field that is written for the member f, whose number is num.
FieldOf(C, m, num, f) ==
    CASE TypeOf(C, f) = "int" -> Varint(num, m.val[f])
      [] TypeOf(C, f) \in {"string", "bytes"} -> Bytes(num, m.val[f])
      [] TypeOf(C, f) = "message" -> Bytes(num, SerializeKex(m.val[f][1]))

RowsOf(C) == Class[C].serialize
FieldAt(C, m, i) == FieldOf(C, m, RowsOf(C)[i].num, RowsOf(C)[i].f)

LEMMA PieceIs ==
    ASSUME NEW C, RowsAgree(C), BitsAgree(C), NEW m, NEW i \in DOMAIN RowsOf(C)
    PROVE  /\ has(C, m, RowsOf(C)[i].f) => Piece(C, m, i) = <<FieldAt(C, m, i)>>
           /\ ~has(C, m, RowsOf(C)[i].f) => Piece(C, m, i) = <<>>
<1> DEFINE row == RowsOf(C)[i]
<1>0. row.f \in Members(C) /\ row = RowOf(C, row.num, row.f) /\ row = Class[C].serialize[i]
  BY DEF RowsAgree, RowsOf
<1>1. row.type = TypeOf(C, row.f) /\ row.bit = BitOf(C, row.f)
  <2>1. \A num, f : RowOf(C, num, f).type = TypeOf(C, f) /\ RowOf(C, num, f).bit = BitOf(C, f)
    BY DEF RowOf, F
  <2> QED
    BY <1>0, <2>1
<1> HIDE DEF row
<1>2. Present(C, m, row.f, row.bit) <=> has(C, m, row.f)
  BY <1>1 DEF has
<1>3. CASE has(C, m, row.f)
  BY <1>0, <1>1, <1>2, <1>3 DEF Piece, WrittenWith, FieldAt, FieldOf, row
<1>4. CASE ~has(C, m, row.f)
  BY <1>0, <1>1, <1>2, <1>4 DEF Piece, WrittenWith, row
<1> QED
  BY <1>3, <1>4 DEF row

\* The parser finds the row that the field was written by.
LEMMA RowFound ==
    ASSUME NEW C, RowsAgree(C), BitsAgree(C), NEW m, NEW i \in DOMAIN RowsOf(C)
    PROVE  LET row == RowsOf(C)[i]
           IN  Row(C, FieldAt(C, m, i)) = {F(row.num, row.f, TypeOf(C, row.f), BitOf(C, row.f))}
<1> DEFINE row == RowsOf(C)[i]
           w == FieldAt(C, m, i)
<1>1. /\ row.f \in Members(C) /\ row.type = TypeOf(C, row.f)
      /\ row = F(row.num, row.f, TypeOf(C, row.f), BitOf(C, row.f))
  BY DEF RowsAgree, RowOf, F, RowsOf
<1>2. /\ Class[C].table = {RowsOf(C)[j] : j \in DOMAIN RowsOf(C)}
      /\ \A j \in DOMAIN RowsOf(C) : j # i => RowsOf(C)[j].num # row.num
  BY DEF RowsAgree, RowsOf, Range
<1> HIDE DEF row
<1>3. TypeOf(C, row.f) \in {"int", "string", "bytes", "message"}
  BY <1>1 DEF BitsAgree
<1>4. w = FieldOf(C, m, row.num, row.f)
  BY DEF FieldAt, row
<1> HIDE DEF w
<1>5. w.num = row.num /\ w.wt = WireType(row.type)
  BY <1>1, <1>3, <1>4, FieldsAreBytes DEF FieldOf, WireType
<1>6. row \in Class[C].table
  BY <1>2 DEF row
<1>7. \A r \in Class[C].table : r.num = row.num => r = row
  BY <1>2 DEF row
<1>8. Row(C, w) = {row}
  BY <1>5, <1>6, <1>7 DEF Row
<1> QED
  BY <1>1, <1>8 DEF row, w

\* A sub-message is read back as it was.
BackAgain(k) ==
    LET q == ParseKex(New("KexMsg"), SerializeKex(k))
    IN  q.ok /\ Flat("KexMsg", q.msg, {Newer}) /\ KexValue(q.msg) = KexValue(k)

\* The field that f is written as is read into the member f.
Arrives(C, m, f, p, s) ==
    /\ IsParse(C, s) /\ Touches(C, p.msg, s.msg, f)
    /\ has(C, s.msg, f) /\ Observed(C, s.msg, f) = Observed(C, m, f)
    /\ (TypeOf(C, f) = "string" => m.val[f].utf8) => s.ok

\* What the parser makes of the field for f: the value it had, or a copy of the message.
Regained(C, m, f, s) ==
    /\ TypeOf(C, f) # "message" => s.msg.val[f] = m.val[f]
    /\ TypeOf(C, f) = "message" =>
         \E q : /\ s.msg.val[f] = <<q>> /\ Flat("KexMsg", q, {Newer})
                /\ KexValue(q) = KexValue(m.val[f][1])
    /\ (TypeOf(C, f) = "string" => m.val[f].utf8) => s.ok

LEMMA ValueRead ==
    ASSUME NEW C, BitsAgree(C), NEW m, Good(C, m), NEW f \in Members(C), has(C, m, f),
           TypeOf(C, f) = "message" => BackAgain(m.val[f][1]),
           NEW p, Good(C, p.msg), ~has(C, p.msg, f), NEW num, NEW w, w = FieldOf(C, m, num, f),
           NEW bit, NEW s, FieldRead(C, p, w, f, TypeOf(C, f), bit, s)
    PROVE  Regained(C, m, f, s)
<1>1. TypeOf(C, f) \in {"int", "string", "bytes", "message"}
  BY DEF BitsAgree
<1>2. CASE TypeOf(C, f) = "int"
  <2>1. w = Varint(num, m.val[f])
    BY <1>2 DEF FieldOf
  <2>2. w.n = m.val[f]
    BY <2>1, FieldsAreBytes
  <2> QED
    BY <1>2, <2>2 DEF FieldRead, Regained
<1>3. CASE TypeOf(C, f) \in {"string", "bytes"}
  <2>1. w = Bytes(num, m.val[f])
    BY <1>3 DEF FieldOf
  <2>2. w.bytes = m.val[f]
    BY <2>1, FieldsAreBytes
  <2>3. m.val[f].utf8 \in BOOLEAN
    BY <1>3 DEF Good, Proper, Flat, IsBytes
  <2> QED
    BY <1>3, <2>2, <2>3 DEF FieldRead, Regained
<1>4. CASE TypeOf(C, f) = "message"
  <2> DEFINE q == ParseKex(New("KexMsg"), SerializeKex(m.val[f][1]))
  <2>1. w = Bytes(num, SerializeKex(m.val[f][1]))
    BY <1>4 DEF FieldOf
  <2>2. w.bytes = SerializeKex(m.val[f][1])
    BY <2>1, FieldsAreBytes
  <2>3. p.msg.val[f] \in {Null, <<New("KexMsg")>>}
    BY <1>4, MemberIs
  <2>4. Inner(p.msg, f, w) = q
    BY <2>2, <2>3 DEF Inner, Null
  <2>5. q.ok /\ Flat("KexMsg", q.msg, {Newer}) /\ KexValue(q.msg) = KexValue(m.val[f][1])
    BY <1>4 DEF BackAgain
  <2> HIDE DEF q
  <2>6. s.ok = q.ok /\ s.msg.val[f] = <<q.msg>>
    BY <1>4, <2>4 DEF FieldRead, Regained
  <2> QED
    BY <1>4, <2>5, <2>6 DEF Regained
<1> QED
  BY <1>1, <1>2, <1>3, <1>4

LEMMA FieldArrives ==
    ASSUME NEW C, RowsAgree(C), BitsAgree(C), NEW m, Good(C, m),
           NEW i \in DOMAIN RowsOf(C), NEW f, f = RowsOf(C)[i].f, has(C, m, f),
           TypeOf(C, f) = "message" => BackAgain(m.val[f][1]),
           NEW p, IsParse(C, p), p.ok, Good(C, p.msg), ~has(C, p.msg, f)
    PROVE  Arrives(C, m, f, p, ParseStep(C, p, FieldAt(C, m, i)))
<1> DEFINE num == RowsOf(C)[i].num
           bit == BitOf(C, f)
           w == FieldAt(C, m, i)
           s == ParseStep(C, p, w)
<1>1. f \in Members(C)
  BY DEF RowsAgree, RowsOf
<1>2. Row(C, w) = {F(num, f, TypeOf(C, f), bit)}
  BY RowFound
<1>3. w = FieldOf(C, m, num, f)
  BY DEF FieldAt
<1>4. IsParse(C, s)
  BY ParseStepIs
<1> HIDE DEF num, w
<1>5. FieldRead(C, p, w, f, TypeOf(C, f), bit, s)
  BY <1>1, <1>2, FieldParsed
<1> HIDE DEF s
<1>6. Regained(C, m, f, s)
  BY <1>1, <1>3, <1>5, ValueRead
<1>7. /\ s.msg.bits = p.msg.bits \union Bit(bit) /\ s.msg.unknown = p.msg.unknown
      /\ \A g \in Members(C) \ {f} : s.msg.val[g] = p.msg.val[g]
  BY <1>5 DEF FieldRead
<1>8. AtOnly(C, p.msg, s.msg, f)
  <2>1. IsObject(C, s.msg)
    BY <1>4 DEF IsParse
  <2>2. ASSUME NEW g \in Members(C) \ {f}, BitOf(C, g) # None
        PROVE  BitOf(C, g) \in s.msg.bits <=> BitOf(C, g) \in p.msg.bits
    <3>1. BitOf(C, g) # bit
      BY <1>1, <2>2 DEF BitsAgree
    <3> QED
      BY <1>7, <3>1 DEF Bit
  <2> QED
    BY <1>7, <2>1, <2>2 DEF AtOnly
<1>9. bit # None => bit \in s.msg.bits
  BY <1>7 DEF Bit
<1>10. TypeOf(C, f) = "message" => bit # None
  BY <1>1 DEF BitsAgree
<1>11. Shaped(C, f, s.msg.val[f], {Newer}) /\ Kept(C, s.msg.bits, f, s.msg.val[f])
  <2>1. CASE TypeOf(C, f) = "message"
    <3>1. PICK q : s.msg.val[f] = <<q>> /\ Flat("KexMsg", q, {Newer})
      BY <1>6, <2>1 DEF Regained
    <3>2. Shaped(C, f, s.msg.val[f], {Newer})
      BY <2>1, <3>1 DEF Shaped, Points
    <3> QED
      BY <1>9, <1>10, <2>1, <3>1, <3>2 DEF Kept, Null
  <2>2. CASE TypeOf(C, f) # "message"
    BY <1>1, <1>6, <1>9, <2>2 DEF Shaped, Kept, Good, Proper, Flat, Regained
  <2> QED
    BY <2>1, <2>2
<1>12. Touches(C, p.msg, s.msg, f)
  BY <1>1, <1>8, <1>11, AtOnlyTouches
<1>13. has(C, s.msg, f) /\ Observed(C, s.msg, f) = Observed(C, m, f)
  <2>1. CASE TypeOf(C, f) = "message"
    <3>1. PICK q : s.msg.val[f] = <<q>> /\ KexValue(q) = KexValue(m.val[f][1])
      BY <1>6, <2>1 DEF Regained
    <3>2. m.val[f] # Null
      BY <1>1, <2>1, MemberIs
    <3>3. Observed(C, s.msg, f) = KexValue(q) /\ Observed(C, m, f) = KexValue(m.val[f][1])
      BY <2>1, <3>1, <3>2 DEF Observed, get, Null
    <3> QED
      BY <1>9, <1>10, <2>1, <3>1, <3>3 DEF has, Present
  <2>2. CASE TypeOf(C, f) # "message"
    BY <1>6, <1>9, <2>2 DEF has, Present, Observed, Regained
  <2> QED
    BY <2>1, <2>2
<1> QED
  BY <1>4, <1>6, <1>12, <1>13 DEF Arrives, Regained, s, w

\* The member f, of the i-th row, when the first k rows were read.
ReadRow(C, m, k, p, i, f) ==
    /\ has(C, p.msg, f) => /\ i <= k /\ has(C, m, f)
                           /\ Observed(C, p.msg, f) = Observed(C, m, f)
    /\ i <= k /\ has(C, m, f) /\ p.ok => has(C, p.msg, f)

StringsValid(C, m) ==
    \A f \in Members(C) : TypeOf(C, f) = "string" /\ has(C, m, f) => m.val[f].utf8

\* p is what is read of the first k rows of m.
Read(C, m, k, p) ==
    /\ IsParse(C, p) /\ Good(C, p.msg) /\ p.msg.unknown = <<>>
    /\ \A i \in DOMAIN RowsOf(C) : ReadRow(C, m, k, p, i, RowsOf(C)[i].f)
    /\ StringsValid(C, m) => p.ok

\* The sub-messages of m are read back as they were.
SubsBack(C, m) ==
    \A f \in Members(C) : TypeOf(C, f) = "message" /\ has(C, m, f) => BackAgain(m.val[f][1])

LEMMA RowSkipped ==
    ASSUME NEW C, RowsAgree(C), NEW m, NEW k \in Nat, k + 1 \in DOMAIN RowsOf(C),
           NEW p, Read(C, m, k, p), ~p.ok \/ ~has(C, m, RowsOf(C)[k + 1].f)
    PROVE  Read(C, m, k + 1, p)
<1>1. ASSUME NEW i \in DOMAIN RowsOf(C)
      PROVE  ReadRow(C, m, k + 1, p, i, RowsOf(C)[i].f)
  <2>1. i \in Nat
    BY DEF RowsAgree, RowsOf
  <2>2. ReadRow(C, m, k, p, i, RowsOf(C)[i].f)
    BY DEF Read
  <2>3. i <= k + 1 <=> i <= k \/ i = k + 1
    BY <2>1
  <2> QED
    BY <2>2, <2>3 DEF ReadRow
<1> QED
  BY <1>1 DEF Read

LEMMA RowRead ==
    ASSUME NEW C, RowsAgree(C), BitsAgree(C), NEW m, Good(C, m), SubsBack(C, m),
           NEW k \in Nat, k + 1 \in DOMAIN RowsOf(C),
           NEW p, Read(C, m, k, p), p.ok, has(C, m, RowsOf(C)[k + 1].f)
    PROVE  Read(C, m, k + 1, ParseStep(C, p, FieldAt(C, m, k + 1)))
<1> DEFINE rows == RowsOf(C)
           s == ParseStep(C, p, FieldAt(C, m, k + 1))
<1>1. PICK f : f = rows[k + 1].f
  OBVIOUS
<1>2. /\ f \in Members(C) /\ \A i \in DOMAIN rows : i \in Nat /\ rows[i].f \in Members(C)
      /\ \A i \in DOMAIN rows : i # k + 1 => rows[i].f # f
  BY <1>1 DEF RowsAgree, RowsOf
<1>3. ~has(C, p.msg, f)
  <2>1. ReadRow(C, m, k, p, k + 1, f)
    BY <1>1 DEF Read
  <2>2. ~(k + 1 <= k)
    OBVIOUS
  <2> QED
    BY <2>1, <2>2 DEF ReadRow
<1>4. Arrives(C, m, f, p, s)
  <2>1. TypeOf(C, f) = "message" => BackAgain(m.val[f][1])
    BY <1>1, <1>2 DEF SubsBack
  <2>2. IsParse(C, p) /\ Good(C, p.msg)
    BY DEF Read
  <2>3. PICK i \in DOMAIN RowsOf(C) : i = k + 1
    OBVIOUS
  <2> QED
    BY <1>1, <1>3, <2>1, <2>2, <2>3, FieldArrives
<1> HIDE DEF s
<1>5. ASSUME NEW i \in DOMAIN rows PROVE ReadRow(C, m, k + 1, s, i, rows[i].f)
  <2>1. ReadRow(C, m, k, p, i, rows[i].f)
    BY DEF Read
  <2>2. i \in Nat
    BY <1>2
  <2>3. CASE i = k + 1
    BY <1>1, <1>4, <2>2, <2>3 DEF ReadRow, Arrives
  <2>4. CASE i # k + 1
    <3>1. PICK g : g = rows[i].f
      OBVIOUS
    <3>2. g \in Members(C) \ {f}
      BY <1>2, <2>4, <3>1
    <3>3. (has(C, s.msg, g) <=> has(C, p.msg, g)) /\ Observed(C, s.msg, g) = Observed(C, p.msg, g)
      BY <1>4, <3>2 DEF Arrives, Touches
    <3>4. i <= k + 1 <=> i <= k
      BY <2>2, <2>4
    <3> QED
      BY <2>1, <3>1, <3>3, <3>4 DEF ReadRow
  <2> QED
    BY <2>3, <2>4
<1>6. StringsValid(C, m) => s.ok
  BY <1>1, <1>2, <1>4 DEF StringsValid, Arrives
<1>7. IsParse(C, s) /\ Good(C, s.msg) /\ s.msg.unknown = <<>>
  BY <1>4 DEF Arrives, Touches, Read
<1> QED
  BY <1>5, <1>6, <1>7 DEF Read, s

\* What is read at first.
LEMMA NothingRead ==
    ASSUME NEW C, RowsAgree(C), BitsAgree(C), NEW m, NEW c, Emptied(C, c)
    PROVE  Read(C, m, 0, [ok |-> TRUE, msg |-> c])
<1> DEFINE p == [ok |-> TRUE, msg |-> c]
<1>1. IsParse(C, p) /\ p.msg = c /\ p.ok
  BY DEF IsParse, Emptied
<1> HIDE DEF p
<1>2. Good(C, c) /\ \A f \in Members(C) : ~has(C, c, f)
  BY EmptiedIs DEF Good
<1>3. c.unknown = <<>>
  BY DEF Emptied
<1>4. ASSUME NEW i \in DOMAIN RowsOf(C) PROVE ReadRow(C, m, 0, p, i, RowsOf(C)[i].f)
  <2>1. i \in 1..Len(RowsOf(C)) /\ RowsOf(C)[i].f \in Members(C)
    BY DEF RowsAgree, RowsOf
  <2>2. ~(i <= 0)
    BY <2>1
  <2> QED
    BY <1>1, <1>2, <2>1, <2>2 DEF ReadRow
<1> QED
  BY <1>1, <1>2, <1>3, <1>4 DEF Read, p

\* What _Serialize writes of the members.
Rows(C, m, n, r) ==
    /\ r[0] = <<>> /\ \A k \in 1..n : r[k] = r[k - 1] \o Piece(C, m, k)
    /\ Serialize(C, m) = r[n] \o m.unknown

LEMMA RowsAre ==
    ASSUME NEW C, NEW m, NEW n \in Nat, DOMAIN Class[C].serialize = 1..n
    PROVE  \E r : Rows(C, m, n, r)
<1>1. \E r : /\ r[0] = <<>>
             /\ \A k \in 1..n : r[k] = r[k - 1] \o Piece(C, m, k)
             /\ Serialize(C, m) = r[n] \o m.unknown
  BY SerializeChain
<1> QED
  BY <1>1, Zenon DEF Rows

\* The rows are read one after the other.
LEMMA RowsRead ==
    ASSUME NEW C, RowsAgree(C), BitsAgree(C), NEW m, Good(C, m), SubsBack(C, m),
           NEW c, Emptied(C, c), NEW n \in Nat, DOMAIN RowsOf(C) = 1..n,
           NEW r, Rows(C, m, n, r), NEW S, \A i \in 1..n : FieldAt(C, m, i) \in S
    PROVE  r[n] \in Seq(S) /\ Read(C, m, n, Parsed(C, c, r[n]))
<1> DEFINE Here(k) == r[k] \in Seq(S) /\ Read(C, m, k, Parsed(C, c, r[k]))
           T == {k \in Nat : k <= n => Here(k)}
<1>1. 0 \in T
  <2>1. r[0] = <<>>
    BY DEF Rows
  <2>2. Parsed(C, c, r[0]) = [ok |-> TRUE, msg |-> c]
    BY <2>1, ParsedNothing
  <2>3. Read(C, m, 0, Parsed(C, c, r[0]))
    BY <2>2, NothingRead
  <2>4. r[0] \in Seq(S)
    BY <2>1
  <2> QED
    BY <2>3, <2>4
<1>2. ASSUME NEW k \in T PROVE k + 1 \in T
  <2>1. SUFFICES ASSUME k + 1 <= n PROVE Here(k + 1)
    OBVIOUS
  <2>2. k \in Nat /\ r[k] \in Seq(S) /\ Read(C, m, k, Parsed(C, c, r[k]))
    BY <2>1
  <2> DEFINE p == Parsed(C, c, r[k])
             w == FieldAt(C, m, k + 1)
             f == RowsOf(C)[k + 1].f
  <2>3. k + 1 \in 1..n /\ (k + 1) - 1 = k
    BY <2>1, <2>2
  <2>4. r[k + 1] = r[k] \o Piece(C, m, k + 1)
    BY <2>3 DEF Rows
  <2>5. /\ has(C, m, f) => Piece(C, m, k + 1) = <<w>>
        /\ ~has(C, m, f) => Piece(C, m, k + 1) = <<>>
    <3>1. PICK i \in DOMAIN RowsOf(C) : i = k + 1
      BY <2>3
    <3> QED
      BY <3>1, PieceIs
  <2>6. w \in S
    BY <2>3
  <2>7. Read(C, m, k, p)
    BY <2>2
  <2> HIDE DEF w, T
  <2>8. CASE ~has(C, m, f)
    <3>1. r[k + 1] = r[k]
      BY <2>2, <2>4, <2>5, <2>8, ConcatEmptySeq
    <3> HIDE DEF p
    <3>2. Read(C, m, k + 1, p)
      BY <2>2, <2>3, <2>7, <2>8, RowSkipped
    <3> QED
      BY <2>2, <3>1, <3>2 DEF p
  <2>9. CASE has(C, m, f)
    <3>1. r[k + 1] = Append(r[k], w)
      BY <2>2, <2>4, <2>5, <2>6, <2>9, AppendIsConcat
    <3>2. Parsed(C, c, r[k + 1]) = ParseStep(C, p, w)
      BY <2>2, <2>6, <3>1, ParsedAppend
    <3>3. r[k + 1] \in Seq(S)
      BY <2>2, <2>6, <3>1, AppendProperties
    <3> HIDE DEF p
    <3>4. CASE ~p.ok
      <4>1. ParseStep(C, p, w) = p
        BY <3>4 DEF ParseStep
      <4>2. Read(C, m, k + 1, p)
        BY <2>2, <2>3, <2>7, <3>4, RowSkipped
      <4> QED
        BY <3>2, <3>3, <4>1, <4>2
    <3>5. CASE p.ok
      <4>1. Read(C, m, k + 1, ParseStep(C, p, FieldAt(C, m, k + 1)))
        BY <2>2, <2>3, <2>7, <2>9, <3>5, RowRead
      <4> QED
        BY <3>2, <3>3, <4>1 DEF w
    <3> QED
      BY <3>4, <3>5
  <2> QED
    BY <2>8, <2>9
<1>3. T = Nat
  <2>1. T \in SUBSET Nat
    OBVIOUS
  <2> HIDE DEF T
  <2> QED
    BY <1>1, <1>2, <2>1, NatBySets
<1> QED
  BY <1>3

\* Fields that the class does not know, at the end.
Trailed(p, q, u) ==
    /\ q.ok = p.ok /\ q.msg.val = p.msg.val /\ q.msg.bits = p.msg.bits
    /\ q.msg.unknown = IF p.ok THEN p.msg.unknown \o u ELSE p.msg.unknown

LEMMA TrailRead ==
    ASSUME NEW C \in ClassNames, NEW c, NEW S, Newer \in S, NEW a \in Seq(S),
           IsParse(C, Parsed(C, c, a)), Parsed(C, c, a).msg.unknown = <<>>,
           NEW u \in Seq({Newer})
    PROVE  /\ IsParse(C, Parsed(C, c, a \o u))
           /\ Trailed(Parsed(C, c, a), Parsed(C, c, a \o u), u)
<1> DEFINE n == Len(u)
           p == Parsed(C, c, a)
           b(k) == a \o SubSeq(u, 1, k)
           q(k) == Parsed(C, c, b(k))
           Here(k) == IsParse(C, q(k)) /\ Trailed(p, q(k), SubSeq(u, 1, k))
           T == {k \in Nat : k <= n => Here(k)}
<1>1. n \in Nat
  OBVIOUS
<1>2. 0 \in T
  <2>1. SubSeq(u, 1, 0) = <<>>
    OBVIOUS
  <2>2. b(0) = a
    BY <2>1, ConcatEmptySeq
  <2>3. p.msg.unknown \o <<>> = p.msg.unknown
    OBVIOUS
  <2> QED
    BY <2>1, <2>2, <2>3 DEF Trailed
<1>3. ASSUME NEW k \in T PROVE k + 1 \in T
  <2>1. SUFFICES ASSUME k + 1 <= n PROVE Here(k + 1)
    OBVIOUS
  <2>2. k \in Nat /\ IsParse(C, q(k)) /\ Trailed(p, q(k), SubSeq(u, 1, k))
    <3>1. k \in Nat /\ k <= n
      BY <1>1, <2>1
    <3> HIDE DEF q, p
    <3> QED
      BY <3>1
  <2>3. /\ SubSeq(u, 1, k) \in Seq({Newer})
        /\ SubSeq(u, 1, k + 1) = Append(SubSeq(u, 1, k), Newer)
    <3>1. k + 1 \in 1..Len(u) /\ (k + 1) - 1 = k /\ 1 \in 1..Len(u) /\ k + 1 \in 1..Len(u)
      BY <1>1, <2>1, <2>2
    <3>2. \A i \in 1..k : u[i] \in {Newer}
      BY <1>1, <2>1, <2>2
    <3>3. SubSeq(u, 1, k) \in Seq({Newer})
      BY <2>2, <3>2, SubSeqProperties
    <3>4. u[k + 1] = Newer
      BY <3>1
    <3>5. SubSeq(u, 1, k + 1) = SubSeq(u, 1, k) \o <<u[k + 1]>>
      BY <3>1, SubSeqRecursiveSecond
    <3> QED
      BY <3>3, <3>4, <3>5, AppendIsConcat
  <2>4. b(k) \in Seq(S) /\ b(k + 1) = Append(b(k), Newer)
    <3>1. SubSeq(u, 1, k) \in Seq(S)
      BY <2>3
    <3> DEFINE v == SubSeq(u, 1, k)
               v1 == SubSeq(u, 1, k + 1)
    <3> HIDE DEF v, v1
    <3>2. v \in Seq(S) /\ v1 = Append(v, Newer)
      BY <2>3, <3>1 DEF v, v1
    <3>3. a \o v \in Seq(S) /\ a \o v1 = Append(a \o v, Newer)
      BY <3>2
    <3> QED
      BY <3>3 DEF v, v1
  <2>5. q(k + 1) = ParseStep(C, q(k), Newer)
    <3>1. PICK x \in Seq(S) : x = b(k) /\ b(k + 1) = Append(x, Newer)
      BY <2>4
    <3>2. Parsed(C, c, Append(x, Newer)) = ParseStep(C, Parsed(C, c, x), Newer)
      BY ParsedAppend
    <3> HIDE DEF b
    <3> QED
      BY <3>1, <3>2, Zenon
  <2>6. Row(C, Newer) = {}
    BY MessageObjectsAssumption
  <2> DEFINE y == q(k)
             z == q(k + 1)
             v == SubSeq(u, 1, k)
             v1 == SubSeq(u, 1, k + 1)
  <2>7. z = ParseStep(C, y, Newer) /\ IsParse(C, y) /\ Trailed(p, y, v) /\ v1 = Append(v, Newer)
        /\ v \in Seq({Newer}) /\ p.msg.unknown = <<>>
    BY <2>2, <2>3, <2>5
  <2> HIDE DEF q, p, v, v1, y, z
  <2>8. IsParse(C, z) /\ Trailed(p, z, v1)
    <3>1. IsParse(C, z)
      BY <2>7, ParseStepIs
    <3>2. CASE y.ok
      <4>1. z.ok /\ z.msg.val = y.msg.val /\ z.msg.bits = y.msg.bits
            /\ z.msg.unknown = Append(y.msg.unknown, Newer)
        BY <2>6, <2>7, <3>2, UnknownParsed
      <4>2. ParseStep(C, y, Newer)
              = [ok |-> TRUE, msg |-> [y.msg EXCEPT !.unknown = Append(@, Newer)]]
        BY <2>6, <3>2 DEF ParseStep, ParseFieldWith
      <4>3. z.ok = TRUE
        BY <2>7, <4>2
      <4>4. <<>> \o v = v /\ <<>> \o v1 = v1
        BY <2>7
      <4> QED
        BY <2>7, <3>1, <3>2, <4>1, <4>3, <4>4 DEF Trailed
    <3>3. CASE ~y.ok
      <4>1. z = y
        BY <2>7, <3>3 DEF ParseStep
      <4> QED
        BY <2>7, <3>1, <3>3, <4>1 DEF Trailed
    <3> QED
      BY <3>2, <3>3
  <2> QED
    BY <2>8 DEF z, v1
<1>4. T = Nat
  <2>1. T \in SUBSET Nat
    OBVIOUS
  <2> HIDE DEF T
  <2> QED
    BY <1>2, <1>3, <2>1, NatBySets
<1>5. Here(n)
  BY <1>1, <1>4
<1>6. SubSeq(u, 1, n) = u
  OBVIOUS
<1> QED
  BY <1>5, <1>6

\* What arrives of m: all of it, or a part when one of its strings is refused.
Arrived(C, m, q) ==
    /\ IsParse(C, q) /\ Good(C, q.msg)
    /\ q.ok => Seen(C, q.msg) = Seen(C, m)
    /\ ~q.ok => q.msg.unknown = <<>>
    /\ \A f \in Members(C) : has(C, q.msg, f) =>
         has(C, m, f) /\ Observed(C, q.msg, f) = Observed(C, m, f)
    /\ StringsValid(C, m) => q.ok

\* The fields that the class does not know are observed only as such.
LEMMA UnknownApart ==
    ASSUME NEW C, NEW m, Good(C, m), NEW t, IsObject(C, t), t.val = m.val, t.bits = m.bits,
           t.unknown \in Seq({Newer})
    PROVE  /\ Good(C, t)
           /\ \A f \in Members(C) : /\ has(C, t, f) <=> has(C, m, f)
                                    /\ Observed(C, t, f) = Observed(C, m, f)
<1>1. Good(C, t)
  BY DEF Good, Proper, Flat, Retained
<1> QED
  BY <1>1 DEF has, Present, Observed, get

LEMMA RowsArrive ==
    ASSUME NEW C, RowsAgree(C), BitsAgree(C), NEW m, Good(C, m), NEW n \in Nat,
           DOMAIN RowsOf(C) = 1..n, NEW p, Read(C, m, n, p), NEW q, Trailed(p, q, m.unknown),
           IsParse(C, q)
    PROVE  Arrived(C, m, q)
<1>1. /\ IsParse(C, p) /\ Good(C, p.msg) /\ p.msg.unknown = <<>>
      /\ \A i \in 1..n : ReadRow(C, m, n, p, i, RowsOf(C)[i].f)
      /\ StringsValid(C, m) => p.ok
  BY DEF Read
<1>2. /\ q.ok = p.ok /\ q.msg.val = p.msg.val /\ q.msg.bits = p.msg.bits
      /\ q.msg.unknown = IF p.ok THEN p.msg.unknown \o m.unknown ELSE p.msg.unknown
  BY DEF Trailed
<1>3. m.unknown \in Seq({Newer}) /\ IsObject(C, q.msg)
  BY DEF Good, Proper, Flat, IsParse
<1>4. /\ q.ok => q.msg.unknown = m.unknown
      /\ ~q.ok => q.msg.unknown = <<>>
  <2>1. <<>> \o m.unknown = m.unknown
    BY <1>3, ConcatEmptySeq
  <2> QED
    BY <1>1, <1>2, <2>1
<1>5. q.msg.unknown \in Seq({Newer})
  <2>1. <<>> \in Seq({Newer})
    OBVIOUS
  <2> QED
    BY <1>3, <1>4, <2>1
<1>6. /\ Good(C, q.msg)
      /\ \A f \in Members(C) : /\ has(C, q.msg, f) <=> has(C, p.msg, f)
                               /\ Observed(C, q.msg, f) = Observed(C, p.msg, f)
  BY <1>1, <1>2, <1>3, <1>5, UnknownApart
<1>7. ASSUME NEW f \in Members(C)
      PROVE  /\ has(C, q.msg, f) => has(C, m, f) /\ Observed(C, q.msg, f) = Observed(C, m, f)
             /\ q.ok /\ has(C, m, f) => has(C, q.msg, f)
  <2>1. PICK i \in 1..n : RowsOf(C)[i].f = f
    BY DEF RowsAgree, RowsOf
  <2>2. i <= n
    OBVIOUS
  <2>3. ReadRow(C, m, n, p, i, f)
    BY <1>1, <2>1
  <2> QED
    BY <1>2, <1>6, <2>2, <2>3 DEF ReadRow
<1>8. q.ok => Seen(C, q.msg) = Seen(C, m)
  <2> SUFFICES ASSUME q.ok PROVE Seen(C, q.msg) = Seen(C, m)
    OBVIOUS
  <2>1. \A f \in Members(C) : /\ has(C, q.msg, f) <=> has(C, m, f)
                              /\ has(C, m, f) => Observed(C, q.msg, f) = Observed(C, m, f)
    BY <1>7
  <2> QED
    BY <1>4, <2>1, SameSeen
<1> QED
  BY <1>1, <1>2, <1>4, <1>6, <1>7, <1>8 DEF Arrived

LEMMA WireRead ==
    ASSUME NEW C \in ClassNames, RowsAgree(C), BitsAgree(C), NEW m, Good(C, m), SubsBack(C, m),
           NEW c, Emptied(C, c)
    PROVE  Arrived(C, m, Parsed(C, c, Serialize(C, m)))
<1> DEFINE n == Len(RowsOf(C))
           S == {FieldAt(C, m, i) : i \in 1..n} \union {Newer}
<1>1. n \in Nat /\ DOMAIN RowsOf(C) = 1..n
  BY DEF RowsAgree, RowsOf
<1>2. Newer \in S /\ \A i \in 1..n : FieldAt(C, m, i) \in S
  OBVIOUS
<1> HIDE DEF n, S
<1>3. PICK r : Rows(C, m, n, r)
  <2>1. DOMAIN Class[C].serialize = 1..n
    BY <1>1 DEF RowsOf
  <2> QED
    BY <1>1, <2>1, RowsAre
<1>4. r[n] \in Seq(S) /\ Read(C, m, n, Parsed(C, c, r[n]))
  BY <1>1, <1>2, <1>3, RowsRead
<1> DEFINE p == Parsed(C, c, r[n])
           q == Parsed(C, c, r[n] \o m.unknown)
<1>5. IsParse(C, q) /\ Trailed(p, q, m.unknown)
  <2>1. IsParse(C, p) /\ p.msg.unknown = <<>>
    BY <1>4 DEF Read
  <2>2. m.unknown \in Seq({Newer})
    BY DEF Good, Proper, Flat
  <2> QED
    BY <1>2, <1>4, <2>1, <2>2, TrailRead
<1>6. Read(C, m, n, p)
  BY <1>4
<1>7. Serialize(C, m) = r[n] \o m.unknown
  BY <1>3 DEF Rows
<1>8. Arrived(C, m, q)
  <2> HIDE DEF p, q
  <2> QED
    BY <1>1, <1>5, <1>6, RowsArrive
<1> QED
  BY <1>7, <1>8

LEMMA EmbeddedIs ==
    ASSUME NEW wire
    PROVE  Embedded(wire).parses /\ Embedded(wire).sub = wire
  BY DEF Embedded, EmptyBytes

\* The fields of a KexMsg are read back.
LEMMA KexBack ==
    ASSUME NEW k, Flat("KexMsg", k, {Newer})
    PROVE  BackAgain(k)
<1> DEFINE C == "KexMsg"
           c == New(C)
           wire == Serialize(C, k)
           q == Parsed(C, c, wire)
<1>1. C \in ClassNames
  BY DEF ClassNames, Class
<1>2. RowsAgree(C) /\ BitsAgree(C) /\ Emptied(C, c)
  BY KexAgrees, NewIsEmptied
<1>3. \A f \in Members(C) : BitOf(C, f) = None /\ TypeOf(C, f) \in {"int", "bytes"}
  BY KexHasNone
<1> HIDE DEF C
<1>4. Good(C, k)
  <2>1. Retained(C, k)
    BY <1>3 DEF Retained, Kept
  <2> QED
    BY <1>3, <2>1 DEF Good, Proper, C
<1>5. SubsBack(C, k) /\ StringsValid(C, k)
  BY <1>3 DEF SubsBack, StringsValid
<1>6. Arrived(C, k, q)
  BY <1>1, <1>2, <1>4, <1>5, WireRead
<1>7. ParseKex(c, SerializeKex(k)) = q
  <2>1. SerializeKex(k) = Embedded(wire)
    BY KexSerialized DEF C
  <2>2. Embedded(wire).parses /\ Embedded(wire).sub = wire
    BY EmbeddedIs
  <2>3. PICK n \in Nat : DOMAIN wire = 1..n
    <3> DEFINE l == Len(RowsOf(C))
               S == {FieldAt(C, k, i) : i \in 1..l} \union {Newer}
    <3>1. l \in Nat /\ DOMAIN RowsOf(C) = 1..l /\ DOMAIN Class[C].serialize = 1..l
      BY <1>2 DEF RowsAgree, RowsOf
    <3>2. \A i \in 1..l : FieldAt(C, k, i) \in S
      OBVIOUS
    <3>3. k.unknown \in Seq(S)
      <4>1. k.unknown \in Seq({Newer})
        BY <1>4 DEF Good, Proper, Flat
      <4> QED
        BY <4>1
    <3> HIDE DEF l, S
    <3>4. PICK r : Rows(C, k, l, r)
      BY <3>1, RowsAre
    <3>5. r[l] \in Seq(S)
      BY <1>2, <1>4, <1>5, <3>1, <3>2, <3>4, RowsRead
    <3>6. wire = r[l] \o k.unknown
      BY <3>4 DEF Rows
    <3>7. wire \in Seq(S)
      BY <3>3, <3>5, <3>6, ConcatProperties
    <3> HIDE DEF wire
    <3> QED
      BY <3>7, LenProperties
  <2> QED
    BY <2>1, <2>2, <2>3, KexParsed DEF C
<1> HIDE DEF q
<1>8. q.ok /\ Good(C, q.msg) /\ Seen(C, q.msg) = Seen(C, k)
  BY <1>5, <1>6 DEF Arrived
<1>9. KexValue(q.msg) = KexValue(k)
  <2>1. ASSUME NEW x PROVE Seen(C, x).fields = KexValue(x)
    <3>1. \A g \in Fields(C, x) : Observed(C, x, g) = x.val[g]
      BY <1>3 DEF Fields, Observed
    <3>2. Seen(C, x).fields = [g \in Fields(C, x) |-> Observed(C, x, g)]
      BY DEF Seen
    <3> QED
      BY <3>1, <3>2 DEF KexValue, C
  <2> QED
    BY <1>8, <2>1
<1>10. Flat(C, q.msg, {Newer})
  BY <1>8 DEF Good, Proper
<1> QED
  BY <1>7, <1>8, <1>9, <1>10 DEF BackAgain, C

\* A part of y: without the fields that the class does not know.
Partial(C, y, t) ==
    /\ t.unknown = <<>>
    /\ \A f \in Members(C) : has(C, t, f) =>
         has(C, y, f) /\ Observed(C, t, f) = Observed(C, y, f)

LEMMA TransmitSeen ==
    ASSUME NEW C \in ClassNames, RowsAgree(C), BitsAgree(C), NEW m, Good(C, m),
           NEW y, Good(C, y), NEW t, t = ParseFromArray(C, m, Serialize(C, y)).msg
    PROVE  /\ Good(C, t)
           /\ Seen(C, t) = Seen(C, y) \/ (~StringsValid(C, y) /\ Partial(C, y, t))
<1> DEFINE c == Clear(C, m)
           q == Parsed(C, c, Serialize(C, y))
<1>1. Emptied(C, c)
  BY ClearEmpties DEF Good
<1>2. SubsBack(C, y)
  <2> SUFFICES ASSUME NEW f \in Members(C), TypeOf(C, f) = "message", has(C, y, f)
               PROVE  BackAgain(y.val[f][1])
    BY DEF SubsBack
  <2>1. PICK k : y.val[f] = <<k>> /\ Flat("KexMsg", k, {Newer})
    BY MemberIs
  <2>2. BackAgain(k)
    BY <2>1, KexBack
  <2> QED
    BY <2>1, <2>2
<1> HIDE DEF c
<1>3. Arrived(C, y, q)
  BY <1>1, <1>2, WireRead
<1>4. ParseFromArray(C, m, Serialize(C, y))
        = [q EXCEPT !.ok = @ /\ ~MissingRequiredFields(C, q.msg.bits)]
  BY DEF ParseFromArray, Parsed, c
<1> HIDE DEF q
<1>5. t = q.msg
  <2>1. DOMAIN q = {"ok", "msg"}
    BY <1>3 DEF Arrived, IsParse
  <2> QED
    BY <1>4, <2>1
<1> QED
  BY <1>3, <1>5 DEF Arrived, Partial

-----------------------------------------------------------------------------
(* The two objects. *)

MOInv ==
    /\ cls \in ClassNames /\ DOMAIN obj = Objs
    /\ \A x \in Objs : Good(cls, obj[x])

LEMMA MOInvInit == MOInit => MOInv
<1> SUFFICES ASSUME MOInit PROVE MOInv
  OBVIOUS
<1>1. PICK u \in {<<>>, <<Newer>>} : obj = [x \in Objs |-> [New(cls) EXCEPT !.unknown = u]]
  BY DEF MOInit
<1>2. cls \in ClassNames /\ u \in Seq({Newer})
  <2>1. cls \in Checked /\ Checked \subseteq ClassNames
    BY MessageObjectsAssumption DEF MOInit
  <2>2. <<>> \in Seq({Newer}) /\ <<Newer>> \in Seq({Newer})
    OBVIOUS
  <2> QED
    BY <1>1, <2>1, <2>2
<1> DEFINE t == [New(cls) EXCEPT !.unknown = u]
<1>3. Good(cls, New(cls))
  <2>1. BitsAgree(cls) /\ Emptied(cls, New(cls))
    BY <1>2, ClassesAgree, NewIsEmptied
  <2>2. Proper(cls, New(cls), {Newer}) /\ Retained(cls, New(cls))
    BY <2>1, EmptiedIs
  <2> QED
    BY <2>2 DEF Good
<1>4. IsObject(cls, t) /\ t.val = New(cls).val /\ t.bits = New(cls).bits /\ t.unknown = u
  BY ObjectsAre DEF IsObject
<1>5. Good(cls, t)
  <2> HIDE DEF t
  <2> QED
    BY <1>2, <1>3, <1>4, UnknownApart
<1> HIDE DEF t
<1>6. DOMAIN obj = Objs /\ \A x \in Objs : obj[x] = t
  BY <1>1 DEF t
<1> QED
  BY <1>2, <1>5, <1>6 DEF MOInv

LEMMA OtherIs == \A x \in Objs : Other(x) \in Objs /\ Other(x) # x /\ Other(Other(x)) = x
  BY DEF Objs, Other

\* What the abstract objects hold.
Values2 == [x \in Objs |-> ValueOf(obj[x])]

LEMMA ValuesSeen ==
    ASSUME MOInv
    PROVE  /\ \A x \in Objs : ValueOf(obj[x]) = Seen(cls, obj[x])
           /\ \A x \in Objs : AllStringsValid(ValueOf(obj[x])) <=> StringsValid(cls, obj[x])
<1>1. ASSUME NEW m PROVE ValueOf(m) = Seen(cls, m)
  BY DEF ValueOf, Seen, Observed, KexValue
<1>2. ASSUME NEW m PROVE AllStringsValid(Seen(cls, m)) <=> StringsValid(cls, m)
  <2>1. /\ DOMAIN Seen(cls, m).fields = {f \in Members(cls) : has(cls, m, f)}
        /\ \A f \in Members(cls) : has(cls, m, f) => Seen(cls, m).fields[f] = Observed(cls, m, f)
    BY SeenIs
  <2>2. \A f \in Members(cls) : TypeOf(cls, f) = "string" => Observed(cls, m, f) = m.val[f]
    BY DEF Observed
  <2> QED
    BY <2>1, <2>2 DEF AllStringsValid, StringsValid
<1> QED
  BY <1>1, <1>2

\* What counts as a step of MessageValues.
LEMMA ChangeIs ==
    ASSUME NEW x \in Objs, NEW f, Changed(Values2[x], Values2'[x], f),
           f \in DOMAIN Values2[x].fields \union DOMAIN Values2'[x].fields,
           \A z \in Objs \ {x} : Values2'[z] = Values2[z]
    PROVE  Abstract!MVNext
<1>1. Abstract!Others({x})
  BY DEF Abstract!Others, Values2
<1>2. Abstract!ChangeField(x, f)
  BY DEF Abstract!ChangeField, Abstract!Restrict, Restrict, Changed, Values2
<1> QED
  BY <1>1, <1>2 DEF Abstract!MVNext, Values2

LEMMA MoveIs ==
    ASSUME NEW x \in Objs, NEW y \in Objs, x # y, NEW f,
           Changed(Values2[x], Values2'[x], f), Changed(Values2[y], Values2'[y], f),
           f \in DOMAIN Values2[x].fields \union DOMAIN Values2'[x].fields,
           f \notin DOMAIN Values2'[y].fields,
           IF f \in DOMAIN Values2[y].fields
           THEN f \in DOMAIN Values2'[x].fields /\ Values2'[x].fields[f] = Values2[y].fields[f]
           ELSE f \in DOMAIN Values2'[x].fields => f = "kex" /\ Values2'[x].fields[f] = <<>>
    PROVE  Abstract!MVNext
<1>1. Abstract!Others({x, y})
  BY DEF Abstract!Others, Objs
<1>2. Abstract!ChangeField(x, f) /\ Abstract!ChangeField(y, f)
  BY DEF Abstract!ChangeField, Abstract!Restrict, Restrict, Changed, Values2
<1>3. Abstract!MoveField(x, y, f)
  BY <1>2 DEF Abstract!MoveField, Values2
<1> QED
  BY <1>1, <1>3 DEF Abstract!MVNext, Values2

LEMMA SwapIs ==
    ASSUME NEW x \in Objs, NEW y \in Objs, x # y,
           Values2'[x] = Values2[y], Values2'[y] = Values2[x]
    PROVE  Abstract!MVNext
<1>1. Abstract!Others({x, y})
  BY DEF Abstract!Others, Objs
<1> QED
  BY <1>1 DEF Abstract!MVNext, Values2

LEMMA ReplaceIs ==
    ASSUME NEW x \in Objs, NEW y \in Objs, x # y, Values2'[y] = Values2[y],
           \/ Values2'[x] = Abstract!Nothing
           \/ Values2'[x] = Values2[y]
           \/ Values2'[x] = Abstract!Joined(Values2[x], Values2[y])
           \/ ~AllStringsValid(ValueOf(obj[y])) /\ Abstract!Part(Values2'[x], Values2[y])
    PROVE  Abstract!MVNext
<1>1. Abstract!Others({x})
  BY DEF Abstract!Others, Objs, Values2
<1> QED
  BY <1>1 DEF Abstract!MVNext, Values2

LEMMA ValuesNow ==
    /\ \A x \in Objs : Values2[x] = Seen(cls, obj[x])
    /\ \A x \in Objs : Values2'[x] = Seen(cls', obj'[x])
<1>1. ASSUME NEW x \in Objs PROVE Values2[x] = Seen(cls, obj[x])
  BY DEF Values2, ValueOf, Seen, Observed, KexValue
<1>2. ASSUME NEW x \in Objs PROVE Values2'[x] = Seen(cls', obj'[x])
  BY DEF Values2, ValueOf, Seen, Observed, KexValue
<1> QED
  BY <1>1, <1>2

\* One object changes, the other one stays.
LEMMA OneChanged ==
    ASSUME MOInv, cls' = cls, NEW x \in Objs, NEW t, Good(cls, t), obj' = [obj EXCEPT ![x] = t]
    PROVE  /\ MOInv'
           /\ Values2[x] = Seen(cls, obj[x]) /\ Values2'[x] = Seen(cls, t)
           /\ \A z \in Objs \ {x} : Values2'[z] = Values2[z]
<1>1. DOMAIN obj' = Objs /\ obj'[x] = t /\ \A z \in Objs \ {x} : obj'[z] = obj[z]
  BY DEF MOInv
<1>2. MOInv'
  BY <1>1 DEF MOInv
<1> QED
  BY <1>1, <1>2, ValuesNow

LEMMA AccessorStep ==
    ASSUME MOInv, cls' = cls, NEW x \in Objs, NEW f \in Members(cls), NEW t,
           Touches(cls, obj[x], t, f), obj' = [obj EXCEPT ![x] = t]
    PROVE  MOInv' /\ [Abstract!MVNext]_Values2
<1>1. Good(cls, t)
  BY DEF Touches
<1>2. /\ MOInv'
      /\ Values2[x] = Seen(cls, obj[x]) /\ Values2'[x] = Seen(cls, t)
      /\ \A z \in Objs \ {x} : Values2'[z] = Values2[z]
  BY <1>1, OneChanged
<1>3. /\ Changed(Seen(cls, obj[x]), Seen(cls, t), f)
      /\ ~has(cls, obj[x], f) /\ ~has(cls, t, f) => Seen(cls, t) = Seen(cls, obj[x])
  BY TouchChanges
<1>4. Changed(Values2[x], Values2'[x], f)
  BY <1>2, <1>3
<1>5. CASE f \in DOMAIN Values2[x].fields \union DOMAIN Values2'[x].fields
  BY <1>2, <1>4, <1>5, ChangeIs
<1>6. CASE f \notin DOMAIN Values2[x].fields \union DOMAIN Values2'[x].fields
  <2>1. ~has(cls, obj[x], f) /\ ~has(cls, t, f)
    BY <1>2, <1>6, SeenIs
  <2>2. Values2'[x] = Values2[x]
    BY <1>2, <1>3, <2>1
  <2>3. \A z \in Objs : Values2'[z] = Values2[z]
    BY <1>2, <2>2
  <2>4. Values2' = Values2
    BY <2>3 DEF Values2
  <2> QED
    BY <1>2, <2>4
<1> QED
  BY <1>2, <1>5, <1>6

LEMMA ReplaceStep ==
    ASSUME MOInv, cls' = cls, NEW x \in Objs, NEW t, Good(cls, t), obj' = [obj EXCEPT ![x] = t],
           LET y == Other(x)
           IN  \/ Seen(cls, t) = Abstract!Nothing
               \/ Seen(cls, t) = Seen(cls, obj[y])
               \/ Seen(cls, t) = Abstract!Joined(Seen(cls, obj[x]), Seen(cls, obj[y]))
               \/ ~StringsValid(cls, obj[y]) /\ Partial(cls, obj[y], t)
    PROVE  MOInv' /\ [Abstract!MVNext]_Values2
<1>1. /\ MOInv'
      /\ Values2[x] = Seen(cls, obj[x]) /\ Values2'[x] = Seen(cls, t)
      /\ \A z \in Objs \ {x} : Values2'[z] = Values2[z]
  BY OneChanged
<1>2. PICK y \in Objs : y = Other(x) /\ x # y
  BY OtherIs
<1>3. Values2[y] = Seen(cls, obj[y]) /\ Values2'[y] = Values2[y]
  BY <1>1, <1>2, ValuesNow
<1>4. AllStringsValid(ValueOf(obj[y])) <=> StringsValid(cls, obj[y])
  BY ValuesSeen
<1>5. Partial(cls, obj[y], t) => Abstract!Part(Values2'[x], Values2[y])
  <2>1. SUFFICES ASSUME Partial(cls, obj[y], t)
                 PROVE  Abstract!Part(Seen(cls, t), Seen(cls, obj[y]))
    BY <1>1, <1>3
  <2>2. PICK C, u : C = cls /\ u = obj[y]
    OBVIOUS
  <2>3. /\ DOMAIN Seen(C, t).fields = {f \in Members(C) : has(C, t, f)}
        /\ DOMAIN Seen(C, u).fields = {f \in Members(C) : has(C, u, f)}
        /\ \A f \in Members(C) : has(C, t, f) => Seen(C, t).fields[f] = Observed(C, t, f)
        /\ \A f \in Members(C) : has(C, u, f) => Seen(C, u).fields[f] = Observed(C, u, f)
        /\ Seen(C, t).other = t.unknown
    BY SeenIs
  <2>4. Abstract!Part(Seen(C, t), Seen(C, u))
    BY <2>1, <2>2, <2>3 DEF Abstract!Part, Partial
  <2> QED
    BY <2>2, <2>4
<1>6. Abstract!MVNext
  BY <1>1, <1>2, <1>3, <1>4, <1>5, ReplaceIs
<1> QED
  BY <1>1, <1>6

\* Both objects change.
LEMMA BothChanged ==
    ASSUME MOInv, cls' = cls, NEW x \in Objs, NEW y \in Objs, x # y, NEW t, NEW u,
           Good(cls, t), Good(cls, u), obj' = [z \in Objs |-> IF z = x THEN t ELSE u]
    PROVE  /\ MOInv'
           /\ Values2[x] = Seen(cls, obj[x]) /\ Values2'[x] = Seen(cls, t)
           /\ Values2[y] = Seen(cls, obj[y]) /\ Values2'[y] = Seen(cls, u)
<1>1. DOMAIN obj' = Objs /\ obj'[x] = t /\ obj'[y] = u /\ \A z \in Objs : obj'[z] \in {t, u}
  OBVIOUS
<1>2. MOInv'
  BY <1>1 DEF MOInv
<1> QED
  BY <1>1, <1>2, ValuesNow

LEMMA MoveStep ==
    ASSUME MOInv, NEW x \in Objs, moveField(x)
    PROVE  MOInv' /\ [Abstract!MVNext]_Values2
<1>1. PICK f \in Members(cls) :
        /\ obj' = [obj EXCEPT
             ![x] = set_allocated(cls, @, f, released(cls, obj[Other(x)], f)),
             ![Other(x)] = set_allocated(cls, @, f, Null)]
        /\ UNCHANGED cls
  BY DEF moveField
<1>2. PICK C, m, y, k : C = cls /\ m = obj[x] /\ y = Other(x) /\ k = obj[y]
  OBVIOUS
<1>3. /\ C \in ClassNames /\ Good(C, m) /\ Good(C, k) /\ y \in Objs /\ y # x
      /\ Objs = {x, y} /\ DOMAIN obj = Objs
  <2>1. y \in Objs /\ y # x
    BY <1>2, OtherIs
  <2> QED
    BY <1>2, <2>1 DEF MOInv, Objs
<1>4. RowsAgree(C) /\ BitsAgree(C)
  BY <1>3, ClassesAgree
<1> DEFINE t == set_allocated(C, m, f, released(C, k, f))
           u == set_allocated(C, k, f, Null)
<1>5. obj' = [z \in Objs |-> IF z = x THEN t ELSE u]
  <2>1. obj' = [[obj EXCEPT ![x] = t] EXCEPT ![y] = u]
    BY <1>1, <1>2, <1>3
  <2> HIDE DEF t, u
  <2> QED
    BY <1>3, <2>1
<1>6. Touches(C, m, t, f) /\ Moved(C, k, t, f)
  <2>0. f \in Members(C)
    BY <1>2
  <2>1. CASE TypeOf(C, f) = "message"
    BY <1>3, <1>4, <2>0, <2>1, MoveMessage
  <2>2. CASE TypeOf(C, f) # "message"
    BY <1>3, <1>4, <2>0, <2>2, MoveScalar
  <2> QED
    BY <2>1, <2>2
<1>7. Touches(C, k, u, f) /\ ~has(C, u, f)
  <2>1. f \in Members(C)
    BY <1>2
  <2> QED
    BY <1>3, <1>4, <2>1, ReleaseTouches
<1> HIDE DEF t, u
<1>8. Good(C, t) /\ Good(C, u)
  BY <1>6, <1>7 DEF Touches
<1>9. /\ MOInv'
      /\ Values2[x] = Seen(C, m) /\ Values2'[x] = Seen(C, t)
      /\ Values2[y] = Seen(C, k) /\ Values2'[y] = Seen(C, u)
  <2>1. cls' = cls /\ Good(cls, t) /\ Good(cls, u)
    BY <1>1, <1>2, <1>8
  <2>2. /\ MOInv'
        /\ Values2[x] = Seen(cls, obj[x]) /\ Values2'[x] = Seen(cls, t)
        /\ Values2[y] = Seen(cls, obj[y]) /\ Values2'[y] = Seen(cls, u)
    BY <1>3, <1>5, <2>1, BothChanged
  <2> QED
    BY <1>2, <2>2
<1>10. /\ Changed(Seen(C, m), Seen(C, t), f) /\ Changed(Seen(C, k), Seen(C, u), f)
       /\ ~has(C, m, f) /\ ~has(C, t, f) => Seen(C, t) = Seen(C, m)
       /\ ~has(C, k, f) /\ ~has(C, u, f) => Seen(C, u) = Seen(C, k)
  BY <1>6, <1>7, TouchChanges
<1>11. \A z \in {m, t, k, u} :
         /\ f \in DOMAIN Seen(C, z).fields <=> has(C, z, f)
         /\ has(C, z, f) => Seen(C, z).fields[f] = Observed(C, z, f)
  BY <1>2, SeenIs
<1>12. CASE has(C, m, f) \/ has(C, t, f)
  <2>1. Changed(Values2[x], Values2'[x], f) /\ Changed(Values2[y], Values2'[y], f)
    BY <1>9, <1>10
  <2>2. /\ f \in DOMAIN Values2[x].fields \union DOMAIN Values2'[x].fields
        /\ f \notin DOMAIN Values2'[y].fields
    BY <1>7, <1>9, <1>11, <1>12
  <2>3. has(C, k, f) => f \in DOMAIN Seen(C, t).fields
                        /\ Seen(C, t).fields[f] = Seen(C, k).fields[f]
    BY <1>6, <1>11 DEF Moved
  <2>4. ~has(C, k, f) /\ has(C, t, f) => f = "kex" /\ Seen(C, t).fields[f] = <<>>
    <3>1. TypeOf(C, f) = "message" => f = "kex"
      BY <1>2, <1>4 DEF BitsAgree
    <3> QED
      BY <1>6, <1>11, <3>1, KexValueNew DEF Moved
  <2>5. IF f \in DOMAIN Values2[y].fields
        THEN f \in DOMAIN Values2'[x].fields /\ Values2'[x].fields[f] = Values2[y].fields[f]
        ELSE f \in DOMAIN Values2'[x].fields => f = "kex" /\ Values2'[x].fields[f] = <<>>
    BY <1>9, <1>11, <2>3, <2>4
  <2>6. Abstract!MVNext
    BY <1>3, <2>1, <2>2, <2>5, MoveIs
  <2> QED
    BY <1>9, <2>6
<1>13. CASE ~has(C, m, f) /\ ~has(C, t, f)
  <2>1. ~has(C, k, f)
    BY <1>6, <1>13 DEF Moved
  <2>2. Values2'[x] = Values2[x] /\ Values2'[y] = Values2[y]
    BY <1>7, <1>9, <1>10, <1>13, <2>1
  <2>3. \A z \in Objs : Values2'[z] = Values2[z]
    BY <1>3, <2>2
  <2>4. Values2' = Values2
    BY <2>3 DEF Values2
  <2> QED
    BY <1>9, <2>4
<1> QED
  BY <1>12, <1>13

LEMMA SwapStep ==
    ASSUME MOInv, swap
    PROVE  MOInv' /\ [Abstract!MVNext]_Values2
<1>1. PICK C, m, k : C = cls /\ m = obj["a"] /\ k = obj["b"]
  OBVIOUS
<1>2. PICK x, y : x = "a" /\ y = "b"
  OBVIOUS
<1>3. /\ C \in ClassNames /\ Good(C, m) /\ Good(C, k) /\ x \in Objs /\ y \in Objs /\ x # y
      /\ m = obj[x] /\ k = obj[y]
  BY <1>1, <1>2 DEF MOInv, Objs
<1>4. RowsAgree(C) /\ BitsAgree(C)
  BY <1>3, ClassesAgree
<1> DEFINE t == SwappedWith(C, m, k)
           u == SwappedWith(C, k, m)
<1>5. obj' = [z \in Objs |-> IF z = x THEN t ELSE u] /\ cls' = cls
  <2>1. obj' = [z \in Objs |-> SwappedWith(C, obj[z], obj[Other(z)])] /\ cls' = cls
    BY <1>1 DEF swap
  <2>2. \A z \in Objs : SwappedWith(C, obj[z], obj[Other(z)]) = IF z = x THEN t ELSE u
    <3>1. \A z \in Objs : (z = x /\ Other(z) = y) \/ (z = y /\ Other(z) = x)
      BY <1>2 DEF Objs, Other
    <3> QED
      BY <1>3, <3>1
  <2> HIDE DEF t, u
  <2> QED
    BY <2>1, <2>2
<1>6. Good(C, t) /\ Seen(C, t) = Seen(C, k) /\ Good(C, u) /\ Seen(C, u) = Seen(C, m)
  BY <1>3, <1>4, SwapSeen
<1> HIDE DEF t, u
<1>7. /\ MOInv'
      /\ Values2[x] = Seen(C, m) /\ Values2'[x] = Seen(C, t)
      /\ Values2[y] = Seen(C, k) /\ Values2'[y] = Seen(C, u)
  BY <1>1, <1>3, <1>5, <1>6, BothChanged
<1>8. Abstract!MVNext
  BY <1>3, <1>6, <1>7, SwapIs
<1> QED
  BY <1>7, <1>8

\* The accessors of one member.
LEMMA AccessorsStep ==
    ASSUME MOInv, NEW x \in Objs,
           setField(x) \/ mutableField(x) \/ setInside(x) \/ clearField(x)
    PROVE  MOInv' /\ [Abstract!MVNext]_Values2
<1>1. BitsAgree(cls) /\ Good(cls, obj[x])
  BY ClassesAgree DEF MOInv
<1>2. ASSUME NEW f \in Members(cls), NEW t, Touches(cls, obj[x], t, f), Becomes(x, t)
      PROVE  MOInv' /\ [Abstract!MVNext]_Values2
  <2>1. cls' = cls /\ obj' = [obj EXCEPT ![x] = t]
    BY <1>2 DEF Becomes
  <2> QED
    BY <1>2, <2>1, AccessorStep
<1>3. CASE setField(x)
  <2>0. PICK f \in Scalars(cls) :
          \E v \in Values(TypeOf(cls, f)) : Becomes(x, set(cls, obj[x], f, v))
    BY <1>3 DEF setField
  <2>1. PICK v \in Values(TypeOf(cls, f)) : Becomes(x, set(cls, obj[x], f, v))
    BY <2>0
  <2>2. f \in Members(cls)
    BY DEF Scalars
  <2>3. Shaped(cls, f, v, {Newer}) /\ TypeOf(cls, f) # "message"
    BY ValuesAreShaped
  <2>4. Touches(cls, obj[x], set(cls, obj[x], f, v), f)
    BY <1>1, <2>2, <2>3, SetTouches
  <2> QED
    BY <1>2, <2>1, <2>2, <2>4
<1>4. CASE mutableField(x)
  <2>1. PICK f \in Members(cls) : Becomes(x, mutable(cls, obj[x], f))
    BY <1>4 DEF mutableField
  <2>2. Touches(cls, obj[x], mutable(cls, obj[x], f), f)
    BY <1>1, MutableTouches
  <2> QED
    BY <1>2, <2>1, <2>2
<1>5. CASE setInside(x)
  <2>0. PICK f \in Pointers(cls), g \in Members("KexMsg") :
          \E v \in Values(TypeOf("KexMsg", g)) :
            Becomes(x, [mutable(cls, obj[x], f) EXCEPT !.val[f] = <<set("KexMsg", @[1], g, v)>>])
    BY <1>5 DEF setInside
  <2>1. PICK v \in Values(TypeOf("KexMsg", g)) :
          Becomes(x, [mutable(cls, obj[x], f) EXCEPT !.val[f] = <<set("KexMsg", @[1], g, v)>>])
    BY <2>0
  <2>2. f \in Members(cls)
    BY DEF Pointers
  <2>3. Touches(cls, obj[x],
                [mutable(cls, obj[x], f) EXCEPT !.val[f] = <<set("KexMsg", @[1], g, v)>>], f)
    BY <1>1, InsideTouches
  <2> QED
    BY <1>2, <2>1, <2>2, <2>3
<1>6. CASE clearField(x)
  <2>1. PICK f \in Members(cls) : Becomes(x, clear_field(cls, obj[x], f))
    BY <1>6 DEF clearField
  <2>2. Touches(cls, obj[x], clear_field(cls, obj[x], f), f)
    BY <1>1, ClearFieldTouches
  <2> QED
    BY <1>2, <2>1, <2>2
<1> QED
  BY <1>3, <1>4, <1>5, <1>6

\* The operations on whole objects.
LEMMA ObjectsStep ==
    ASSUME MOInv, NEW x \in Objs,
           clearObject(x) \/ copyFrom(x) \/ constructFrom(x) \/ mergeFrom(x) \/ transmit(x)
    PROVE  MOInv' /\ [Abstract!MVNext]_Values2
<1>1. PICK y \in Objs : y = Other(x)
  BY OtherIs
<1>2. /\ cls \in ClassNames /\ RowsAgree(cls) /\ BitsAgree(cls)
      /\ Good(cls, obj[x]) /\ Good(cls, obj[y])
  BY ClassesAgree DEF MOInv
<1>3. ASSUME NEW t, Good(cls, t), Becomes(x, t),
             \/ Seen(cls, t) = Abstract!Nothing
             \/ Seen(cls, t) = Seen(cls, obj[y])
             \/ Seen(cls, t) = Abstract!Joined(Seen(cls, obj[x]), Seen(cls, obj[y]))
             \/ ~StringsValid(cls, obj[y]) /\ Partial(cls, obj[y], t)
      PROVE  MOInv' /\ [Abstract!MVNext]_Values2
  <2>1. cls' = cls /\ obj' = [obj EXCEPT ![x] = t]
    BY <1>3 DEF Becomes
  <2> QED
    BY <1>1, <1>3, <2>1, ReplaceStep
<1>4. CASE clearObject(x)
  <2>1. Becomes(x, Clear(cls, obj[x]))
    BY <1>4 DEF clearObject
  <2>2. Emptied(cls, Clear(cls, obj[x]))
    BY <1>2, ClearEmpties DEF Good
  <2>3. Good(cls, Clear(cls, obj[x]))
    BY <1>2, <2>2, EmptiedIs DEF Good
  <2>4. Seen(cls, Clear(cls, obj[x])) = Abstract!Nothing
    BY <1>2, <2>2, EmptiedSeen
  <2> QED
    BY <1>3, <2>1, <2>3, <2>4
<1>5. CASE copyFrom(x)
  <2>1. Becomes(x, CopyFrom(cls, obj[x], obj[y]))
    BY <1>1, <1>5 DEF copyFrom
  <2>2. /\ Good(cls, CopyFrom(cls, obj[x], obj[y]))
        /\ Seen(cls, CopyFrom(cls, obj[x], obj[y])) = Seen(cls, obj[y])
    BY <1>2, CopySeen
  <2> QED
    BY <1>3, <2>1, <2>2
<1>6. CASE constructFrom(x)
  <2>1. Becomes(x, CopyConstruct(cls, obj[y]))
    BY <1>1, <1>6 DEF constructFrom
  <2>2. /\ Good(cls, CopyConstruct(cls, obj[y]))
        /\ Seen(cls, CopyConstruct(cls, obj[y])) = Seen(cls, obj[y])
    BY <1>2, ConstructSeen
  <2> QED
    BY <1>3, <2>1, <2>2
<1>7. CASE mergeFrom(x)
  <2>1. Becomes(x, MergeFrom(cls, obj[x], obj[y]))
    BY <1>1, <1>7 DEF mergeFrom
  <2>2. Good(cls, MergeFrom(cls, obj[x], obj[y]))
    BY <1>2, MergeGood
  <2>3. Seen(cls, MergeFrom(cls, obj[x], obj[y]))
          = Abstract!Joined(Seen(cls, obj[x]), Seen(cls, obj[y]))
    BY <1>2, MergeSeen
  <2> QED
    BY <1>3, <2>1, <2>2, <2>3
<1>8. CASE transmit(x)
  <2>1. PICK t : t = ParseFromArray(cls, obj[x], Serialize(cls, obj[y])).msg
    OBVIOUS
  <2>2. Becomes(x, t)
    BY <1>1, <1>8, <2>1 DEF transmit
  <2>3. /\ Good(cls, t)
        /\ Seen(cls, t) = Seen(cls, obj[y])
             \/ (~StringsValid(cls, obj[y]) /\ Partial(cls, obj[y], t))
    BY <1>2, <2>1, TransmitSeen
  <2> QED
    BY <1>3, <2>2, <2>3
<1> QED
  BY <1>4, <1>5, <1>6, <1>7, <1>8

LEMMA MOStep ==
    ASSUME MOInv, [MONext]_<<cls, obj>>
    PROVE  MOInv' /\ [Abstract!MVNext]_Values2
<1>1. CASE UNCHANGED <<cls, obj>>
  <2>1. MOInv'
    BY <1>1 DEF MOInv
  <2>2. \A x \in Objs : Values2'[x] = Values2[x]
    BY <1>1, ValuesNow
  <2>3. Values2' = Values2
    BY <2>2 DEF Values2
  <2> QED
    BY <2>1, <2>3
<1>2. CASE MONext
  BY <1>2, AccessorsStep, ObjectsStep, MoveStep, SwapStep DEF MONext
<1> QED
  BY <1>1, <1>2

LEMMA MOInvHolds == MOSpec => []MOInv
<1>1. MOInv /\ [MONext]_<<cls, obj>> => MOInv'
  BY MOStep
<1> QED
  BY <1>1, MOInvInit, PTL DEF MOSpec

\* A member whose has-bit is not set holds its default: whatever operations two objects
\* of a class go through, in any order, Clear and a parse into a used object find
\* nothing of an earlier frame behind a cleared bit, and a present sub-message is
\* never a null pointer.
THEOREM NothingRetained == MOSpec => []RetainedIsEmpty
<1>1. MOInv => RetainedIsEmpty
  BY DEF MOInv, Good, Retained, Kept, RetainedIsEmpty
<1> QED
  BY <1>1, MOInvHolds, PTL

\* The generated classes implement maps from fields to values: every operation has on
\* what can be observed of the two objects the effect that MessageValues gives it, and
\* what is serialised arrives, in whole unless one of its strings is not UTF-8.
THEOREM ClassesAreMaps == MOSpec => ImplementsValues
<1>1. MOInit => Abstract!MVInit
  <2> SUFFICES ASSUME MOInit PROVE Abstract!MVInit
    OBVIOUS
  <2>1. PICK u \in {<<>>, <<Newer>>} : obj = [x \in Objs |-> [New(cls) EXCEPT !.unknown = u]]
    BY DEF MOInit
  <2>2. BitsAgree(cls)
    BY MOInvInit, ClassesAgree DEF MOInv
  <2>3. \A f \in Members(cls) : ~has(cls, New(cls), f)
    BY <2>2, NewIsEmptied, EmptiedIs
  <2>4. ASSUME NEW x \in Objs PROVE ValueOf(obj[x]).fields = <<>>
    <3>1. obj[x].val = New(cls).val /\ obj[x].bits = New(cls).bits
      BY <2>1, ObjectsAre DEF IsObject
    <3>2. \A f \in Members(cls) : ~has(cls, obj[x], f)
      BY <2>3, <3>1 DEF has, Present
    <3>3. Fields(cls, obj[x]) = {}
      BY <3>2 DEF Fields
    <3> QED
      BY <3>3 DEF ValueOf
  <2> QED
    BY <2>4 DEF Abstract!MVInit
<1>2. MOInv /\ [MONext]_<<cls, obj>> => [Abstract!MVNext]_Values2
  BY MOStep
<1> QED
  BY <1>1, <1>2, MOInvHolds, PTL DEF MOSpec, ImplementsValues, Abstract!MVSpec, Values2

-----------------------------------------------------------------------------
(* A sum over a set: MapThenSumSet takes the elements in an order of its own. *)

\* q[j][s] is the sum of e over those of g[1], ..., g[j] that are in s.
Sums(S, e, n, g, q) ==
    /\ \A s \in SUBSET S : q[0][s] = 0
    /\ \A j \in 1..n : \A s \in SUBSET S :
         q[j][s] = q[j - 1][s] + (IF g[j] \in s THEN e[g[j]] ELSE 0)

LEMMA SumsAre ==
    ASSUME NEW S, NEW e, NEW n \in Nat, NEW g
    PROVE  \E q : Sums(S, e, n, g, q)
<1> DEFINE T == {k \in Nat : \E q : Sums(S, e, k, g, q)}
<1>1. 0 \in T
  <2> DEFINE q == [j \in {0} |-> [s \in SUBSET S |-> 0]]
  <2>1. Sums(S, e, 0, g, q)
    BY DEF Sums
  <2> HIDE DEF q
  <2> QED
    BY <2>1
<1>2. ASSUME NEW k \in T PROVE k + 1 \in T
  <2>1. k \in Nat /\ k + 1 \in Nat
    OBVIOUS
  <2>2. PICK q : Sums(S, e, k, g, q)
    OBVIOUS
  <2> DEFINE top == [s \in SUBSET S |->
                        q[k][s] + (IF g[k + 1] \in s THEN e[g[k + 1]] ELSE 0)]
             p == [j \in 0..k + 1 |-> IF j <= k THEN q[j] ELSE top]
  <2>3. \A s \in SUBSET S :
          top[s] = q[k][s] + (IF g[k + 1] \in s THEN e[g[k + 1]] ELSE 0)
    OBVIOUS
  <2> HIDE DEF top
  <2>4. p[k + 1] = top /\ \A j \in 0..k : p[j] = q[j]
    BY <2>1
  <2> HIDE DEF p
  <2>5. \A s \in SUBSET S : p[0][s] = 0
    BY <2>1, <2>2, <2>4 DEF Sums
  <2>6. ASSUME NEW j \in 1..k + 1, NEW s \in SUBSET S
        PROVE  p[j][s] = p[j - 1][s] + (IF g[j] \in s THEN e[g[j]] ELSE 0)
    <3>1. CASE j = k + 1
      <4>1. j - 1 = k /\ k \in 0..k
        BY <2>1, <3>1
      <4> QED
        BY <2>3, <2>4, <3>1, <4>1
    <3>2. CASE j # k + 1
      <4>1. j \in 1..k /\ j \in 0..k /\ j - 1 \in 0..k
        BY <2>1, <3>2
      <4>2. q[j][s] = q[j - 1][s] + (IF g[j] \in s THEN e[g[j]] ELSE 0)
        BY <2>2, <4>1 DEF Sums
      <4> QED
        BY <2>4, <4>1, <4>2
    <3> QED
      BY <3>1, <3>2
  <2>7. Sums(S, e, k + 1, g, p)
    BY <2>5, <2>6 DEF Sums
  <2> QED
    BY <2>1, <2>7
<1>3. T = Nat
  <2>1. T \in SUBSET Nat
    OBVIOUS
  <2> HIDE DEF T
  <2> QED
    BY <1>1, <1>2, <2>1, NatBySets
<1> QED
  BY <1>3

\* g enumerates S.
Enumerates(g, n, S) ==
    /\ \A i \in 1..n : g[i] \in S
    /\ \A x \in S : \E i \in 1..n : g[i] = x
    /\ \A i, j \in 1..n : i # j => g[i] # g[j]

\* The sum of a set is that of an element and that of the others.
Adds(S, e, h) ==
    /\ \A s \in SUBSET S : h[s] \in Nat
    /\ h[{}] = 0
    /\ \A s \in SUBSET S : \A x \in s : h[s] = e[x] + h[s \ {x}]

LEMMA SumsOfParts ==
    ASSUME NEW S, NEW e, \A x \in S : e[x] \in Nat, NEW n \in Nat, NEW g,
           Enumerates(g, n, S), NEW q, Sums(S, e, n, g, q)
    PROVE  Adds(S, e, q[n])
<1>1. \A i \in 1..n : e[g[i]] \in Nat
  BY DEF Enumerates
<1>2. /\ \A s \in SUBSET S : q[0][s] = 0
      /\ \A j \in 1..n : \A s \in SUBSET S :
           q[j][s] = q[j - 1][s] + (IF g[j] \in s THEN e[g[j]] ELSE 0)
  BY DEF Sums
<1>3. ASSUME NEW s \in SUBSET S
      PROVE  q[n][s] \in Nat /\ (s = {} => q[n][s] = 0)
  <2> DEFINE T == {k \in Nat : k <= n => q[k][s] \in Nat /\ (s = {} => q[k][s] = 0)}
  <2>1. 0 \in T
    BY <1>2
  <2>2. ASSUME NEW k \in T PROVE k + 1 \in T
    <3>1. SUFFICES ASSUME k + 1 <= n
                   PROVE  q[k + 1][s] \in Nat /\ (s = {} => q[k + 1][s] = 0)
      OBVIOUS
    <3>2. k \in Nat /\ q[k][s] \in Nat /\ (s = {} => q[k][s] = 0)
      BY <3>1
    <3>3. k + 1 \in 1..n /\ (k + 1) - 1 = k
      BY <3>1, <3>2
    <3>4. q[k + 1][s] = q[k][s] + (IF g[k + 1] \in s THEN e[g[k + 1]] ELSE 0)
      BY <1>2, <3>3
    <3>5. e[g[k + 1]] \in Nat
      BY <1>1, <3>3
    <3> HIDE DEF T
    <3> QED
      BY <3>2, <3>4, <3>5
  <2>3. T = Nat
    <3>1. T \in SUBSET Nat
      OBVIOUS
    <3> HIDE DEF T
    <3> QED
      BY <2>1, <2>2, <3>1, NatBySets
  <2> QED
    BY <2>3
<1>4. ASSUME NEW s \in SUBSET S, NEW x \in s
      PROVE  q[n][s] = e[x] + q[n][s \ {x}]
  <2>1. PICK i \in 1..n : g[i] = x
    BY DEF Enumerates
  <2> DEFINE u == s \ {x}
             T == {k \in Nat : k <= n =>
                     /\ q[k][u] \in Nat
                     /\ q[k][s] = (IF i <= k THEN e[x] ELSE 0) + q[k][u]}
  <2>2. u \in SUBSET S /\ e[x] \in Nat
    OBVIOUS
  <2>3. x \notin u /\ \A y : y # x => (y \in u <=> y \in s)
    OBVIOUS
  <2> HIDE DEF u
  <2>4. 0 \in T
    <3>1. ~(i <= 0)
      OBVIOUS
    <3> QED
      BY <1>2, <2>2, <3>1
  <2>5. ASSUME NEW k \in T PROVE k + 1 \in T
    <3>1. SUFFICES ASSUME k + 1 <= n
                   PROVE  /\ q[k + 1][u] \in Nat
                          /\ q[k + 1][s] = (IF i <= k + 1 THEN e[x] ELSE 0) + q[k + 1][u]
      OBVIOUS
    <3>2. /\ k \in Nat /\ q[k][u] \in Nat
          /\ q[k][s] = (IF i <= k THEN e[x] ELSE 0) + q[k][u]
      BY <3>1
    <3>3. k + 1 \in 1..n /\ (k + 1) - 1 = k
      BY <3>1, <3>2
    <3>4. /\ q[k + 1][s] = q[k][s] + (IF g[k + 1] \in s THEN e[g[k + 1]] ELSE 0)
          /\ q[k + 1][u] = q[k][u] + (IF g[k + 1] \in u THEN e[g[k + 1]] ELSE 0)
      BY <1>2, <2>2, <3>3
    <3>5. e[g[k + 1]] \in Nat
      BY <1>1, <3>3
    <3> HIDE DEF T
    <3>6. CASE k + 1 = i
      <4>1. g[k + 1] = x /\ g[k + 1] \in s /\ g[k + 1] \notin u /\ i <= k + 1 /\ ~(i <= k)
        BY <2>1, <2>3, <3>2, <3>6
      <4> QED
        BY <2>2, <3>2, <3>4, <4>1
    <3>7. CASE k + 1 # i
      <4>1. g[k + 1] # x
        BY <2>1, <3>3, <3>7 DEF Enumerates
      <4>2. g[k + 1] \in u <=> g[k + 1] \in s
        BY <2>3, <4>1
      <4>3. i <= k + 1 <=> i <= k
        BY <3>2, <3>7
      <4> QED
        BY <2>2, <3>2, <3>4, <3>5, <4>2, <4>3
    <3> QED
      BY <3>6, <3>7
  <2>6. T = Nat
    <3>1. T \in SUBSET Nat
      OBVIOUS
    <3> HIDE DEF T
    <3> QED
      BY <2>4, <2>5, <3>1, NatBySets
  <2>7. q[n][s] = (IF i <= n THEN e[x] ELSE 0) + q[n][u]
    BY <2>6
  <2>8. i <= n
    OBVIOUS
  <2> QED
    BY <2>7, <2>8 DEF u
<1> QED
  BY <1>3, <1>4 DEF Adds

\* The sum as MapThenSumSet computes it.
SumStep(S, e, h) ==
    [s \in SUBSET S |-> IF s = {} THEN 0
                        ELSE e[CHOOSE x \in s : TRUE] + h[s \ {CHOOSE x \in s : TRUE}]]
Total(S, e) == (CHOOSE h : h = SumStep(S, e, h))[S]

LEMMA TotalIs ==
    ASSUME NEW S, NEW e, \A x \in S : e[x] \in Nat, NEW n \in Nat, NEW g,
           Enumerates(g, n, S), NEW q, Sums(S, e, n, g, q)
    PROVE  Total(S, e) = q[n][S]
<1>1. /\ \A s \in SUBSET S : q[n][s] \in Nat
      /\ q[n][{}] = 0
      /\ \A s \in SUBSET S : \A x \in s : q[n][s] = e[x] + q[n][s \ {x}]
  <2>1. Adds(S, e, q[n])
    BY SumsOfParts
  <2> QED
    BY <2>1 DEF Adds
<1> DEFINE h == [s \in SUBSET S |-> q[n][s]]
<1>2. h = SumStep(S, e, h)
  <2>1. ASSUME NEW s \in SUBSET S
        PROVE  h[s] = IF s = {} THEN 0
                      ELSE e[CHOOSE x \in s : TRUE] + h[s \ {CHOOSE x \in s : TRUE}]
    <3>1. CASE s = {}
      BY <1>1, <3>1
    <3>2. CASE s # {}
      <4>1. PICK x \in s : x = CHOOSE y \in s : TRUE
        BY <3>2
      <4>2. s \ {x} \in SUBSET S
        OBVIOUS
      <4>3. h[s] = q[n][s] /\ h[s \ {x}] = q[n][s \ {x}]
        BY <4>2
      <4>4. q[n][s] = e[x] + q[n][s \ {x}]
        BY <1>1
      <4> HIDE DEF h
      <4> QED
        BY <3>2, <4>1, <4>3, <4>4
    <3> QED
      BY <3>1, <3>2
  <2>2. h = [s \in SUBSET S |-> h[s]]
    OBVIOUS
  <2>3. SumStep(S, e, h)
          = [s \in SUBSET S |-> IF s = {} THEN 0
                                ELSE e[CHOOSE x \in s : TRUE] + h[s \ {CHOOSE x \in s : TRUE}]]
    BY DEF SumStep
  <2> HIDE DEF h
  <2> QED
    BY <2>1, <2>2, <2>3
<1> HIDE DEF h
<1> DEFINE it == CHOOSE f : f = SumStep(S, e, f)
<1>3. it = SumStep(S, e, it)
  BY <1>2, Zenon
<1> HIDE DEF it
<1>4. \A s \in SUBSET S :
        /\ s = {} => it[s] = 0
        /\ s # {} => \E x \in s : it[s] = e[x] + it[s \ {x}]
  <2> SUFFICES ASSUME NEW s \in SUBSET S
               PROVE  /\ s = {} => it[s] = 0
                      /\ s # {} => \E x \in s : it[s] = e[x] + it[s \ {x}]
    OBVIOUS
  <2>1. it[s] = IF s = {} THEN 0
                ELSE e[CHOOSE x \in s : TRUE] + it[s \ {CHOOSE x \in s : TRUE}]
    BY <1>3 DEF SumStep
  <2>2. s # {} => (CHOOSE x \in s : TRUE) \in s
    OBVIOUS
  <2> QED
    BY <2>1, <2>2
<1>5. IsFiniteSet(S)
  <2>1. [i \in 1..n |-> g[i]] \in Surjection(1..n, S)
    BY DEF Enumerates, Surjection
  <2>2. ExistsSurjection(1..n, S)
    BY <2>1 DEF ExistsSurjection
  <2> QED
    BY <2>2, FS_NatSurjection
<1> DEFINE T == {k \in Nat : \A s \in SUBSET S : Cardinality(s) = k => it[s] = q[n][s]}
<1>6. \A s \in SUBSET S : IsFiniteSet(s) /\ Cardinality(s) \in Nat
  BY <1>5, FS_Subset, FS_CardinalityType
<1>7. 0 \in T
  <2>1. \A s \in SUBSET S : Cardinality(s) = 0 => s = {}
    BY <1>6, FS_EmptySet
  <2> QED
    BY <1>1, <1>4, <2>1
<1>8. ASSUME NEW k \in T PROVE k + 1 \in T
  <2>1. SUFFICES ASSUME NEW s \in SUBSET S, Cardinality(s) = k + 1 PROVE it[s] = q[n][s]
    OBVIOUS
  <2>0. k \in Nat /\ \A u \in SUBSET S : Cardinality(u) = k => it[u] = q[n][u]
    OBVIOUS
  <2>2. s # {}
    <3>1. Cardinality(s) # 0
      BY <2>0, <2>1
    <3> QED
      BY <3>1, FS_EmptySet
  <2>3. PICK x \in s : it[s] = e[x] + it[s \ {x}]
    BY <1>4, <2>2
  <2>4. Cardinality(s \ {x}) = k /\ s \ {x} \in SUBSET S
    <3>1. Cardinality(s \ {x}) = Cardinality(s) - 1
      BY <1>6, FS_RemoveElement
    <3> QED
      BY <2>0, <2>1, <3>1
  <2>5. it[s \ {x}] = q[n][s \ {x}]
    BY <2>0, <2>4
  <2>6. q[n][s] = e[x] + q[n][s \ {x}]
    BY <1>1
  <2> QED
    BY <2>3, <2>5, <2>6
<1>9. T = Nat
  <2>1. T \in SUBSET Nat
    OBVIOUS
  <2> HIDE DEF T
  <2> QED
    BY <1>7, <1>8, <2>1, NatBySets
<1>10. it[S] = q[n][S]
  BY <1>6, <1>9
<1> QED
  BY <1>10 DEF Total, it

\* The sum of all is what the members add up to, one after the other.
LEMMA TotalOf ==
    ASSUME NEW S, NEW e, \A x \in S : e[x] \in Nat, NEW n \in Nat, NEW g,
           Enumerates(g, n, S), NEW t, t[0] = 0,
           \A k \in 1..n : t[k] = t[k - 1] + e[g[k]]
    PROVE  Total(S, e) = t[n]
<1>1. PICK q : Sums(S, e, n, g, q)
  BY SumsAre
<1>2. Total(S, e) = q[n][S]
  BY <1>1, TotalIs
<1> DEFINE T == {k \in Nat : k <= n => q[k][S] = t[k]}
<1>3. 0 \in T
  BY <1>1 DEF Sums
<1>4. ASSUME NEW k \in T PROVE k + 1 \in T
  <2>1. SUFFICES ASSUME k + 1 <= n PROVE q[k + 1][S] = t[k + 1]
    OBVIOUS
  <2>2. k \in Nat /\ q[k][S] = t[k]
    BY <2>1
  <2>3. k + 1 \in 1..n /\ (k + 1) - 1 = k
    BY <2>1, <2>2
  <2>4. g[k + 1] \in S
    BY <2>3 DEF Enumerates
  <2>5. q[k + 1][S] = q[k][S] + e[g[k + 1]]
    BY <1>1, <2>3, <2>4 DEF Sums
  <2> QED
    BY <2>2, <2>3, <2>5
<1>5. T = Nat
  <2>1. T \in SUBSET Nat
    OBVIOUS
  <2> HIDE DEF T
  <2> QED
    BY <1>3, <1>4, <2>1, NatBySets
<1> QED
  BY <1>2, <1>5

-----------------------------------------------------------------------------
(* The size of what is written. *)

SizeRun(wire, n, r) ==
    /\ r[0] = 0 /\ \A k \in 1..n : r[k] = r[k - 1] + FieldSize(wire[k])
    /\ WireSize(wire) = r[n]

LEMMA SizeRuns ==
    ASSUME NEW wire, NEW n \in Nat, DOMAIN wire = 1..n
    PROVE  \E r : SizeRun(wire, n, r)
<1>1. \E r : /\ r[0] = 0
             /\ \A k \in 1..n : r[k] = r[k - 1] + FieldSize(wire[k])
             /\ WireSize(wire) = r[n]
  BY SizeChain
<1> QED
  BY <1>1, Zenon DEF SizeRun

LEMMA SizeAppend ==
    ASSUME NEW S, NEW a \in Seq(S), NEW w \in S
    PROVE  WireSize(Append(a, w)) = WireSize(a) + FieldSize(w)
<1> DEFINE n == Len(a)
           b == Append(a, w)
<1>1. n \in Nat /\ DOMAIN a = 1..n
  BY LenProperties
<1>2. DOMAIN b = 1..n + 1 /\ b[n + 1] = w /\ \A k \in 1..n : b[k] = a[k]
  BY <1>1, AppendProperties
<1> HIDE DEF n, b
<1>3. PICK r : SizeRun(a, n, r)
  BY <1>1, SizeRuns
<1>4. PICK q : SizeRun(b, n + 1, q)
  <2>1. PICK l \in Nat : l = n + 1
    BY <1>1
  <2>2. DOMAIN b = 1..l
    BY <1>2, <2>1
  <2>3. \E q : SizeRun(b, l, q)
    BY <2>2, SizeRuns
  <2> QED
    BY <2>1, <2>3
<1> DEFINE T == {k \in Nat : k <= n => q[k] = r[k]}
<1>5. 0 \in T
  BY <1>3, <1>4 DEF SizeRun
<1>6. ASSUME NEW k \in T PROVE k + 1 \in T
  <2>1. k \in Nat /\ (k <= n => q[k] = r[k])
    OBVIOUS
  <2>2. ASSUME k + 1 <= n PROVE q[k + 1] = r[k + 1]
    <3>1. k + 1 \in 1..n /\ k + 1 \in 1..n + 1 /\ (k + 1) - 1 = k /\ k <= n
      BY <1>1, <2>1, <2>2
    <3>2. q[k + 1] = q[k] + FieldSize(b[k + 1]) /\ r[k + 1] = r[k] + FieldSize(a[k + 1])
      BY <1>3, <1>4, <3>1 DEF SizeRun
    <3> QED
      BY <1>2, <2>1, <3>1, <3>2
  <2> QED
    BY <2>1, <2>2
<1>7. T = Nat
  <2>1. T \in SUBSET Nat
    OBVIOUS
  <2> HIDE DEF T
  <2> QED
    BY <1>5, <1>6, <2>1, NatBySets
<1>8. q[n] = r[n]
  BY <1>1, <1>7
<1>9. n + 1 \in 1..n + 1 /\ (n + 1) - 1 = n
  BY <1>1
<1>10. q[n + 1] = q[n] + FieldSize(w)
  BY <1>2, <1>4, <1>9 DEF SizeRun
<1> QED
  BY <1>3, <1>4, <1>8, <1>10 DEF b, SizeRun

LEMMA SizeConcat ==
    ASSUME NEW S, \A w \in S : IsBytes(w.bytes), NEW a \in Seq(S), NEW u \in Seq(S)
    PROVE  WireSize(a \o u) = WireSize(a) + WireSize(u)
<1> DEFINE n == Len(u)
           v(k) == SubSeq(u, 1, k)
           T == {k \in Nat : k <= n => WireSize(a \o v(k)) = WireSize(a) + WireSize(v(k))}
<1>1. n \in Nat /\ WireSize(<<>>) = 0
  BY SmallSizes
<1>2. \A x \in Seq(S) : WireSize(x) \in Nat
  <2> SUFFICES ASSUME NEW x \in Seq(S) PROVE WireSize(x) \in Nat
    OBVIOUS
  <2>1. IsWire(x)
    BY WireOf
  <2> QED
    BY <2>1, SizesAdd
<1>3. 0 \in T
  <2>1. v(0) = <<>> /\ a \o <<>> = a
    BY ConcatEmptySeq
  <2>2. WireSize(a) \in Nat
    BY <1>2
  <2>3. WireSize(a \o <<>>) = WireSize(a) + WireSize(<<>>)
    <3> HIDE DEF v, T
    <3> QED
      BY <1>1, <2>1, <2>2
  <2>4. WireSize(a \o v(0)) = WireSize(a) + WireSize(v(0))
    BY <2>1, <2>3, Zenon
  <2> QED
    BY <2>4
<1>4. ASSUME NEW k \in T PROVE k + 1 \in T
  <2>1. SUFFICES ASSUME k + 1 <= n
                 PROVE  WireSize(a \o v(k + 1)) = WireSize(a) + WireSize(v(k + 1))
    OBVIOUS
  <2>2. k \in Nat /\ WireSize(a \o v(k)) = WireSize(a) + WireSize(v(k))
    BY <1>1, <2>1
  <2>3. PICK x \in Seq(S), w \in S : x = v(k) /\ v(k + 1) = Append(x, w)
    <3>1. k + 1 \in 1..Len(u) /\ (k + 1) - 1 = k /\ 1 \in 1..Len(u)
      BY <1>1, <2>1, <2>2
    <3>2. \A i \in 1..k : u[i] \in S
      BY <1>1, <2>1, <2>2
    <3>3. v(k) \in Seq(S)
      BY <2>2, <3>2, SubSeqProperties
    <3>4. u[k + 1] \in S
      BY <3>1
    <3>5. v(k + 1) = v(k) \o <<u[k + 1]>>
      BY <3>1, SubSeqRecursiveSecond
    <3> QED
      BY <3>3, <3>4, <3>5, AppendIsConcat
  <2>4. a \o Append(x, w) = Append(a \o x, w) /\ a \o x \in Seq(S)
    OBVIOUS
  <2>5. WireSize(Append(a \o x, w)) = WireSize(a \o x) + FieldSize(w)
    BY <2>4, SizeAppend
  <2>6. WireSize(Append(x, w)) = WireSize(x) + FieldSize(w)
    BY SizeAppend
  <2>7. WireSize(a) \in Nat /\ WireSize(x) \in Nat /\ FieldSize(w) \in Nat
    BY <1>2, FieldSizes DEF IsBytes
  <2>8. WireSize(a \o x) = WireSize(a) + WireSize(x)
    BY <2>2, <2>3
  <2> HIDE DEF v, T
  <2>9. WireSize(Append(a \o x, w)) = WireSize(a) + WireSize(Append(x, w))
    BY <2>5, <2>6, <2>7, <2>8
  <2>10. WireSize(a \o Append(x, w)) = WireSize(a) + WireSize(Append(x, w))
    BY <2>4, <2>9, Zenon
  <2> QED
    BY <2>3, <2>10, Zenon
<1>5. T = Nat
  <2>1. T \in SUBSET Nat
    OBVIOUS
  <2> HIDE DEF T
  <2> QED
    BY <1>3, <1>4, <2>1, NatBySets
<1>6. WireSize(a \o v(n)) = WireSize(a) + WireSize(v(n))
  BY <1>1, <1>5
<1>7. v(n) = u
  OBVIOUS
<1> QED
  BY <1>6, <1>7

-----------------------------------------------------------------------------
(* The size that _ByteSize computes. *)

\* What is counted for a row.
CountedWith(C, m, row, Sub(_)) ==
    IF ~Present(C, m, row.f, row.bit) THEN 0
    ELSE LET body == IF row.type = "message" THEN Sub(m.val[row.f][1])
                     ELSE IF row.type = "int" THEN 0 ELSE m.val[row.f].len
         IN  1 + (IF row.type = "int" THEN VarintSize(m.val[row.f]) ELSE VarintSize(body) + body)
Counted(C, m, row) == CountedWith(C, m, row, ByteSizeKex)
Counts(C, m) == [row \in Class[C].bytesize |-> Counted(C, m, row)]

LEMMA CountedIs ==
    ASSUME NEW C, NEW m
    PROVE  ByteSizeLong(C, m) = Total(Class[C].bytesize, Counts(C, m)) + WireSize(m.unknown)
<1> DEFINE S == Class[C].bytesize
           W(row) == CountedWith(C, m, row, ByteSizeKex)
           e == Counts(C, m)
           A(h) == [s \in SUBSET S |->
                      IF s = {} THEN 0
                      ELSE W(CHOOSE x \in s : TRUE) + h[s \ {CHOOSE x \in s : TRUE}]]
           B(h) == SumStep(S, e, h)
<1>1. \A x \in S : W(x) = e[x]
  BY DEF Counts, Counted
<1>2. ASSUME NEW h PROVE A(h) = B(h)
  <2>1. ASSUME NEW s \in SUBSET S, s # {}
        PROVE  W(CHOOSE x \in s : TRUE) = e[CHOOSE x \in s : TRUE]
    <3>1. PICK x \in S : x = CHOOSE y \in s : TRUE
      BY <2>1
    <3> HIDE DEF W, e, S
    <3> QED
      BY <1>1, <3>1
  <2> HIDE DEF W, e, S
  <2> QED
    BY <2>1 DEF SumStep
<1>3. (CHOOSE h : h = A(h)) = (CHOOSE h : h = B(h))
  <2> HIDE DEF A, B
  <2> QED
    BY <1>2
<1>4. ByteSizeLong(C, m) = (CHOOSE h : h = A(h))[S] + WireSize(m.unknown)
  BY DEF ByteSizeLong, ByteSizeWith, MapThenSumSet, MapThenFoldSet, CountedWith
<1>5. Total(S, e) = (CHOOSE h : h = B(h))[S]
  BY DEF Total
<1> HIDE DEF A, B, e
<1> QED
  BY <1>3, <1>4, <1>5 DEF e

LEMMA KexCounted ==
    ASSUME NEW k PROVE ByteSizeKex(k) = ByteSizeLong("KexMsg", k)
<1> DEFINE S == Class["KexMsg"].bytesize
           V(row) == CountedWith("KexMsg", k, row, LAMBDA s : 0)
           W(row) == CountedWith("KexMsg", k, row, ByteSizeKex)
           A(h) == [s \in SUBSET S |->
                      IF s = {} THEN 0
                      ELSE V(CHOOSE x \in s : TRUE) + h[s \ {CHOOSE x \in s : TRUE}]]
           B(h) == [s \in SUBSET S |->
                      IF s = {} THEN 0
                      ELSE W(CHOOSE x \in s : TRUE) + h[s \ {CHOOSE x \in s : TRUE}]]
<1>1. \A x \in S : V(x) = W(x)
  <2>1. \A x \in S : x.type # "message"
    BY DEF Class, KexMsg_class, Of, KexMsg_ByteSize, F
  <2> HIDE DEF S
  <2> QED
    BY <2>1 DEF CountedWith
<1>2. ASSUME NEW h PROVE A(h) = B(h)
  <2>1. ASSUME NEW s \in SUBSET S, s # {}
        PROVE  V(CHOOSE x \in s : TRUE) = W(CHOOSE x \in s : TRUE)
    <3>1. PICK x \in S : x = CHOOSE y \in s : TRUE
      BY <2>1
    <3> HIDE DEF V, W, S
    <3> QED
      BY <1>1, <3>1
  <2> HIDE DEF V, W, S
  <2> QED
    BY <2>1
<1>3. (CHOOSE h : h = A(h)) = (CHOOSE h : h = B(h))
  <2> HIDE DEF A, B
  <2> QED
    BY <1>2
<1>4. ByteSizeKex(k) = (CHOOSE h : h = A(h))[S] + WireSize(k.unknown)
  BY DEF ByteSizeKex, ByteSizeWith, MapThenSumSet, MapThenFoldSet, CountedWith
<1>5. ByteSizeLong("KexMsg", k) = (CHOOSE h : h = B(h))[S] + WireSize(k.unknown)
  BY DEF ByteSizeLong, ByteSizeWith, MapThenSumSet, MapThenFoldSet, CountedWith
<1> HIDE DEF A, B
<1> QED
  BY <1>3, <1>4, <1>5

\* The sub-messages of m are counted as they are written.
SubsCounted(C, m) ==
    \A f \in Members(C) : TypeOf(C, f) = "message" /\ has(C, m, f) =>
        /\ IsBytes(SerializeKex(m.val[f][1]))
        /\ ByteSizeKex(m.val[f][1]) = SerializeKex(m.val[f][1]).len

LEMMA RowCounted ==
    ASSUME NEW C, RowsAgree(C), BitsAgree(C), NEW m, Good(C, m), SubsCounted(C, m),
           NEW i \in DOMAIN RowsOf(C)
    PROVE  LET f == RowsOf(C)[i].f
               w == FieldAt(C, m, i)
           IN  /\ ~has(C, m, f) => Counted(C, m, RowOf(C, 1, f)) = 0
               /\ has(C, m, f) => /\ IsBytes(w.bytes)
                                  /\ Counted(C, m, RowOf(C, 1, f)) = FieldSize(w)
<1> DEFINE f == RowsOf(C)[i].f
           num == RowsOf(C)[i].num
           type == TypeOf(C, f)
           row == RowOf(C, 1, f)
           w == FieldAt(C, m, i)
<1>1. /\ f \in Members(C) /\ type \in {"int", "string", "bytes", "message"}
      /\ row.f = f /\ row.type = type /\ row.bit = BitOf(C, f)
  BY DEF RowsAgree, BitsAgree, RowsOf, RowOf, F
<1>2. w = FieldOf(C, m, num, f)
  BY DEF FieldAt
<1>3. Present(C, m, row.f, row.bit) <=> has(C, m, f)
  BY <1>1 DEF has
<1> HIDE DEF f, num, row, w
<1>4. CASE ~has(C, m, f)
  BY <1>3, <1>4 DEF Counted, CountedWith, f, row, w
<1>5. CASE has(C, m, f) /\ type = "int"
  <2>1. w = Varint(num, m.val[f])
    BY <1>2, <1>5 DEF FieldOf
  <2>2. w.wt = "varint" /\ w.n = m.val[f] /\ IsBytes(w.bytes)
    BY <2>1, FieldsAreBytes
  <2>3. FieldSize(w) = 1 + VarintSize(m.val[f])
    BY <2>2 DEF FieldSize
  <2>4. Counted(C, m, row) = 1 + VarintSize(m.val[f])
    BY <1>1, <1>3, <1>5 DEF Counted, CountedWith
  <2> QED
    BY <1>5, <2>2, <2>3, <2>4 DEF f, row, w
<1>6. ASSUME NEW b, IsBytes(b), w = Bytes(num, b)
      PROVE  IsBytes(w.bytes) /\ FieldSize(w) = 1 + (VarintSize(b.len) + b.len)
  <2>1. w.wt = "len" /\ w.bytes = b
    BY <1>6, FieldsAreBytes
  <2> QED
    BY <1>6, <2>1 DEF FieldSize
<1>7. CASE has(C, m, f) /\ type \in {"string", "bytes"}
  <2> DEFINE b == m.val[f]
  <2>1. w = Bytes(num, b)
    BY <1>2, <1>7 DEF FieldOf
  <2>2. IsBytes(b)
    BY <1>1, <1>7 DEF Good, Proper, Flat
  <2>3. Counted(C, m, row) = 1 + (VarintSize(b.len) + b.len)
    BY <1>1, <1>3, <1>7 DEF Counted, CountedWith
  <2>4. IsBytes(w.bytes) /\ FieldSize(w) = 1 + (VarintSize(b.len) + b.len)
    <3> HIDE DEF b
    <3> QED
      BY <1>6, <2>1, <2>2
  <2> QED
    BY <1>7, <2>3, <2>4 DEF f, row, w
<1>8. CASE has(C, m, f) /\ type = "message"
  <2> DEFINE k == m.val[f][1]
             b == SerializeKex(k)
  <2>1. w = Bytes(num, b)
    BY <1>2, <1>8 DEF FieldOf
  <2>2. IsBytes(b) /\ ByteSizeKex(k) = b.len
    BY <1>1, <1>8 DEF SubsCounted
  <2>3. Counted(C, m, row) = 1 + (VarintSize(ByteSizeKex(k)) + ByteSizeKex(k))
    BY <1>1, <1>3, <1>8 DEF Counted, CountedWith
  <2>4. IsBytes(w.bytes) /\ FieldSize(w) = 1 + (VarintSize(b.len) + b.len)
    <3> HIDE DEF b
    <3> QED
      BY <1>6, <2>1, <2>2
  <2> QED
    BY <1>8, <2>2, <2>3, <2>4 DEF f, row, w
<1> QED
  BY <1>1, <1>4, <1>5, <1>7, <1>8 DEF f, row, w

\* The rows, in the order in which they are written, enumerate those that are counted.
LEMMA RowsEnumerated ==
    ASSUME NEW C, RowsAgree(C), NEW n \in Nat, DOMAIN RowsOf(C) = 1..n
    PROVE  Enumerates([i \in 1..n |-> RowOf(C, 1, RowsOf(C)[i].f)], n, Class[C].bytesize)
<1> DEFINE g == [i \in 1..n |-> RowOf(C, 1, RowsOf(C)[i].f)]
<1>1. /\ \A i \in 1..n : RowsOf(C)[i].f \in Members(C)
      /\ \A f \in Members(C) : \E i \in 1..n : RowsOf(C)[i].f = f
      /\ \A i, j \in 1..n : i # j => RowsOf(C)[i].f # RowsOf(C)[j].f
      /\ Class[C].bytesize = {RowOf(C, 1, f) : f \in Members(C)}
  BY DEF RowsAgree, RowsOf
<1>2. \A f : RowOf(C, 1, f).f = f
  BY DEF RowOf, F
<1>3. \A i \in 1..n : g[i] = RowOf(C, 1, RowsOf(C)[i].f)
  OBVIOUS
<1> HIDE DEF g
<1> QED
  BY <1>1, <1>2, <1>3 DEF Enumerates, g

LEMMA SizeIs ==
    ASSUME NEW C, RowsAgree(C), BitsAgree(C), NEW m, Good(C, m), SubsCounted(C, m)
    PROVE  /\ IsWire(Serialize(C, m))
           /\ ByteSizeLong(C, m) = WireSize(Serialize(C, m))
<1> DEFINE n == Len(RowsOf(C))
           f(i) == RowsOf(C)[i].f
           S == {FieldAt(C, m, i) : i \in {j \in 1..n : has(C, m, f(j))}} \union {Newer}
           g == [i \in 1..n |-> RowOf(C, 1, f(i))]
           e == Counts(C, m)
           rows == Class[C].bytesize
<1>1. n \in Nat /\ DOMAIN RowsOf(C) = 1..n
  BY DEF RowsAgree, RowsOf
<1>2. ASSUME NEW i \in 1..n
      PROVE  /\ ~has(C, m, f(i)) => Counted(C, m, RowOf(C, 1, f(i))) = 0
             /\ has(C, m, f(i)) => /\ IsBytes(FieldAt(C, m, i).bytes)
                                   /\ Counted(C, m, RowOf(C, 1, f(i)))
                                        = FieldSize(FieldAt(C, m, i))
  <2>1. i \in DOMAIN RowsOf(C)
    BY <1>1
  <2> QED
    BY <2>1, RowCounted
<1>3. \A w \in S : IsBytes(w.bytes)
  BY <1>2, MessageObjectsAssumption
<1>4. Enumerates(g, n, rows)
  BY <1>1, RowsEnumerated
<1>5. \A i \in 1..n : g[i] \in rows /\ e[g[i]] = Counted(C, m, RowOf(C, 1, f(i)))
  <2>1. \A i \in 1..n : g[i] \in rows /\ g[i] = RowOf(C, 1, f(i))
    <3>1. \A i \in 1..n : g[i] = RowOf(C, 1, f(i))
      OBVIOUS
    <3> HIDE DEF g
    <3> QED
      BY <1>4, <3>1 DEF Enumerates
  <2> HIDE DEF g
  <2> QED
    BY <2>1 DEF Counts
<1>6. \A i \in 1..n : e[g[i]] \in Nat
  <2> SUFFICES ASSUME NEW i \in 1..n PROVE e[g[i]] \in Nat
    OBVIOUS
  <2>1. e[g[i]] = Counted(C, m, RowOf(C, 1, f(i)))
    BY <1>5
  <2>2. IsBytes(FieldAt(C, m, i).bytes) => FieldSize(FieldAt(C, m, i)) \in Nat
    BY FieldSizes DEF IsBytes
  <2> HIDE DEF g, e
  <2> QED
    BY <1>2, <2>1, <2>2
<1>7. \A x \in rows : e[x] \in Nat
  <2> HIDE DEF g, e, rows
  <2> QED
    BY <1>4, <1>6 DEF Enumerates
<1>8. PICK r : Rows(C, m, n, r)
  <2>1. DOMAIN Class[C].serialize = 1..n
    BY <1>1 DEF RowsOf
  <2> QED
    BY <1>1, <2>1, RowsAre
<1>9. ASSUME NEW k \in 1..n, r[k - 1] \in Seq(S)
      PROVE  r[k] \in Seq(S) /\ WireSize(r[k]) = WireSize(r[k - 1]) + e[g[k]]
  <2> DEFINE w == FieldAt(C, m, k)
  <2>1. r[k] = r[k - 1] \o Piece(C, m, k)
    BY <1>8 DEF Rows
  <2>2. /\ has(C, m, f(k)) => Piece(C, m, k) = <<w>>
        /\ ~has(C, m, f(k)) => Piece(C, m, k) = <<>>
    <3>1. k \in DOMAIN RowsOf(C)
      BY <1>1
    <3> QED
      BY <3>1, PieceIs
  <2>3. has(C, m, f(k)) => w \in S
    OBVIOUS
  <2>4. /\ ~has(C, m, f(k)) => e[g[k]] = 0
        /\ has(C, m, f(k)) => e[g[k]] = FieldSize(w)
    <3> HIDE DEF g, e
    <3> QED
      BY <1>2, <1>5
  <2>5. WireSize(r[k - 1]) \in Nat
    <3> HIDE DEF S
    <3> QED
      BY <1>3, <1>9, WireOf, SizesAdd
  <2> HIDE DEF S, w, g, e
  <2>6. CASE ~has(C, m, f(k))
    <3>1. r[k] = r[k - 1]
      BY <1>9, <2>1, <2>2, <2>6, ConcatEmptySeq
    <3> QED
      BY <1>9, <2>4, <2>5, <2>6, <3>1
  <2>7. CASE has(C, m, f(k))
    <3>1. PICK a \in Seq(S) : a = r[k - 1]
      BY <1>9
    <3>2. w \in S
      BY <2>3, <2>7
    <3>3. r[k] = Append(a, w)
      BY <2>1, <2>2, <2>7, <3>1, <3>2, AppendIsConcat
    <3>4. WireSize(Append(a, w)) = WireSize(a) + FieldSize(w)
      BY <3>2, SizeAppend
    <3>5. Append(a, w) \in Seq(S)
      BY <3>2, AppendProperties
    <3> QED
      BY <2>4, <2>7, <3>1, <3>3, <3>4, <3>5
  <2> QED
    BY <2>6, <2>7
<1>10. r[0] = <<>> /\ <<>> \in Seq(S) /\ WireSize(<<>>) = 0
  BY <1>8, SmallSizes DEF Rows
<1> DEFINE T == {k \in Nat : k <= n => r[k] \in Seq(S)}
<1>11. T = Nat
  <2>1. 0 \in T
    BY <1>10
  <2>2. ASSUME NEW k \in T PROVE k + 1 \in T
    <3>1. SUFFICES ASSUME k + 1 <= n PROVE r[k + 1] \in Seq(S)
      OBVIOUS
    <3>2. k \in Nat /\ r[k] \in Seq(S)
      <4> HIDE DEF S, n
      <4> QED
        BY <1>1, <3>1
    <3>3. PICK j \in 1..n : j = k + 1 /\ j - 1 = k
      <4> HIDE DEF S, n
      <4> QED
        BY <1>1, <3>1, <3>2
    <3>4. r[j - 1] \in Seq(S)
      BY <3>2, <3>3
    <3>5. r[j] \in Seq(S)
      BY <1>9, <3>4
    <3> QED
      BY <3>3, <3>5
  <2>3. T \in SUBSET Nat
    OBVIOUS
  <2> HIDE DEF T
  <2> QED
    BY <2>1, <2>2, <2>3, NatBySets
<1> HIDE DEF S, n
<1>12. \A k \in 0..n : r[k] \in Seq(S)
  BY <1>1, <1>11
<1> HIDE DEF T
<1> DEFINE t == [k \in 0..n |-> WireSize(r[k])]
<1>13. \A k \in 1..n : t[k] = t[k - 1] + e[g[k]]
  <2> SUFFICES ASSUME NEW k \in 1..n PROVE t[k] = t[k - 1] + e[g[k]]
    OBVIOUS
  <2>1. k \in 0..n /\ k - 1 \in 0..n
    BY <1>1
  <2>2. t[k] = WireSize(r[k]) /\ t[k - 1] = WireSize(r[k - 1])
    BY <2>1
  <2>3. r[k - 1] \in Seq(S)
    BY <1>12, <2>1
  <2> HIDE DEF t, g, e
  <2> QED
    BY <1>9, <2>2, <2>3
<1>14. t[0] = 0 /\ t[n] = WireSize(r[n]) /\ r[n] \in Seq(S)
  <2>1. 0 \in 0..n /\ n \in 0..n
    BY <1>1
  <2> QED
    BY <1>10, <1>12, <2>1
<1>15. Total(rows, e) = t[n]
  <2> HIDE DEF t, g, e, rows
  <2> QED
    BY <1>1, <1>4, <1>7, <1>13, <1>14, TotalOf
<1>16. m.unknown \in Seq(S)
  <2>1. m.unknown \in Seq({Newer})
    BY DEF Good, Proper, Flat
  <2> QED
    BY <2>1 DEF S
<1>17. Serialize(C, m) = r[n] \o m.unknown
  BY <1>8 DEF Rows
<1>18. WireSize(Serialize(C, m)) = WireSize(r[n]) + WireSize(m.unknown)
  <2>1. PICK a \in Seq(S) : a = r[n]
    BY <1>14
  <2>2. WireSize(a \o m.unknown) = WireSize(a) + WireSize(m.unknown)
    BY <1>3, <1>16, SizeConcat
  <2> QED
    BY <1>17, <2>1, <2>2
<1>19. ByteSizeLong(C, m) = Total(rows, e) + WireSize(m.unknown)
  BY CountedIs
<1>20. IsWire(Serialize(C, m))
  <2>1. PICK wire \in Seq(S) : wire = Serialize(C, m)
    BY <1>14, <1>16, <1>17, ConcatProperties
  <2>2. IsWire(wire)
    BY <1>3, WireOf
  <2> QED
    BY <2>1, <2>2
<1> HIDE DEF t, e, g, rows
<1> QED
  BY <1>14, <1>15, <1>18, <1>19, <1>20

\* A KexMsg is as long as it says.
LEMMA KexSized ==
    ASSUME NEW k, Flat("KexMsg", k, {Newer})
    PROVE  IsBytes(SerializeKex(k)) /\ ByteSizeKex(k) = SerializeKex(k).len
<1> DEFINE C == "KexMsg"
           wire == Serialize(C, k)
<1>1. RowsAgree(C) /\ BitsAgree(C)
  BY KexAgrees
<1>2. \A f \in Members(C) : BitOf(C, f) = None /\ TypeOf(C, f) \in {"int", "bytes"}
  BY KexHasNone
<1> HIDE DEF C
<1>3. Good(C, k)
  <2>1. Retained(C, k)
    BY <1>2 DEF Retained, Kept
  <2> QED
    BY <1>2, <2>1 DEF Good, Proper, C
<1>4. SubsCounted(C, k)
  BY <1>2 DEF SubsCounted
<1>5. IsWire(wire) /\ ByteSizeLong(C, k) = WireSize(wire)
  BY <1>1, <1>3, <1>4, SizeIs
<1>6. SerializeKex(k) = Embedded(wire) /\ ByteSizeKex(k) = ByteSizeLong(C, k)
  BY KexSerialized, KexCounted DEF C
<1>7. Embedded(wire).len = WireSize(wire)
  BY SmallSizes DEF Embedded, EmptyBytes
<1>8. IsBytes(Embedded(wire))
  BY <1>5, WiresAreBytes
<1> QED
  BY <1>5, <1>6, <1>7, <1>8

\* The size that encode allocates for is that of what the message then writes into the
\* buffer, for every object that the operations can produce: no byte is written past
\* the end and none is left unwritten.
THEOREM SizesAreExact == MOSpec => []SizeIsExact
<1>1. ASSUME MOInv PROVE SizeIsExact
  <2> SUFFICES ASSUME NEW x \in Objs
               PROVE  ByteSizeLong(cls, obj[x]) = WireSize(Serialize(cls, obj[x]))
    BY DEF SizeIsExact
  <2>1. RowsAgree(cls) /\ BitsAgree(cls) /\ Good(cls, obj[x])
    BY <1>1, ClassesAgree DEF MOInv
  <2>2. SubsCounted(cls, obj[x])
    <3> SUFFICES ASSUME NEW f \in Members(cls), TypeOf(cls, f) = "message",
                        has(cls, obj[x], f), NEW k, k = obj[x].val[f][1]
                 PROVE  IsBytes(SerializeKex(k)) /\ ByteSizeKex(k) = SerializeKex(k).len
      BY DEF SubsCounted
    <3>1. PICK l : obj[x].val[f] = <<l>> /\ Flat("KexMsg", l, {Newer})
      <4> DEFINE m == obj[x]
      <4>1. m.val[f] # Null
        BY <2>1, MemberIs
      <4>2. m.val[f] = Null \/ \E l : m.val[f] = <<l>> /\ Flat("KexMsg", l, {Newer})
        BY <2>1, MemberIs
      <4> QED
        BY <4>1, <4>2
    <3>2. k = l
      BY <3>1
    <3> QED
      BY <3>1, <3>2, KexSized
  <2> QED
    BY <2>1, <2>2, SizeIs
<1> QED
  BY <1>1, MOInvHolds, PTL

=============================================================================
