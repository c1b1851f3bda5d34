---------------------------- MODULE AnswerProofs ----------------------------
(***************************************************************************)
(* One connection for every set of requests, every catalog and every bound *)
(* on heads, bodies and buffers: its types, whom it refuses and why, for   *)
(* whom it starts a model, and what of a body reaches the child.           *)
(***************************************************************************)
EXTENDS Answer, WellFoundedInduction, TLAPS

\* A set of natural numbers that is not empty has a least element.
LEMMA LeastOf ==
  ASSUME NEW T \in SUBSET Nat, T # {}
  PROVE  \E m \in T : \A y \in T : m <= y
<1>. DEFINE R == OpToRel(<, Nat)
<1>1. PICK m \in T : \A y \in T : ~(<<y, m>> \in R)
  <2>1. IsWellFoundedOn(R, Nat)
    BY NatLessThanWellFounded
  <2>. HIDE DEF R
  <2>. QED BY <2>1, WFMin
<1>2. \A y \in T : ~(y < m)
  BY <1>1 DEF OpToRel
<1>. QED BY <1>2

\* Max, for a set of positions of a sequence.
LEMMA MaxOfPositions ==
  ASSUME NEW n \in Nat, NEW S \in SUBSET (1..n), S # {}
  PROVE  Max(S) \in S
<1>. DEFINE Left == {y \in 0..n : n - y \in S}
<1>0. PICK z \in S : TRUE
  OBVIOUS
<1>1. Left \in SUBSET Nat /\ Left # {}
  <2>1. n - z \in 0..n /\ n - (n - z) = z
    BY <1>0
  <2>2. n - z \in Left
    BY <1>0, <2>1
  <2>3. Left # {}
    BY <2>2
  <2>4. Left \subseteq 0..n
    OBVIOUS
  <2>. HIDE DEF Left
  <2>. QED BY <2>3, <2>4
<1>2. PICK m \in Left : \A y \in Left : m <= y
  <2>. HIDE DEF Left
  <2>. QED BY <1>1, LeastOf
<1>4. \A y \in S : n - m >= y
  <2>. SUFFICES ASSUME NEW y \in S PROVE n - m >= y
    OBVIOUS
  <2>1. n - y \in 0..n /\ n - (n - y) = y
    OBVIOUS
  <2>2. n - y \in Left
    BY <2>1
  <2>3. m \in 0..n
    OBVIOUS
  <2>. HIDE DEF Left
  <2>. QED BY <1>2, <2>2, <2>3
<1>. QED BY <1>2, <1>4, Zenon DEF Max

\* Min, for two numbers.
LEMMA MinOfTwo ==
  ASSUME NEW a \in Int, NEW b \in Int
  PROVE  Min({a, b}) = IF a <= b THEN a ELSE b
  BY DEF Min

LEMMA ElementOf ==
  ASSUME NEW X, NEW s \in Seq(X), NEW i \in 1..Len(s)
  PROVE  s[i] \in X
  OBVIOUS

\* What a request of the right shape declares.
LEMMA LengthFacts ==
  ASSUME NEW r \in Requests
  PROVE  /\ Len(r.fields) \in Nat /\ LineCount(r) \in Nat /\ r.size \in Nat /\ r.body \in Nat
         /\ BodyBytes(r) \in Nat
<1>1. /\ r.fields \in Seq([name : FieldNames, bytes : Nat]) /\ r.size \in Nat /\ r.body \in Nat
  BY RequestsAssumption DEF RequestOK
<1>2. Len(r.fields) \in Nat /\ LineCount(r) \in Nat
  BY <1>1 DEF LineCount
<1>3. ASSUME LengthAt(r) # {}
      PROVE  r.fields[Max(LengthAt(r))].bytes \in Nat
  <2>1. LengthAt(r) \in SUBSET (1..Len(r.fields))
    BY <1>1 DEF LengthAt
  <2>2. Max(LengthAt(r)) \in 1..Len(r.fields)
    BY <1>2, <1>3, <2>1, MaxOfPositions
  <2>3. r.fields[Max(LengthAt(r))] \in [name : FieldNames, bytes : Nat]
    BY <1>1, <2>2, ElementOf
  <2>. QED BY <2>3
<1>4. BodyBytes(r) \in Nat
  BY <1>3 DEF BodyBytes, Length
<1>. QED BY <1>1, <1>2, <1>4

LEMMA ReqKeeps ==
  ASSUME req' = req
  PROVE  Endpoint' = Endpoint /\ Model' = Model
  BY DEF Endpoint, Model

\* Answer.Faults, one fault at a time.
LEMMA FaultFacts ==
  ASSUME NEW r, NEW e, e = EndpointOf(r.path),
         NEW body \in BOOLEAN, body <=> (e = "generic" /\ r.method \in Allowed(e) \ {"OPTIONS"})
  PROVE  /\ "MalformedRequest" \in Faults(r) <=> r.line # "whole"
         /\ "HeadTooLarge" \in Faults(r) <=> LineCount(r) > MaxLines \/ HeadBytes(r) > MaxHead
         /\ "PathNotFound" \in Faults(r) <=> e = "none"
         /\ "MethodNotAllowed" \in Faults(r) <=> r.method \notin Allowed(e)
         /\ "ChunkedBody" \in Faults(r) <=> Has(r, "chunked")
         /\ "MalformedLength" \in Faults(r) <=> Length(r) = "malformed"
         /\ "LengthRequired" \in Faults(r) <=> body /\ Length(r) = "absent"
         /\ "BodyTooLarge" \in Faults(r) <=> body /\ BodyBytes(r) > MaxBody
         /\ "BodyNotJson" \in Faults(r) <=> body /\ (r.says = NotJson \/ BodyBytes(r) # r.body)
         /\ "ModelMissing" \in Faults(r) <=> body /\ r.says = Nameless
         /\ "ModelNotFound" \in Faults(r) <=> e \notin Own /\ (IF e = "dedicated" THEN r.path.segs[2] ELSE r.says) \notin Known
         /\ Faults(r) \subseteq {"MalformedRequest", "HeadTooLarge", "PathNotFound", "MethodNotAllowed",
                "ChunkedBody", "MalformedLength", "LengthRequired", "BodyTooLarge", "BodyNotJson",
                "ModelMissing", "ModelNotFound"}
  BY DEF Faults

----------------------------------------------------------------------------
(* What is common to the actions. *)

\* A step that says nothing leaves what was said deserved.
LEMMA SameHeard ==
  ASSUME AnswerInvariant, req' = req, heard' = heard, asked => asked',
         caller.out # "open" => caller'.out # "open"
  PROVE  SparedTheBody' /\ (NoneStraddles => RefusalIsDeserved')
<1>1. Endpoint' = Endpoint /\ Heard' = Heard
  BY ReqKeeps DEF Heard
<1>2. SparedTheBody'
  BY <1>1 DEF AnswerInvariant, SparedTheBody
<1>3. Abandoned \subseteq Abandoned'
  BY DEF Abandoned
<1>4. RefusalIsDeserved => RefusalIsDeserved'
  <2>. SUFFICES ASSUME RefusalIsDeserved, NEW c \in Heard \cap Refusals
                PROVE  c \in Faults(req) \cup Abandoned' \cup (IF asked' THEN ChildFaults ELSE {})
    BY <1>1 DEF RefusalIsDeserved
  <2>1. c \in Faults(req) \cup Abandoned \cup (IF asked THEN ChildFaults ELSE {})
    BY DEF RefusalIsDeserved
  <2>. QED BY <1>3, <2>1
<1>. QED BY <1>2, <1>4 DEF AnswerInvariant

\* Answer.Say, before anything but the interim answer was said.
LEMMA SayFacts ==
  ASSUME AnswerInvariant, req' = req, at \in {"head", "route"} \cup Deciding,
         NEW what \in Words \ {"100"}, Say(what)
  PROVE  /\ heard' \in Seq(Words) /\ Len(heard') <= 2
         /\ \A i \in 1..Len(heard') : heard'[i] = "100" => i = 1 /\ Expects(req) /\ Model
         /\ Len(heard') = 2 => heard'[1] = "100"
         /\ Heard' \subseteq {"100", what}
         /\ "100" \in Heard' => at \notin {"head", "route", "loaded", "held"}
         /\ "100" \in Heard' /\ at \in {"body", "lookup", "child"} => Endpoint = "generic"
<1>1. heard \in Seq(Words) /\ Len(heard) \in Nat
  BY DEF AnswerInvariant, TypeOK
<1>2. \A i \in 1..Len(heard) : heard[i] = "100" /\ i = 1
  BY DEF AnswerInvariant, HeardHolds, Deciding
<1>3. Len(heard) <= 1 /\ Len(heard) \in Nat
  <2>1. heard = << >> => Len(heard) = 0
    OBVIOUS
  <2>2. heard = << >> \/ Len(heard) <= 1
    BY DEF AnswerInvariant, HeardHolds, Deciding
  <2>3. Len(heard) \in Nat
    BY <1>1
  <2>. QED BY <2>1, <2>2, <2>3
<1>4. Len(heard) = 0 \/ Len(heard) = 1
  <2>1. \A n \in Nat : n <= 1 => n = 0 \/ n = 1
    OBVIOUS
  <2>. QED BY <1>3, <2>1
<1>5. ASSUME Len(heard) = 1
      PROVE  /\ heard[1] = "100" /\ Expects(req) /\ Model
             /\ at \notin {"head", "route", "loaded", "held"} /\ Endpoint = "generic"
  <2>1. 1 \in 1..Len(heard)
    BY <1>5
  <2>. QED BY <1>2, <2>1 DEF AnswerInvariant, HeardHolds, Deciding
<1>6. CASE heard' = heard
  BY <1>1, <1>2, <1>4, <1>5, <1>6 DEF Heard
<1>7. CASE heard' = Append(heard, what)
  <2>1. heard' \in Seq(Words) /\ Len(heard') = Len(heard) + 1 /\ heard'[Len(heard')] = what
    BY <1>1, <1>7
  <2>2. \A i \in 1..Len(heard) : heard'[i] = heard[i]
    BY <1>1, <1>7
  <2>3. \A i \in 1..Len(heard') : heard'[i] = "100" => i = 1 /\ Len(heard) = 1
    BY <1>1, <1>2, <1>4, <2>1, <2>2
  <2>4. ASSUME Len(heard') = 2 PROVE heard'[1] = "100"
    <3>1. Len(heard) = 1
      BY <1>4, <2>1, <2>4
    <3>2. 1 \in 1..Len(heard)
      BY <3>1
    <3>. QED BY <1>2, <2>2, <3>2
  <2>5. \A i \in 1..Len(heard') : heard'[i] \in {"100", what}
    BY <1>1, <1>2, <1>4, <2>1, <2>2
  <2>6. Heard' \subseteq {"100", what} /\ ("100" \in Heard' => Len(heard) = 1)
    BY <2>1, <2>3, <2>5 DEF Heard
  <2>7. Len(heard') <= 2
    <3>1. Len(heard') = Len(heard) + 1 /\ Len(heard) \in Nat /\ Len(heard') \in Nat
      BY <1>1, <2>1
    <3>. QED BY <1>3, <3>1
  <2>. QED BY <1>5, <2>1, <2>3, <2>4, <2>6, <2>7
<1>. QED BY <1>6, <1>7 DEF Say

\* Answer.Reply where the refusal, if it is one, is deserved.
LEMMA ReplyHeard ==
  ASSUME AnswerInvariant, req' = req, at \in {"head", "route"} \cup Deciding,
         NEW what \in Words \ {"100"}, Reply(what),
         asked => asked', caller' = caller,
         NoneStraddles /\ what \in Refusals =>
           what \in Faults(req) \cup Abandoned \cup (IF asked' THEN ChildFaults ELSE {}),
         at \in Deciding /\ what \in Refusals => 
           what \in {"BodyIncomplete", "BodyNotJson", "ModelMissing", "ModelNotFound"} \cup ChildFaults
  PROVE  heard' \in Seq(Words) /\ HeardHolds' /\ SparedTheBody' /\ (NoneStraddles => RefusalIsDeserved')
<1>. USE DEF Reply
<1>1. /\ heard' \in Seq(Words) /\ Len(heard') <= 2
      /\ \A i \in 1..Len(heard') : heard'[i] = "100" => i = 1 /\ Expects(req) /\ Model
      /\ Len(heard') = 2 => heard'[1] = "100"
      /\ Heard' \subseteq {"100", what}
      /\ "100" \in Heard' => at \notin {"head", "route", "loaded", "held"}
      /\ "100" \in Heard' /\ at \in {"body", "lookup", "child"} => Endpoint = "generic"
  BY SayFacts
<1>2. Endpoint' = Endpoint /\ Model' = Model
  BY ReqKeeps
<1>3. HeardHolds'
  BY <1>1, <1>2 DEF HeardHolds, Deciding, Relaying
<1>4. Heard' \cap Refusals \subseteq {what}
  BY <1>1 DEF Refusals, ChildFaults, CauseOf
<1>5. SparedTheBody'
  <2>. SUFFICES ASSUME "100" \in Heard'
                PROVE  /\ Expects(req) /\ heard'[1] = "100" /\ Len(heard') <= 2
                       /\ \A i \in 2..Len(heard') : heard'[i] # "100"
                       /\ Heard' \cap Refusals # {} =>
                            /\ Endpoint = "generic"
                            /\ Heard' \cap Refusals \subseteq
                                 {"BodyIncomplete", "BodyNotJson", "ModelMissing", "ModelNotFound"} \cup ChildFaults
    BY <1>2 DEF SparedTheBody
  <2>1. PICK i \in 1..Len(heard') : heard'[i] = "100"
    BY <1>1 DEF Heard
  <2>2. Expects(req) /\ heard'[1] = "100" /\ Len(heard') <= 2 /\ \A j \in 2..Len(heard') : heard'[j] # "100"
    BY <1>1, <2>1
  <2>3. ASSUME Heard' \cap Refusals # {}
        PROVE  /\ Endpoint = "generic"
               /\ what \in {"BodyIncomplete", "BodyNotJson", "ModelMissing", "ModelNotFound"} \cup ChildFaults
    <3>1. what \in Refusals
      BY <1>4, <2>3
    <3>2. at \in {"body", "lookup", "child"}
      BY <1>1, <3>1 DEF AnswerInvariant, TypeOK, Deciding, Relaying
    <3>. QED BY <1>1, <3>1, <3>2 DEF Deciding
  <2>. QED BY <1>4, <2>2, <2>3
<1>6. NoneStraddles => RefusalIsDeserved'
  <2>1. Abandoned' = Abandoned
    BY DEF Abandoned
  <2>. QED BY <1>4, <2>1 DEF RefusalIsDeserved
<1>. QED BY <1>1, <1>3, <1>5, <1>6

\* A reply ends the exchange, whatever else was noted on the way.
LEMMA ReplyKeeps ==
  ASSUME AnswerInvariant, at \in {"head", "route"} \cup Deciding,
         NEW what \in Words \ {"100"}, Reply(what),
         UNCHANGED <<req, caller, head, up, slot>>, report' \in Reports,
         taken' \in Seq(Int), Len(taken') <= BodyBytes(req),
         NoneStraddles => \A i \in 1..Len(taken') : taken'[i] = i,
         asked' \in BOOLEAN, asked => asked', NoneStraddles => OnlyServableStartsAModel',
         NoneStraddles /\ what \in Refusals =>
           what \in Faults(req) \cup Abandoned \cup (IF asked' THEN ChildFaults ELSE {}),
         at \in Deciding /\ what \in Refusals =>
           what \in {"BodyIncomplete", "BodyNotJson", "ModelMissing", "ModelNotFound"} \cup ChildFaults
  PROVE  AnswerInvariant'
<1>0. at' = "closed" /\ req' = req
  BY DEF Reply
<1>1. heard' \in Seq(Words) /\ HeardHolds' /\ SparedTheBody' /\ (NoneStraddles => RefusalIsDeserved')
  BY ReplyHeard
<1>2. TypeOK'
  BY <1>0, <1>1 DEF AnswerInvariant, TypeOK
<1>3. HeadHolds'
  BY <1>0 DEF AnswerInvariant, HeadHolds, Deciding, Relaying
<1>4. RouteHolds'
  BY <1>0 DEF RouteHolds, Deciding, Relaying
<1>5. BodyHolds'
  BY <1>0 DEF AnswerInvariant, BodyHolds, Relaying
<1>. QED BY <1>1, <1>2, <1>3, <1>4, <1>5 DEF AnswerInvariant, NoneStraddles

\* A reply that notes nothing else.
LEMMA RefuseKeeps ==
  ASSUME AnswerInvariant, at \in {"head", "route"} \cup Deciding,
         NEW what \in Words \ {"100"}, Reply(what),
         UNCHANGED <<req, caller, head, taken, asked, up, slot, report>>,
         NoneStraddles /\ what \in Refusals => what \in Faults(req) \cup Abandoned,
         at \in Deciding /\ what \in Refusals =>
           what \in {"BodyIncomplete", "BodyNotJson", "ModelMissing", "ModelNotFound"}
  PROVE  AnswerInvariant'
<1>1. /\ report' \in Reports /\ taken' \in Seq(Int) /\ Len(taken') <= BodyBytes(req)
      /\ NoneStraddles => \A i \in 1..Len(taken') : taken'[i] = i
  BY DEF AnswerInvariant, TypeOK, BodyHolds
<1>2. asked' \in BOOLEAN /\ (asked => asked')
  BY Zenon DEF AnswerInvariant, TypeOK
<1>3. NoneStraddles => OnlyServableStartsAModel'
  BY ReqKeeps DEF AnswerInvariant, OnlyServableStartsAModel
<1>4. /\ NoneStraddles /\ what \in Refusals =>
           what \in Faults(req) \cup Abandoned \cup (IF asked' THEN ChildFaults ELSE {})
      /\ at \in Deciding /\ what \in Refusals =>
           what \in {"BodyIncomplete", "BodyNotJson", "ModelMissing", "ModelNotFound"} \cup ChildFaults
  BY Zenon
<1>. QED BY <1>1, <1>2, <1>3, <1>4, ReplyKeeps

----------------------------------------------------------------------------
(* The caller, the child and the other threads. *)

\* A line more of the head reaches the socket.
LEMMA SendLineKeeps ==
  ASSUME AnswerInvariant, SendLine
  PROVE  AnswerInvariant'
<1>. USE DEF SendLine
<1>0. req \in Requests /\ LineCount(req) \in Nat /\ req.body \in Nat /\ BodyBytes(req) \in Nat
  BY LengthFacts DEF AnswerInvariant, TypeOK
<1>1. TypeOK'
  <2>1. caller' \in Callers(req)
    <3>1. caller \in Callers(req)
      BY DEF AnswerInvariant, TypeOK
    <3>2. caller.lines + 1 \in 0..LineCount(req) + 1
      BY <1>0, <3>1 DEF Callers
    <3>3. caller' = [caller EXCEPT !.lines = caller.lines + 1]
      OBVIOUS
    <3>. HIDE DEF SendLine
    <3>. QED BY <3>1, <3>2, <3>3 DEF Callers
  <2>. QED BY <2>1 DEF AnswerInvariant, TypeOK
<1>2. Endpoint' = Endpoint /\ Model' = Model /\ Wanted' = Wanted
  BY ReqKeeps DEF Wanted
<1>3. HeadHolds'
  BY DEF AnswerInvariant, HeadHolds
<1>4. RouteHolds'
  BY <1>2 DEF AnswerInvariant, RouteHolds
<1>5. BodyHolds'
  BY <1>2 DEF AnswerInvariant, TypeOK, Callers, BodyHolds
<1>6. HeardHolds'
  BY <1>2 DEF AnswerInvariant, HeardHolds
<1>7. SparedTheBody' /\ (NoneStraddles => RefusalIsDeserved')
  BY SameHeard DEF AnswerInvariant, Callers, TypeOK
<1>8. NoneStraddles => OnlyServableStartsAModel'
  BY <1>2 DEF AnswerInvariant, OnlyServableStartsAModel
<1>. QED BY <1>1, <1>3, <1>4, <1>5, <1>6, <1>7, <1>8 DEF AnswerInvariant, NoneStraddles

\* A byte more of the body reaches the socket.
LEMMA SendBodyKeeps ==
  ASSUME AnswerInvariant, SendBody
  PROVE  AnswerInvariant'
<1>. USE DEF SendBody
<1>0. req \in Requests /\ LineCount(req) \in Nat /\ req.body \in Nat /\ BodyBytes(req) \in Nat
  BY LengthFacts DEF AnswerInvariant, TypeOK
<1>1. TypeOK'
  <2>1. caller' \in Callers(req)
    <3>1. caller \in Callers(req)
      BY DEF AnswerInvariant, TypeOK
    <3>2. caller.body + 1 \in 0..req.body
      BY <1>0, <3>1 DEF Callers
    <3>3. caller' = [caller EXCEPT !.body = caller.body + 1]
      OBVIOUS
    <3>. HIDE DEF SendBody
    <3>. QED BY <3>1, <3>2, <3>3 DEF Callers
  <2>. QED BY <2>1 DEF AnswerInvariant, TypeOK
<1>2. Endpoint' = Endpoint /\ Model' = Model /\ Wanted' = Wanted
  BY ReqKeeps DEF Wanted
<1>3. HeadHolds'
  BY DEF AnswerInvariant, HeadHolds
<1>4. RouteHolds'
  BY <1>2 DEF AnswerInvariant, RouteHolds
<1>5. BodyHolds'
  BY <1>2 DEF AnswerInvariant, TypeOK, Callers, BodyHolds
<1>6. HeardHolds'
  BY <1>2 DEF AnswerInvariant, HeardHolds
<1>7. SparedTheBody' /\ (NoneStraddles => RefusalIsDeserved')
  BY SameHeard DEF AnswerInvariant, Callers, TypeOK
<1>8. NoneStraddles => OnlyServableStartsAModel'
  BY <1>2 DEF AnswerInvariant, OnlyServableStartsAModel
<1>. QED BY <1>1, <1>3, <1>4, <1>5, <1>6, <1>7, <1>8 DEF AnswerInvariant, NoneStraddles

\* The caller shuts its sending side or hangs up.
LEMMA LeaveKeeps ==
  ASSUME AnswerInvariant, Leave
  PROVE  AnswerInvariant'
<1>. USE DEF Leave
<1>0. req \in Requests /\ LineCount(req) \in Nat /\ req.body \in Nat /\ BodyBytes(req) \in Nat
  BY LengthFacts DEF AnswerInvariant, TypeOK
<1>1. TypeOK'
  <2>1. caller' \in Callers(req)
    BY DEF AnswerInvariant, TypeOK, Callers
  <2>. QED BY <2>1 DEF AnswerInvariant, TypeOK
<1>2. Endpoint' = Endpoint /\ Model' = Model /\ Wanted' = Wanted
  BY ReqKeeps DEF Wanted
<1>3. HeadHolds'
  BY DEF AnswerInvariant, HeadHolds
<1>4. RouteHolds'
  BY <1>2 DEF AnswerInvariant, RouteHolds
<1>5. BodyHolds'
  BY <1>2 DEF AnswerInvariant, TypeOK, Callers, BodyHolds
<1>6. HeardHolds'
  BY <1>2 DEF AnswerInvariant, HeardHolds
<1>7. SparedTheBody' /\ (NoneStraddles => RefusalIsDeserved')
  BY SameHeard DEF AnswerInvariant, Callers, TypeOK
<1>8. NoneStraddles => OnlyServableStartsAModel'
  BY <1>2 DEF AnswerInvariant, OnlyServableStartsAModel
<1>. QED BY <1>1, <1>3, <1>4, <1>5, <1>6, <1>7, <1>8 DEF AnswerInvariant, NoneStraddles

\* The child has bytes of an answer ready.
LEMMA ChildWritesKeeps ==
  ASSUME AnswerInvariant, ChildWrites
  PROVE  AnswerInvariant'
<1>. USE DEF ChildWrites
<1>0. req \in Requests /\ LineCount(req) \in Nat /\ req.body \in Nat /\ BodyBytes(req) \in Nat
  BY LengthFacts DEF AnswerInvariant, TypeOK
<1>1. TypeOK'
  <2>1. up' \in Connections(req)
    BY DEF AnswerInvariant, TypeOK, Connections
  <2>. QED BY <2>1 DEF AnswerInvariant, TypeOK
<1>2. Endpoint' = Endpoint /\ Model' = Model /\ Wanted' = Wanted
  BY ReqKeeps DEF Wanted
<1>3. HeadHolds'
  BY DEF AnswerInvariant, HeadHolds
<1>4. RouteHolds'
  BY <1>2 DEF AnswerInvariant, RouteHolds
<1>5. BodyHolds'
  BY <1>2 DEF AnswerInvariant, TypeOK, Connections, BodyHolds
<1>6. HeardHolds'
  BY <1>2 DEF AnswerInvariant, HeardHolds
<1>7. SparedTheBody' /\ (NoneStraddles => RefusalIsDeserved')
  BY SameHeard DEF AnswerInvariant, Connections, TypeOK
<1>8. NoneStraddles => OnlyServableStartsAModel'
  BY <1>2 DEF AnswerInvariant, OnlyServableStartsAModel
<1>. QED BY <1>1, <1>3, <1>4, <1>5, <1>6, <1>7, <1>8 DEF AnswerInvariant, NoneStraddles

\* The child ends its answer.
LEMMA ChildClosesKeeps ==
  ASSUME AnswerInvariant, ChildCloses
  PROVE  AnswerInvariant'
<1>. USE DEF ChildCloses
<1>0. req \in Requests /\ LineCount(req) \in Nat /\ req.body \in Nat /\ BodyBytes(req) \in Nat
  BY LengthFacts DEF AnswerInvariant, TypeOK
<1>1. TypeOK'
  <2>1. up' \in Connections(req)
    BY DEF AnswerInvariant, TypeOK, Connections
  <2>. QED BY <2>1 DEF AnswerInvariant, TypeOK
<1>2. Endpoint' = Endpoint /\ Model' = Model /\ Wanted' = Wanted
  BY ReqKeeps DEF Wanted
<1>3. HeadHolds'
  BY DEF AnswerInvariant, HeadHolds
<1>4. RouteHolds'
  BY <1>2 DEF AnswerInvariant, RouteHolds
<1>5. BodyHolds'
  BY <1>2 DEF AnswerInvariant, TypeOK, Connections, BodyHolds
<1>6. HeardHolds'
  BY <1>2 DEF AnswerInvariant, HeardHolds
<1>7. SparedTheBody' /\ (NoneStraddles => RefusalIsDeserved')
  BY SameHeard DEF AnswerInvariant, Connections, TypeOK
<1>8. NoneStraddles => OnlyServableStartsAModel'
  BY <1>2 DEF AnswerInvariant, OnlyServableStartsAModel
<1>. QED BY <1>1, <1>3, <1>4, <1>5, <1>6, <1>7, <1>8 DEF AnswerInvariant, NoneStraddles

\* The slot the catalogue is about to report changes.
LEMMA SlotChangesKeeps ==
  ASSUME AnswerInvariant, SlotChanges
  PROVE  AnswerInvariant'
<1>. USE DEF SlotChanges
<1>0. req \in Requests /\ LineCount(req) \in Nat /\ req.body \in Nat /\ BodyBytes(req) \in Nat
  BY LengthFacts DEF AnswerInvariant, TypeOK
<1>1. TypeOK'
  BY DEF AnswerInvariant, TypeOK, SlotStates
<1>2. Endpoint' = Endpoint /\ Model' = Model /\ Wanted' = Wanted
  BY ReqKeeps DEF Wanted
<1>3. HeadHolds'
  BY DEF AnswerInvariant, HeadHolds
<1>4. RouteHolds'
  BY <1>2 DEF AnswerInvariant, RouteHolds
<1>5. BodyHolds'
  BY <1>2 DEF AnswerInvariant, TypeOK, BodyHolds
<1>6. HeardHolds'
  BY <1>2 DEF AnswerInvariant, HeardHolds
<1>7. SparedTheBody' /\ (NoneStraddles => RefusalIsDeserved')
  BY SameHeard DEF AnswerInvariant, TypeOK
<1>8. NoneStraddles => OnlyServableStartsAModel'
  BY <1>2 DEF AnswerInvariant, OnlyServableStartsAModel
<1>. QED BY <1>1, <1>3, <1>4, <1>5, <1>6, <1>7, <1>8 DEF AnswerInvariant, NoneStraddles
----------------------------------------------------------------------------
(* The router's thread. *)

\* Answer.Unrouted: what it finds is a fault, and what it lets through has none
\* of those that can be seen in a head.
LEMMA UnroutedFacts ==
  ASSUME NEW r \in Requests
  PROVE  /\ Unrouted(r) # "none" => Unrouted(r) \in Faults(r) /\ Unrouted(r) \in Words \ {"100"}
         /\ Unrouted(r) = "none" /\ r.method # "OPTIONS" =>
              /\ r.line # "short" /\ EndpointOf(r.path) # "none"
              /\ r.method \in Allowed(EndpointOf(r.path))
              /\ ~Has(r, "chunked") /\ Length(r) # "malformed"
              /\ EndpointOf(r.path) = "generic" => Length(r) = "given" /\ BodyBytes(r) <= MaxBody
<1>. DEFINE e == EndpointOf(r.path)
            body == e = "generic" /\ r.method \in Allowed(e) \ {"OPTIONS"}
<1>1. body \in BOOLEAN
  BY Zenon
<1>2. Length(r) \in {"absent", "given", "malformed"}
  BY DEF Length
<1>3. BodyBytes(r) \in Nat /\ MaxBody \in Nat
  BY LengthFacts, BoundsAssumption
<1>4. /\ "MalformedRequest" \in Faults(r) <=> r.line # "whole"
      /\ "PathNotFound" \in Faults(r) <=> e = "none"
      /\ "MethodNotAllowed" \in Faults(r) <=> r.method \notin Allowed(e)
      /\ "ChunkedBody" \in Faults(r) <=> Has(r, "chunked")
      /\ "MalformedLength" \in Faults(r) <=> Length(r) = "malformed"
      /\ "LengthRequired" \in Faults(r) <=> body /\ Length(r) = "absent"
      /\ "BodyTooLarge" \in Faults(r) <=> body /\ BodyBytes(r) > MaxBody
  BY <1>1, FaultFacts, Zenon
<1>5. Unrouted(r) # "none" => Unrouted(r) \in Faults(r)
  BY <1>2, <1>3, <1>4 DEF Unrouted, Framing, DeclaredBody
<1>6. Unrouted(r) # "none" => Unrouted(r) \in Words \ {"100"}
  <2>1. Unrouted(r) \in {"MalformedRequest", "PathNotFound", "MethodNotAllowed", "ChunkedBody",
                         "MalformedLength", "LengthRequired", "BodyTooLarge", "none"}
    BY DEF Unrouted, Framing, DeclaredBody
  <2>. HIDE DEF Unrouted
  <2>. QED BY <2>1 DEF Words, Refusals
<1>7. Unrouted(r) = "none" /\ r.method # "OPTIONS" =>
        /\ r.line # "short" /\ e # "none"
        /\ r.method \in Allowed(e)
        /\ ~Has(r, "chunked") /\ Length(r) # "malformed"
        /\ e = "generic" => Length(r) = "given" /\ BodyBytes(r) <= MaxBody
  BY <1>2, <1>3 DEF Unrouted, Framing, DeclaredBody
<1>. QED BY <1>5, <1>6, <1>7

\* Init: nothing was sent, read or said.
LEMMA InitHolds == Init => AnswerInvariant
<1>. SUFFICES ASSUME Init PROVE AnswerInvariant
  OBVIOUS
<1>. USE BoundsAssumption DEF Init
<1>0. req \in Requests /\ LineCount(req) \in Nat /\ req.body \in Nat /\ BodyBytes(req) \in Nat
  BY LengthFacts
<1>1. TypeOK
  <2>1. caller \in Callers(req)
    BY <1>0 DEF Callers
  <2>2. head \in Heads
    BY DEF Heads
  <2>3. up \in Connections(req)
    BY DEF Connections, NoUpstream
  <2>4. asked \in BOOLEAN
    BY Zenon
  <2>5. slot \in SlotStates /\ report \in Reports
    BY DEF SlotStates, Reports, NoReport
  <2>6. taken \in Seq(Int) /\ Len(taken) = 0 /\ heard \in Seq(Words)
    OBVIOUS
  <2>. QED BY <1>0, <2>1, <2>2, <2>3, <2>4, <2>5, <2>6 DEF TypeOK
<1>2. HeadHolds
  BY <1>0 DEF HeadHolds, Deciding, Relaying
<1>3. RouteHolds
  BY DEF RouteHolds, Deciding, Relaying
<1>4. BodyHolds
  BY <1>0 DEF BodyHolds, Relaying, NoUpstream
<1>5. HeardHolds
  BY DEF HeardHolds, Deciding, Relaying
<1>6. Heard = {}
  BY DEF Heard
<1>7. SparedTheBody /\ RefusalIsDeserved /\ OnlyServableStartsAModel
  BY <1>6 DEF SparedTheBody, RefusalIsDeserved, OnlyServableStartsAModel
<1>. QED BY <1>1, <1>2, <1>3, <1>4, <1>5, <1>7 DEF AnswerInvariant

\* head::read takes a line, or refuses the head at it.
LEMMA ReadLineKeeps ==
  ASSUME AnswerInvariant, ReadLine
  PROVE  AnswerInvariant'
<1>. DEFINE i == head.lines + 1
            count == Min({LineSize(req, i), MaxHead - head.bytes})
<1>0. /\ req \in Requests /\ LineCount(req) \in Nat /\ BodyBytes(req) \in Nat /\ req.size \in Nat
      /\ Len(req.fields) \in Nat /\ LineCount(req) = Len(req.fields) + 1
      /\ MaxHead \in Nat /\ MaxLines \in Nat
  BY LengthFacts, BoundsAssumption DEF AnswerInvariant, TypeOK, LineCount
<1>1. /\ at = "head" /\ head \in Heads /\ head.lines \in Nat /\ head.bytes \in Nat /\ head.lines <= MaxLines
      /\ head.bytes < MaxHead
      /\ UNCHANGED <<req, caller, taken, asked, up, slot, report>>
  BY <1>0 DEF ReadLine, AnswerInvariant, TypeOK, Heads
<1>2. /\ LineSize(req, i) \in Nat
      /\ count = IF LineSize(req, i) <= MaxHead - head.bytes THEN LineSize(req, i) ELSE MaxHead - head.bytes
  <2>1. LineSize(req, i) \in Nat
    BY <1>0, <1>1 DEF LineSize, FieldSize, BlankSize
  <2>2. MaxHead - head.bytes \in Int /\ LineSize(req, i) \in Int
    BY <1>0, <1>1, <2>1
  <2>. QED BY <2>1, <2>2, MinOfTwo
<1>3. Endpoint' = Endpoint /\ Model' = Model
  BY <1>1, ReqKeeps
<1>4. NoneStraddles => OnlyServableStartsAModel'
  BY <1>1, <1>3 DEF AnswerInvariant, OnlyServableStartsAModel
<1>5. CASE i = 1 /\ req.line = "unreadable"
  <2>1. Reply("MalformedRequest") /\ UNCHANGED head
    BY <1>5 DEF ReadLine
  <2>2. "MalformedRequest" \in Faults(req)
    BY <1>5, FaultFacts
  <2>3. "MalformedRequest" \in Words \ {"100"} /\ at \in {"head", "route"} \cup Deciding /\ at \notin Deciding
    BY <1>1 DEF Deciding, Words, Refusals
  <2>. HIDE DEF i, count
  <2>. QED BY <1>1, <2>1, <2>2, <2>3, RefuseKeeps
<1>6. CASE ~(i = 1 /\ req.line = "unreadable") /\ i > LineCount(req)
  <2>1. /\ at' = "route"
        /\ head' = [head EXCEPT !.bytes = @ + count, !.stray = BlankSize - count]
        /\ UNCHANGED heard
    BY <1>6 DEF ReadLine
  <2>2. head.lines = LineCount(req) /\ head.lines > 0
    BY <1>0, <1>1, <1>6 DEF AnswerInvariant, HeadHolds
  <2>3. LineSize(req, i) = 2
    BY <1>0, <1>1, <1>6 DEF LineSize, BlankSize
  <2>4. head.bytes = Min({MaxHead, req.size + 2 * Len(req.fields)})
    BY <1>0, <1>1, <2>2 DEF AnswerInvariant, HeadHolds, FieldSize
  <2>5. head.bytes = req.size + 2 * Len(req.fields) /\ HeadBytes(req) <= MaxHead + 1
    <3>1. MaxHead \in Int /\ req.size + 2 * Len(req.fields) \in Int
      BY <1>0
    <3>2. head.bytes = IF MaxHead <= req.size + 2 * Len(req.fields) THEN MaxHead ELSE req.size + 2 * Len(req.fields)
      BY <2>4, <3>1, MinOfTwo
    <3>. QED BY <1>0, <1>1, <3>1, <3>2 DEF HeadBytes, FieldSize, BlankSize
  <2>6. count \in {1, 2} /\ head.bytes + count <= MaxHead /\ (NoneStraddles => count = 2)
    BY <1>0, <1>1, <1>2, <2>3, <2>5 DEF HeadBytes, FieldSize, BlankSize, NoneStraddles
  <2>7. head' \in Heads /\ head'.lines = head.lines /\ head'.stray = 2 - count
    <3>1. head.bytes + count \in 0..MaxHead /\ BlankSize - count \in {0, 1}
      BY <1>0, <1>1, <2>6 DEF BlankSize
    <3>. HIDE DEF i, count
    <3>2. head' \in Heads
      BY <1>1, <2>1, <3>1 DEF Heads
    <3>3. head'.lines = head.lines /\ head'.stray = 2 - count
      BY <1>1, <2>1 DEF Heads, BlankSize
    <3>. QED BY <3>2, <3>3
  <2>8. TypeOK'
    BY <1>1, <2>1, <2>7 DEF AnswerInvariant, TypeOK
  <2>9. HeadHolds'
    BY <1>1, <2>1, <2>2, <2>5, <2>6, <2>7 DEF AnswerInvariant, HeadHolds
  <2>10. RouteHolds'
    BY <1>1, <1>3, <2>1 DEF AnswerInvariant, RouteHolds, Deciding, Relaying
  <2>11. BodyHolds'
    BY <1>1, <1>3, <2>1 DEF AnswerInvariant, BodyHolds, Relaying
  <2>12. HeardHolds'
    BY <1>1, <1>3, <2>1 DEF AnswerInvariant, HeardHolds, Deciding, Relaying
  <2>13. SparedTheBody' /\ (NoneStraddles => RefusalIsDeserved')
    BY <1>1, <2>1, SameHeard
  <2>. QED BY <1>4, <2>8, <2>9, <2>10, <2>11, <2>12, <2>13 DEF AnswerInvariant, NoneStraddles
<1>7. CASE ~(i = 1 /\ req.line = "unreadable") /\ ~(i > LineCount(req)) /\ TooManyLines
  <2>1. Reply("HeadTooLarge") /\ UNCHANGED head
    BY <1>7 DEF ReadLine
  <2>2. LineCount(req) > MaxLines
    BY <1>0, <1>1, <1>7 DEF TooManyLines
  <2>3. "HeadTooLarge" \in Faults(req)
    BY <2>2, FaultFacts
  <2>4. "HeadTooLarge" \in Words \ {"100"} /\ at \in {"head", "route"} \cup Deciding /\ at \notin Deciding
    BY <1>1 DEF Deciding, Words, Refusals
  <2>. HIDE DEF i, count
  <2>. QED BY <1>1, <2>1, <2>3, <2>4, RefuseKeeps
<1>8. CASE ~(i = 1 /\ req.line = "unreadable") /\ ~(i > LineCount(req)) /\ ~TooManyLines
  <2>1. head' = [head EXCEPT !.lines = i, !.bytes = @ + count] /\ UNCHANGED <<at, heard>>
    BY <1>8 DEF ReadLine
  <2>2. i \in 0..MaxLines /\ i <= LineCount(req) /\ head.bytes + count \in 0..MaxHead
    <3>1. i \in 0..MaxLines /\ i <= LineCount(req)
      BY <1>0, <1>1, <1>8 DEF TooManyLines
    <3>. HIDE DEF count
    <3>2. head.bytes + count \in 0..MaxHead
      BY <1>0, <1>1, <1>2
    <3>. QED BY <3>1, <3>2
  <2>3. head' \in Heads /\ head'.lines = i /\ head'.bytes = head.bytes + count /\ head'.stray = head.stray
    BY <1>1, <2>1, <2>2 DEF Heads
  <2>4. TypeOK'
    BY <1>1, <2>1, <2>3 DEF AnswerInvariant, TypeOK
  <2>5. head'.bytes = Min({MaxHead, req.size + FieldSize * (head'.lines - 1)})
    <3>1. MaxHead \in Int /\ req.size + FieldSize * (i - 1) \in Int
      BY <1>0, <1>1 DEF FieldSize
    <3>2. SUFFICES head.bytes + count = IF MaxHead <= req.size + FieldSize * (i - 1) THEN MaxHead
                                        ELSE req.size + FieldSize * (i - 1)
      BY <2>3, <3>1, MinOfTwo
    <3>3. CASE head.lines = 0
      BY <1>0, <1>1, <1>2, <3>3 DEF AnswerInvariant, HeadHolds, LineSize, FieldSize
    <3>4. CASE head.lines # 0
      <4>1. head.bytes = Min({MaxHead, req.size + FieldSize * (head.lines - 1)})
        BY <1>1, <3>4 DEF AnswerInvariant, HeadHolds
      <4>2. req.size + FieldSize * (head.lines - 1) \in Int
        BY <1>0, <1>1 DEF FieldSize
      <4>3. head.bytes = req.size + FieldSize * (head.lines - 1)
        BY <1>0, <1>1, <3>1, <4>1, <4>2, MinOfTwo
      <4>4. LineSize(req, i) = FieldSize
        BY <1>0, <1>1, <2>2, <3>4 DEF LineSize
      <4>5. req.size + FieldSize * (i - 1) = head.bytes + 2 /\ LineSize(req, i) = 2
        BY <1>0, <1>1, <4>3, <4>4 DEF FieldSize
      <4>. HIDE DEF i, count
      <4>. QED BY <1>0, <1>1, <1>2, <4>5
    <3>. QED BY <3>3, <3>4
  <2>6. HeadHolds'
    BY <1>0, <1>1, <1>8, <2>1, <2>2, <2>3, <2>5 DEF AnswerInvariant, HeadHolds, Deciding, Relaying
  <2>7. RouteHolds'
    BY <1>1, <1>3, <2>1 DEF AnswerInvariant, RouteHolds, Deciding, Relaying
  <2>8. BodyHolds'
    BY <1>1, <1>3, <2>1 DEF AnswerInvariant, BodyHolds, Relaying
  <2>9. HeardHolds'
    BY <1>1, <1>3, <2>1 DEF AnswerInvariant, HeardHolds, Deciding, Relaying
  <2>10. SparedTheBody' /\ (NoneStraddles => RefusalIsDeserved')
    BY <1>1, <2>1, SameHeard
  <2>. QED BY <1>4, <2>4, <2>6, <2>7, <2>8, <2>9, <2>10 DEF AnswerInvariant, NoneStraddles
<1>. QED BY <1>5, <1>6, <1>7, <1>8
\* head::read runs into its bound, or into the end of the connection.
LEMMA HeadRefusedKeeps ==
  ASSUME AnswerInvariant, HeadRefused
  PROVE  AnswerInvariant'
<1>0. /\ req \in Requests /\ LineCount(req) \in Nat /\ req.size \in Nat
      /\ Len(req.fields) \in Nat /\ LineCount(req) = Len(req.fields) + 1 /\ MaxHead \in Nat
  BY LengthFacts, BoundsAssumption DEF AnswerInvariant, TypeOK, LineCount
<1>1. /\ at = "head" /\ head.lines \in Nat /\ head.bytes \in Nat /\ head.lines <= LineCount(req)
      /\ UNCHANGED <<req, caller, head, taken, asked, up, slot, report>>
  BY <1>0 DEF HeadRefused, AnswerInvariant, TypeOK, Heads, HeadHolds
<1>2. at \in {"head", "route"} \cup Deciding /\ at \notin Deciding
  BY <1>1 DEF Deciding
<1>3. "HeadTooLarge" \in Words \ {"100"} /\ "MalformedRequest" \in Words \ {"100"}
  BY DEF Words, Refusals
<1>4. CASE head.bytes >= MaxHead /\ Reply("HeadTooLarge")
  <2>1. HeadBytes(req) > MaxHead
    <3>1. CASE head.lines = 0
      BY <1>0, <1>1, <1>4, <3>1 DEF AnswerInvariant, HeadHolds, HeadBytes, FieldSize, BlankSize
    <3>2. CASE head.lines # 0
      <4>1. head.bytes = Min({MaxHead, req.size + 2 * (head.lines - 1)})
        BY <1>1, <3>2 DEF AnswerInvariant, HeadHolds, FieldSize
      <4>2. req.size + 2 * (head.lines - 1) \in Int /\ MaxHead \in Int
        BY <1>0, <1>1
      <4>3. head.bytes = IF MaxHead <= req.size + 2 * (head.lines - 1) THEN MaxHead
                         ELSE req.size + 2 * (head.lines - 1)
        BY <4>1, <4>2, MinOfTwo
      <4>4. req.size + 2 * (head.lines - 1) >= MaxHead
        BY <1>1, <1>4, <4>2, <4>3
      <4>. QED BY <1>0, <1>1, <4>4 DEF HeadBytes, FieldSize, BlankSize
    <3>. QED BY <3>1, <3>2
  <2>2. "HeadTooLarge" \in Faults(req)
    BY <2>1, FaultFacts
  <2>. QED BY <1>1, <1>2, <1>3, <1>4, <2>2, RefuseKeeps
<1>5. CASE caller.out # "open" /\ Reply("MalformedRequest")
  <2>1. "MalformedRequest" \in Abandoned
    BY <1>5 DEF Abandoned
  <2>. QED BY <1>1, <1>2, <1>3, <1>5, <2>1, RefuseKeeps
<1>. QED BY <1>4, <1>5 DEF HeadRefused

\* answer::to refuses for the head alone.
LEMMA RefusedKeeps ==
  ASSUME AnswerInvariant, Refused
  PROVE  AnswerInvariant'
<1>1. /\ req \in Requests /\ at = "route" /\ Unrouted(req) # "none" /\ Reply(Unrouted(req))
      /\ UNCHANGED <<req, caller, head, taken, asked, up, slot, report>>
  BY DEF Refused, AnswerInvariant, TypeOK
<1>2. at \in {"head", "route"} \cup Deciding /\ at \notin Deciding
  BY <1>1 DEF Deciding
<1>3. Unrouted(req) \in Faults(req) /\ Unrouted(req) \in Words \ {"100"}
  BY <1>1, UnroutedFacts
<1>. QED BY <1>1, <1>2, <1>3, RefuseKeeps

\* answer::to answers itself.
LEMMA OwnAnswerKeeps ==
  ASSUME AnswerInvariant, OwnAnswer
  PROVE  AnswerInvariant'
<1>1. /\ at = "route" /\ UNCHANGED <<req, caller, head, taken, asked, up, slot, report>>
      /\ Reply("preflight") \/ Reply("own")
  BY DEF OwnAnswer
<1>2. at \in {"head", "route"} \cup Deciding /\ at \notin Deciding
  BY <1>1 DEF Deciding
<1>3. \A w \in {"own", "preflight"} : w \in Words \ {"100"} /\ w \notin Refusals
  BY DEF Words, Refusals, ChildFaults, CauseOf
<1>4. CASE Reply("own")
  BY <1>1, <1>2, <1>3, <1>4, RefuseKeeps
<1>5. CASE Reply("preflight")
  BY <1>1, <1>2, <1>3, <1>5, RefuseKeeps
<1>. QED BY <1>1, <1>4, <1>5

\* own::catalogue walks the slots.
LEMMA CatalogueKeeps ==
  ASSUME AnswerInvariant, Catalogue
  PROVE  AnswerInvariant'
<1>1. /\ UNCHANGED <<req, caller, head, taken, asked, up, slot>>
      /\ at \in {"route", "loaded", "held"}
  BY DEF Catalogue
<1>2. Endpoint' = Endpoint /\ Model' = Model
  BY <1>1, ReqKeeps
<1>3. NoneStraddles => OnlyServableStartsAModel'
  BY <1>1, <1>2 DEF AnswerInvariant, OnlyServableStartsAModel
<1>4. report' \in Reports
  BY DEF Catalogue, AnswerInvariant, TypeOK, Reports
<1>5. CASE at \in {"route", "loaded"}
  <2>1. at' \in {"loaded", "held"} /\ heard' = heard
    BY <1>5 DEF Catalogue
  <2>2. Unrouted(req) = "none" /\ req.method # "OPTIONS" /\ Endpoint = "catalogue"
    BY <1>5 DEF Catalogue, AnswerInvariant, RouteHolds, Deciding
  <2>3. TypeOK'
    BY <1>1, <1>4, <2>1 DEF AnswerInvariant, TypeOK
  <2>4. HeadHolds'
    BY <1>1, <1>5, <2>1 DEF AnswerInvariant, HeadHolds, Deciding, Relaying
  <2>5. RouteHolds'
    BY <1>1, <1>2, <1>5, <2>1, <2>2 DEF AnswerInvariant, RouteHolds, Deciding, Relaying
  <2>6. BodyHolds'
    BY <1>1, <1>2, <1>5, <2>1 DEF AnswerInvariant, BodyHolds, Relaying
  <2>7. HeardHolds'
    BY <1>1, <1>2, <1>5, <2>1 DEF AnswerInvariant, HeardHolds, Deciding, Relaying
  <2>8. SparedTheBody' /\ (NoneStraddles => RefusalIsDeserved')
    BY <1>1, <2>1, SameHeard
  <2>. QED BY <1>3, <2>3, <2>4, <2>5, <2>6, <2>7, <2>8 DEF AnswerInvariant, NoneStraddles
<1>6. CASE at = "held"
  <2>1. Reply("own")
    BY <1>6 DEF Catalogue
  <2>2. "own" \in Words \ {"100"} /\ "own" \notin Refusals /\ at \in {"head", "route"} \cup Deciding
    BY <1>6 DEF Words, Refusals, ChildFaults, CauseOf, Deciding
  <2>3. /\ taken' \in Seq(Int) /\ Len(taken') <= BodyBytes(req)
        /\ NoneStraddles => \A i \in 1..Len(taken') : taken'[i] = i
    BY <1>1 DEF AnswerInvariant, TypeOK, BodyHolds
  <2>4. asked' \in BOOLEAN /\ (asked => asked')
    BY <1>1, Zenon DEF AnswerInvariant, TypeOK
  <2>. QED BY <1>1, <1>3, <1>4, <2>1, <2>2, <2>3, <2>4, ReplyKeeps
<1>. QED BY <1>1, <1>5, <1>6
\* Answer.Proceed where nothing was said so far: the interim answer is the first
\* word, or there is none.
LEMMA ProceedFacts ==
  ASSUME AnswerInvariant, req' = req, asked => asked', heard = << >>, Model,
         NEW due \in BOOLEAN, NEW next, due => Expects(req), Proceed(due, next)
  PROVE  /\ heard' \in Seq(Words) /\ Len(heard') <= 1
         /\ \A i \in 1..Len(heard') : heard'[i] = "100" /\ i = 1 /\ Expects(req) /\ due
         /\ caller' \in Callers(req) /\ caller'.out = caller.out /\ at' \in {next, "closed"}
         /\ SparedTheBody' /\ (NoneStraddles => RefusalIsDeserved')
<1>1. caller' \in Callers(req) /\ caller'.out = caller.out
  <2>1. caller \in Callers(req)
    BY DEF AnswerInvariant, TypeOK
  <2>2. (caller.out = "gone") \in BOOLEAN
    BY Zenon
  <2>3. caller' = caller \/ caller' = [caller EXCEPT !.lost = (caller.out = "gone")]
    BY DEF Proceed, Written
  <2>. QED BY <2>1, <2>2, <2>3 DEF Callers
<1>2. at' \in {next, "closed"}
  BY DEF Proceed
<1>3. heard' = << >> \/ (heard' = <<"100">> /\ due)
  BY DEF Proceed, Say
<1>4. CASE heard' = << >>
  <2>1. Heard' = {} /\ heard' \in Seq(Words) /\ Len(heard') = 0
    BY <1>4 DEF Heard
  <2>2. SparedTheBody' /\ RefusalIsDeserved'
    BY <2>1 DEF SparedTheBody, RefusalIsDeserved
  <2>. QED BY <1>1, <1>2, <2>1, <2>2
<1>5. CASE heard' = <<"100">> /\ due
  <2>1. "100" \in Words /\ "100" \notin Refusals
    BY DEF Words, Refusals, ChildFaults, CauseOf
  <2>2. heard' \in Seq(Words) /\ Len(heard') = 1 /\ heard'[1] = "100"
    BY <1>5, <2>1
  <2>3. \A i \in 1..Len(heard') : heard'[i] = "100" /\ i = 1
    BY <2>2
  <2>4. Heard' = {"100"}
    BY <2>2 DEF Heard
  <2>5. Heard' \cap Refusals = {}
    BY <2>1, <2>4
  <2>6. SparedTheBody'
    BY <1>5, <2>2, <2>5 DEF SparedTheBody
  <2>7. RefusalIsDeserved'
    BY <2>5 DEF RefusalIsDeserved
  <2>. QED BY <1>1, <1>2, <1>5, <2>2, <2>3, <2>6, <2>7
<1>. QED BY <1>3, <1>4, <1>5

\* answer::to has found an entry to serve from, or goes on to read the body.
LEMMA RoutedKeeps ==
  ASSUME AnswerInvariant, Routed
  PROVE  AnswerInvariant'
<1>. DEFINE due == Endpoint = "generic" /\ Expects(req)
            next == IF Endpoint = "generic" THEN "body" ELSE "lookup"
<1>1. /\ at = "route" /\ Unrouted(req) = "none" /\ Model /\ Proceed(due, next)
      /\ UNCHANGED <<req, head, taken, asked, up, slot, report>>
  BY DEF Routed
<1>2. due \in BOOLEAN /\ heard = << >> /\ (due => Expects(req)) /\ (asked => asked')
  <2>1. due \in BOOLEAN /\ (due => Expects(req)) /\ (asked => asked')
    BY <1>1, Zenon
  <2>. QED BY <1>1, <2>1 DEF AnswerInvariant, HeardHolds
<1>3. Endpoint' = Endpoint /\ Model' = Model
  BY <1>1, ReqKeeps
<1>4. req.method # "OPTIONS" /\ Endpoint \in {"dedicated", "generic"} /\ next \in {"body", "lookup"}
  BY <1>1 DEF Model
<1>5. /\ heard' \in Seq(Words) /\ Len(heard') <= 1
      /\ \A i \in 1..Len(heard') : heard'[i] = "100" /\ i = 1 /\ Expects(req) /\ due
      /\ caller' \in Callers(req) /\ caller'.out = caller.out /\ at' \in {next, "closed"}
      /\ SparedTheBody' /\ (NoneStraddles => RefusalIsDeserved')
  <2>. HIDE DEF due, next
  <2>. QED BY <1>1, <1>2, ProceedFacts
<1>6. at' \in {"body", "lookup", "closed"}
  BY <1>4, <1>5
<1>7. TypeOK'
  BY <1>1, <1>5, <1>6 DEF AnswerInvariant, TypeOK
<1>8. HeadHolds'
  BY <1>1, <1>6 DEF AnswerInvariant, HeadHolds, Deciding, Relaying
<1>9. RouteHolds'
  BY <1>1, <1>3, <1>4, <1>5 DEF AnswerInvariant, RouteHolds, Deciding, Relaying
<1>10. BodyHolds'
  BY <1>1, <1>3, <1>4, <1>5 DEF AnswerInvariant, BodyHolds, Relaying
<1>11. HeardHolds'
  <2>1. Len(heard') # 2
    <3>1. Len(heard') \in Nat /\ Len(heard') <= 1
      BY <1>5
    <3>. QED BY <3>1
  <2>. QED BY <1>1, <1>3, <1>5, <1>6, <2>1 DEF HeardHolds, Deciding, Relaying
<1>12. NoneStraddles => OnlyServableStartsAModel'
  BY <1>1, <1>3 DEF AnswerInvariant, OnlyServableStartsAModel
<1>. QED BY <1>5, <1>7, <1>8, <1>9, <1>10, <1>11, <1>12 DEF AnswerInvariant, NoneStraddles

\* body::read has the declared bytes, or never will.
LEMMA ReadBodyKeeps ==
  ASSUME AnswerInvariant, ReadBody
  PROVE  AnswerInvariant'
<1>0. /\ req \in Requests /\ BodyBytes(req) \in Nat /\ req.body \in Nat
  BY LengthFacts DEF AnswerInvariant, TypeOK
<1>1. /\ at = "body" /\ UNCHANGED <<req, caller, head, asked, up, slot, report>>
      /\ at \in Deciding /\ at \in {"head", "route"} \cup Deciding
  BY DEF ReadBody, Deciding
<1>2. Endpoint' = Endpoint /\ Model' = Model
  BY <1>1, ReqKeeps
<1>3. /\ Endpoint = "generic" /\ req.method # "OPTIONS" /\ Unrouted(req) = "none"
      /\ req.method \in Allowed("generic")
  BY <1>0, <1>1, UnroutedFacts DEF AnswerInvariant, RouteHolds, Endpoint
<1>4. NoneStraddles => OnlyServableStartsAModel'
  BY <1>1, <1>2 DEF AnswerInvariant, OnlyServableStartsAModel
<1>5. report' \in Reports
  BY <1>1 DEF AnswerInvariant, TypeOK
<1>6. asked' \in BOOLEAN /\ (asked => asked')
  BY <1>1, Zenon DEF AnswerInvariant, TypeOK
<1>7. /\ "BodyNotJson" \in Faults(req) <=> (req.says = NotJson \/ BodyBytes(req) # req.body)
      /\ "ModelMissing" \in Faults(req) <=> req.says = Nameless
  <2>1. EndpointOf(req.path) = "generic"
    BY <1>3 DEF Endpoint
  <2>2. TRUE <=> (EndpointOf(req.path) = "generic" /\ req.method \in Allowed(EndpointOf(req.path)) \ {"OPTIONS"})
    BY <1>3, <2>1
  <2>. QED BY <2>2, FaultFacts, Zenon
<1>8. \A w \in {"BodyNotJson", "ModelMissing", "BodyIncomplete"} : w \in Words \ {"100"}
  BY DEF Words, Refusals
<1>9. CASE /\ taken' = Stream(BodyBytes(req))
           /\ CASE Says(req, taken') = NotJson -> Reply("BodyNotJson")
                [] Says(req, taken') = Nameless -> Reply("ModelMissing")
                [] OTHER -> at' = "lookup" /\ UNCHANGED heard
  <2>1. /\ taken' \in Seq(Int) /\ Len(taken') = BodyBytes(req)
        /\ \A i \in 1..Len(taken') : taken'[i] = i - head.stray
    <3>1. head.stray \in Int
      BY DEF AnswerInvariant, TypeOK, Heads
    <3>2. \A i \in 1..BodyBytes(req) : i - head.stray \in Int
      BY <1>0, <3>1
    <3>. QED BY <1>0, <1>9, <3>2 DEF Stream
  <2>2. /\ Len(taken') <= BodyBytes(req)
        /\ NoneStraddles => \A i \in 1..Len(taken') : taken'[i] = i
    BY <1>0, <2>1 DEF AnswerInvariant, HeadHolds
  <2>3. ASSUME NoneStraddles
        PROVE  (taken' = [i \in 1..req.body |-> i]) <=> BodyBytes(req) = req.body
    <3>1. taken' = [i \in 1..BodyBytes(req) |-> i]
      BY <1>9, <2>3 DEF Stream, AnswerInvariant, HeadHolds
    <3>2. ASSUME taken' = [i \in 1..req.body |-> i] PROVE BodyBytes(req) = req.body
      <4>1. 1..BodyBytes(req) = 1..req.body
        BY <3>1, <3>2
      <4>. QED BY <1>0, <4>1
    <3>. QED BY <3>1, <3>2
  <2>4. CASE Says(req, taken') = NotJson
    <3>1. Reply("BodyNotJson")
      BY <1>9, <2>4 DEF NotJson, Nameless
    <3>2. NoneStraddles => "BodyNotJson" \in Faults(req)
      BY <1>7, <2>3, <2>4 DEF Says
    <3>. QED BY <1>1, <1>4, <1>5, <1>6, <1>8, <2>1, <2>2, <3>1, <3>2, ReplyKeeps
  <2>5. CASE Says(req, taken') = Nameless /\ Says(req, taken') # NotJson
    <3>1. Reply("ModelMissing")
      BY <1>9, <2>5 DEF NotJson, Nameless
    <3>2. "ModelMissing" \in Faults(req)
      BY <1>7, <2>5 DEF Says
    <3>. QED BY <1>1, <1>4, <1>5, <1>6, <1>8, <2>1, <2>2, <3>1, <3>2, ReplyKeeps
  <2>6. CASE Says(req, taken') \notin {NotJson, Nameless}
    <3>1. at' = "lookup" /\ heard' = heard
      BY <1>9, <2>6
    <3>2. TypeOK'
      BY <1>1, <2>1, <2>2, <3>1 DEF AnswerInvariant, TypeOK
    <3>3. HeadHolds'
      BY <1>1, <3>1 DEF AnswerInvariant, HeadHolds, Deciding, Relaying
    <3>4. RouteHolds'
      BY <1>1, <1>2, <1>3, <2>6, <3>1 DEF AnswerInvariant, RouteHolds, Deciding, Relaying
    <3>5. BodyHolds'
      BY <1>1, <1>2, <1>3, <2>1, <2>2, <3>1 DEF AnswerInvariant, BodyHolds, Relaying
    <3>6. HeardHolds'
      BY <1>1, <1>2, <3>1 DEF AnswerInvariant, HeardHolds, Deciding, Relaying
    <3>7. SparedTheBody' /\ (NoneStraddles => RefusalIsDeserved')
      BY <1>1, <3>1, SameHeard
    <3>. QED BY <1>4, <3>2, <3>3, <3>4, <3>5, <3>6, <3>7 DEF AnswerInvariant, NoneStraddles
  <2>. QED BY <2>4, <2>5, <2>6
<1>10. CASE caller.out # "open" /\ Reply("BodyIncomplete") /\ UNCHANGED taken
  <2>1. "BodyIncomplete" \in Abandoned
    BY <1>10 DEF Abandoned
  <2>. QED BY <1>1, <1>8, <1>10, <2>1, RefuseKeeps
<1>. QED BY <1>9, <1>10 DEF ReadBody
\* What the body says to somebody who understood it is what its caller meant.
LEMMA SaysFacts ==
  ASSUME NEW r \in Requests, NEW s, Says(r, s) # NotJson
  PROVE  Says(r, s) = r.says /\ Len(s) = r.body
<1>1. s = [i \in 1..r.body |-> i] /\ Says(r, s) = r.says
  BY DEF Says
<1>2. r.body \in Nat
  BY LengthFacts
<1>. QED BY <1>1, <1>2

\* Catalog::find answers for the model that was asked for.
LEMMA LookupKeeps ==
  ASSUME AnswerInvariant, Lookup
  PROVE  AnswerInvariant'
<1>0. req \in Requests
  BY DEF AnswerInvariant, TypeOK
<1>1. /\ at = "lookup" /\ UNCHANGED <<req, caller, head, taken, asked, up, slot, report>>
      /\ at \in Deciding /\ at \in {"head", "route"} \cup Deciding
  BY DEF Lookup, Deciding
<1>2. Endpoint' = Endpoint /\ Model' = Model /\ Wanted' = Wanted
  BY <1>1, ReqKeeps DEF Wanted
<1>3. NoneStraddles => OnlyServableStartsAModel'
  BY <1>1, <1>2 DEF AnswerInvariant, OnlyServableStartsAModel
<1>4. Endpoint \in {"dedicated", "generic"}
  BY <1>1 DEF AnswerInvariant, RouteHolds
<1>5. CASE Wanted \in Known /\ at' = "child" /\ heard' = heard
  <2>1. TypeOK'
    BY <1>1, <1>5 DEF AnswerInvariant, TypeOK
  <2>2. HeadHolds'
    BY <1>1, <1>5 DEF AnswerInvariant, HeadHolds, Deciding, Relaying
  <2>3. RouteHolds'
    BY <1>1, <1>2, <1>5 DEF AnswerInvariant, RouteHolds, Deciding, Relaying
  <2>4. BodyHolds'
    BY <1>1, <1>2, <1>5 DEF AnswerInvariant, BodyHolds, Relaying
  <2>5. HeardHolds'
    BY <1>1, <1>2, <1>5 DEF AnswerInvariant, HeardHolds, Deciding, Relaying
  <2>6. SparedTheBody' /\ (NoneStraddles => RefusalIsDeserved')
    BY <1>1, <1>5, SameHeard
  <2>. QED BY <1>3, <2>1, <2>2, <2>3, <2>4, <2>5, <2>6 DEF AnswerInvariant, NoneStraddles
<1>6. CASE Wanted \notin Known /\ Reply("ModelNotFound")
  <2>1. Wanted = IF Endpoint = "dedicated" THEN req.path.segs[2] ELSE req.says
    BY <1>0, <1>1, <1>4, SaysFacts DEF Wanted, AnswerInvariant, RouteHolds
  <2>2. "ModelNotFound" \in Faults(req)
    BY <1>4, <1>6, <2>1, FaultFacts DEF Own, Endpoint
  <2>3. "ModelNotFound" \in Words \ {"100"}
    BY DEF Words, Refusals
  <2>. QED BY <1>1, <1>6, <2>2, <2>3, RefuseKeeps
<1>. QED BY <1>5, <1>6 DEF Lookup

\* When a child is asked for, nothing is wrong with the request.
LEMMA ChildIsDeserved ==
  ASSUME AnswerInvariant, NoneStraddles, at = "child"
  PROVE  Faults(req) = {} /\ Endpoint \notin Own /\ req.method # "OPTIONS"
<1>0. /\ req \in Requests /\ BodyBytes(req) \in Nat /\ req.body \in Nat /\ LineCount(req) \in Nat
      /\ MaxHead \in Nat /\ MaxLines \in Nat /\ req.line \in {"whole", "short", "unreadable"}
  BY LengthFacts, BoundsAssumption, RequestsAssumption DEF AnswerInvariant, TypeOK, RequestOK
<1>1. Endpoint \in {"dedicated", "generic"} /\ req.method # "OPTIONS" /\ Unrouted(req) = "none" /\ Wanted \in Known
  BY DEF AnswerInvariant, RouteHolds, Deciding
<1>2. /\ req.line # "short" /\ req.method \in Allowed(Endpoint)
      /\ ~Has(req, "chunked") /\ Length(req) # "malformed"
      /\ Endpoint = "generic" => Length(req) = "given" /\ BodyBytes(req) <= MaxBody
  BY <1>0, <1>1, UnroutedFacts DEF Endpoint
<1>3. LineCount(req) <= MaxLines /\ req.line # "unreadable" /\ HeadBytes(req) <= MaxHead
  <2>1. head.lines \in 0..MaxLines /\ head.lines = LineCount(req) /\ HeadBytes(req) <= MaxHead + 1
    BY DEF AnswerInvariant, TypeOK, Heads, HeadHolds, Deciding
  <2>2. LineCount(req) > 0 /\ HeadBytes(req) \in Nat
    BY <1>0, LengthFacts DEF LineCount, HeadBytes, FieldSize, BlankSize
  <2>3. HeadBytes(req) # MaxHead + 1
    BY <1>0 DEF NoneStraddles
  <2>. QED BY <1>0, <2>1, <2>2, <2>3 DEF AnswerInvariant, HeadHolds
<1>4. Endpoint = "generic" => req.says \notin {NotJson, Nameless} /\ BodyBytes(req) = req.body /\ req.says \in Known
  BY <1>0, <1>1, SaysFacts DEF AnswerInvariant, RouteHolds, BodyHolds, Wanted
<1>5. Endpoint = "dedicated" => req.path.segs[2] \in Known
  BY <1>1 DEF Wanted
<1>. DEFINE body == Endpoint = "generic" /\ req.method \in Allowed(Endpoint) \ {"OPTIONS"}
<1>6. /\ "MalformedRequest" \in Faults(req) <=> req.line # "whole"
      /\ "HeadTooLarge" \in Faults(req) <=> LineCount(req) > MaxLines \/ HeadBytes(req) > MaxHead
      /\ "PathNotFound" \in Faults(req) <=> Endpoint = "none"
      /\ "MethodNotAllowed" \in Faults(req) <=> req.method \notin Allowed(Endpoint)
      /\ "ChunkedBody" \in Faults(req) <=> Has(req, "chunked")
      /\ "MalformedLength" \in Faults(req) <=> Length(req) = "malformed"
      /\ "LengthRequired" \in Faults(req) <=> body /\ Length(req) = "absent"
      /\ "BodyTooLarge" \in Faults(req) <=> body /\ BodyBytes(req) > MaxBody
      /\ "BodyNotJson" \in Faults(req) <=> body /\ (req.says = NotJson \/ BodyBytes(req) # req.body)
      /\ "ModelMissing" \in Faults(req) <=> body /\ req.says = Nameless
      /\ "ModelNotFound" \in Faults(req) <=>
           Endpoint \notin Own /\ (IF Endpoint = "dedicated" THEN req.path.segs[2] ELSE req.says) \notin Known
      /\ Faults(req) \subseteq {"MalformedRequest", "HeadTooLarge", "PathNotFound", "MethodNotAllowed",
                "ChunkedBody", "MalformedLength", "LengthRequired", "BodyTooLarge", "BodyNotJson",
                "ModelMissing", "ModelNotFound"}
  <2>1. body \in BOOLEAN /\ Endpoint = EndpointOf(req.path)
    BY Zenon DEF Endpoint
  <2>. HIDE DEF body
  <2>2. body <=> Endpoint = "generic" /\ req.method \in Allowed(Endpoint) \ {"OPTIONS"}
    BY Zenon DEF body
  <2>. QED BY <2>1, <2>2, FaultFacts, Zenon
<1>7. ~(LineCount(req) > MaxLines \/ HeadBytes(req) > MaxHead)
  <2>1. HeadBytes(req) \in Nat
    BY <1>0, LengthFacts DEF HeadBytes, FieldSize, BlankSize
  <2>. QED BY <1>0, <1>3, <2>1
<1>8. ~(body /\ BodyBytes(req) > MaxBody)
  BY <1>0, <1>2, BoundsAssumption
<1>9. req.line = "whole"
  BY <1>0, <1>2, <1>3
<1>10. Faults(req) = {}
  <2>. SUFFICES ASSUME NEW f \in Faults(req) PROVE FALSE
    OBVIOUS
  <2>. HIDE DEF body
  <2>1. /\ "MalformedRequest" \notin Faults(req) /\ "HeadTooLarge" \notin Faults(req)
        /\ "PathNotFound" \notin Faults(req) /\ "MethodNotAllowed" \notin Faults(req)
        /\ "ChunkedBody" \notin Faults(req) /\ "MalformedLength" \notin Faults(req)
        /\ "BodyTooLarge" \notin Faults(req)
    BY <1>1, <1>2, <1>6, <1>7, <1>8, <1>9
  <2>2. /\ "LengthRequired" \notin Faults(req) /\ "BodyNotJson" \notin Faults(req)
        /\ "ModelMissing" \notin Faults(req) /\ "ModelNotFound" \notin Faults(req)
    BY <1>1, <1>2, <1>4, <1>5, <1>6 DEF body, Own
  <2>. QED BY <1>6, <2>1, <2>2
<1>. QED BY <1>1, <1>10 DEF Own

\* Shared::child has failed.
LEMMA NoChildKeeps ==
  ASSUME AnswerInvariant, NoChild
  PROVE  AnswerInvariant'
<1>1. /\ at = "child" /\ asked' = TRUE /\ UNCHANGED <<req, caller, head, taken, up, slot, report>>
      /\ at \in Deciding /\ at \in {"head", "route"} \cup Deciding
  BY DEF NoChild, Deciding
<1>2. PICK f \in DOMAIN CauseOf : Reply(CauseOf[f])
  BY DEF NoChild
<1>3. CauseOf[f] \in ChildFaults /\ CauseOf[f] \in Words \ {"100"}
  BY DEF ChildFaults, CauseOf, Words, Refusals
<1>4. NoneStraddles => OnlyServableStartsAModel'
  BY <1>1, ChildIsDeserved, ReqKeeps DEF OnlyServableStartsAModel
<1>5. /\ report' \in Reports /\ taken' \in Seq(Int) /\ Len(taken') <= BodyBytes(req)
      /\ NoneStraddles => \A i \in 1..Len(taken') : taken'[i] = i
  BY <1>1 DEF AnswerInvariant, TypeOK, BodyHolds
<1>6. asked' \in BOOLEAN /\ (asked => asked')
  BY <1>1, Zenon
<1>. QED BY <1>1, <1>2, <1>3, <1>4, <1>5, <1>6, ReplyKeeps
\* Shared::child has returned a child.
LEMMA GotChildKeeps ==
  ASSUME AnswerInvariant, GotChild
  PROVE  AnswerInvariant'
<1>. DEFINE due == Endpoint = "dedicated" /\ Expects(req) /\ BodyBytes(req) > 0
<1>1. /\ at = "child" /\ asked' = TRUE /\ Proceed(due, "connect")
      /\ UNCHANGED <<req, head, taken, up, slot, report>>
  BY DEF GotChild
<1>2. Endpoint' = Endpoint /\ Model' = Model /\ Wanted' = Wanted
  BY <1>1, ReqKeeps DEF Wanted
<1>3. /\ Model /\ due \in BOOLEAN /\ (due => Expects(req)) /\ (due => Endpoint = "dedicated")
      /\ (asked => asked') /\ asked' \in BOOLEAN
  <2>1. /\ due \in BOOLEAN /\ (due => Expects(req)) /\ (due => Endpoint = "dedicated")
        /\ (asked => asked') /\ asked' \in BOOLEAN
    BY <1>1, Zenon
  <2>. QED BY <1>1, <2>1 DEF AnswerInvariant, RouteHolds, Model, Deciding
<1>4. NoneStraddles => OnlyServableStartsAModel'
  BY <1>1, <1>2, ChildIsDeserved DEF OnlyServableStartsAModel
<1>5. /\ heard' \in Seq(Words) /\ Len(heard') <= 1
      /\ \A i \in 1..Len(heard') : heard'[i] = "100" /\ i = 1 /\ Expects(req)
      /\ caller' \in Callers(req) /\ caller'.out = caller.out /\ at' \in {"connect", "closed"}
      /\ SparedTheBody' /\ (NoneStraddles => RefusalIsDeserved')
  <2>. HIDE DEF due
  <2>1. CASE due
    <3>1. heard = << >>
      <4>1. heard \in Seq(Words) /\ \A i \in 1..Len(heard) : FALSE
        BY <1>1, <1>3, <2>1 DEF AnswerInvariant, TypeOK, HeardHolds, Deciding
      <4>2. Len(heard) = 0
        <5>1. Len(heard) \in Nat /\ (Len(heard) > 0 => 1 \in 1..Len(heard))
          BY <4>1
        <5>. QED BY <4>1, <5>1
      <4>. QED BY <4>1, <4>2
    <3>. QED BY <1>1, <1>3, <3>1, ProceedFacts
  <2>2. CASE ~due
    <3>1. heard' = heard /\ caller' = caller /\ at' = "connect"
      BY <1>1, <2>2 DEF Proceed
    <3>2. /\ heard' \in Seq(Words) /\ Len(heard') <= 1
          /\ \A i \in 1..Len(heard') : heard'[i] = "100" /\ i = 1 /\ Expects(req)
      BY <1>1, <3>1 DEF AnswerInvariant, TypeOK, HeardHolds, Deciding
    <3>3. SparedTheBody' /\ (NoneStraddles => RefusalIsDeserved')
      BY <1>1, <1>3, <3>1, SameHeard
    <3>. QED BY <3>1, <3>2, <3>3 DEF AnswerInvariant, TypeOK
  <2>. QED BY <1>3, <2>1, <2>2
<1>6. TypeOK'
  BY <1>1, <1>3, <1>5 DEF AnswerInvariant, TypeOK
<1>7. HeadHolds'
  BY <1>1, <1>5 DEF AnswerInvariant, HeadHolds, Deciding, Relaying
<1>8. RouteHolds'
  BY <1>1, <1>2, <1>5 DEF AnswerInvariant, RouteHolds, Deciding, Relaying
<1>9. BodyHolds'
  BY <1>1, <1>2, <1>5 DEF AnswerInvariant, BodyHolds, Relaying
<1>10. HeardHolds'
  <2>1. Len(heard') # 2 /\ Len(heard') <= 2
    <3>1. Len(heard') \in Nat /\ Len(heard') <= 1
      BY <1>5
    <3>. QED BY <3>1
  <2>. HIDE DEF due
  <2>. QED BY <1>1, <1>2, <1>3, <1>5, <2>1 DEF HeardHolds, Deciding, Relaying
<1>. QED BY <1>4, <1>5, <1>6, <1>7, <1>8, <1>9, <1>10 DEF AnswerInvariant, NoneStraddles

\* A step of the relay that says nothing: what is left to see is where it leads.
LEMMA RelayKeeps ==
  ASSUME AnswerInvariant, at \in Relaying \ {"touch"}, at' \in Relaying,
         UNCHANGED <<req, caller, heard, head, asked, slot, report>>,
         Endpoint = "generic" => taken' = taken,
         at' = "buffered" => Endpoint = "generic", at' = "forward" => Endpoint = "dedicated",
         at' \in {"connect", "buffered", "forward"} => at \in {"connect", "buffered", "forward"},
         up' \in Connections(req), taken' \in Seq(Int), Len(taken') <= BodyBytes(req), BodyHolds'
  PROVE  AnswerInvariant'
<1>1. Endpoint' = Endpoint /\ Model' = Model /\ (Wanted \in Known)'
  <2>1. Endpoint' = Endpoint /\ Model' = Model
    BY ReqKeeps
  <2>2. Endpoint \in {"dedicated", "generic"} /\ Wanted \in Known
    BY DEF AnswerInvariant, RouteHolds, Relaying
  <2>. QED BY <2>1, <2>2 DEF Wanted
<1>2. TypeOK'
  BY DEF AnswerInvariant, TypeOK, Relaying
<1>3. HeadHolds'
  BY DEF AnswerInvariant, HeadHolds, Deciding, Relaying
<1>4. RouteHolds'
  BY <1>1 DEF AnswerInvariant, RouteHolds, Deciding, Relaying
<1>5. HeardHolds'
  BY <1>1 DEF AnswerInvariant, HeardHolds, Deciding, Relaying
<1>6. SparedTheBody' /\ (NoneStraddles => RefusalIsDeserved')
  BY SameHeard
<1>7. NoneStraddles => OnlyServableStartsAModel'
  BY <1>1 DEF AnswerInvariant, OnlyServableStartsAModel
<1>. QED BY <1>2, <1>3, <1>4, <1>5, <1>6, <1>7 DEF AnswerInvariant, NoneStraddles

\* relay::run reaches the child and writes it the head, or does not.
LEMMA ConnectKeeps ==
  ASSUME AnswerInvariant, Connect
  PROVE  AnswerInvariant'
<1>1. /\ at = "connect" /\ UNCHANGED <<req, caller, heard, head, taken, asked, slot, report>>
  BY DEF Connect
<1>2. at' \in {"touch", "buffered", "forward"} /\ (at' = "buffered" => Endpoint = "generic")
      /\ (at' = "forward" => Endpoint = "dedicated")
  BY <1>1 DEF Connect, AnswerInvariant, RouteHolds, Relaying
<1>3. up' \in Connections(req) /\ up'.body = up.body
  BY DEF Connect, AnswerInvariant, TypeOK, Connections
<1>4. taken' \in Seq(Int) /\ Len(taken') <= BodyBytes(req)
  BY <1>1 DEF AnswerInvariant, TypeOK
<1>5. up.body = << >> /\ Len(up.body) = 0
  BY <1>1 DEF AnswerInvariant, BodyHolds
<1>6. BodyHolds'
  <2>1. Endpoint' = Endpoint
    BY <1>1, ReqKeeps
  <2>2. taken = << >> => Len(taken) = 0
    OBVIOUS
  <2>. QED BY <1>1, <1>2, <1>3, <1>5, <2>1, <2>2 DEF AnswerInvariant, BodyHolds, Relaying
<1>. QED BY <1>1, <1>2, <1>3, <1>4, <1>6, RelayKeeps DEF Relaying

\* What follows on the read so far, when the relay has passed it all on.
LEMMA PassedOn ==
  ASSUME NEW s \in Seq(Int), NEW t \in Seq(Int)
  PROVE  /\ s \o t \in Seq(Int) /\ Len(s \o t) = Len(s) + Len(t)
         /\ \A i \in 1..Len(s) : (s \o t)[i] = s[i]
         /\ \A i \in Len(s)+1..Len(s) + Len(t) : (s \o t)[i] = t[i - Len(s)]
  OBVIOUS

\* relay::run writes the body it was handed.
LEMMA WriteBodyKeeps ==
  ASSUME AnswerInvariant, WriteBody
  PROVE  AnswerInvariant'
<1>0. req \in Requests /\ BodyBytes(req) \in Nat
  BY LengthFacts DEF AnswerInvariant, TypeOK
<1>1. /\ at = "buffered" /\ UNCHANGED <<req, caller, heard, head, taken, asked, slot, report>>
      /\ Upstream(taken, "response")
  BY DEF WriteBody
<1>2. Endpoint' = Endpoint /\ Endpoint = "generic"
  BY <1>1, ReqKeeps DEF AnswerInvariant, RouteHolds
<1>3. /\ taken \in Seq(Int) /\ Len(taken) = BodyBytes(req)
      /\ up \in Connections(req) /\ up.body \in Seq(Int) /\ up.body = << >> /\ Len(up.body) = 0
      /\ NoneStraddles => \A i \in 1..Len(taken) : taken[i] = i
  BY <1>1, <1>2 DEF AnswerInvariant, TypeOK, BodyHolds, Relaying, Connections
<1>4. CASE up' = [up EXCEPT !.body = @ \o taken] /\ at' = "response"
  <2>1. up.body \o taken = taken
    BY <1>3
  <2>2. up' \in Connections(req) /\ up'.body = taken
    BY <1>3, <1>4, <2>1 DEF Connections
  <2>3. BodyHolds'
    BY <1>0, <1>1, <1>2, <1>3, <1>4, <2>2 DEF BodyHolds, Relaying, AnswerInvariant
  <2>. QED BY <1>0, <1>1, <1>2, <1>3, <1>4, <2>2, <2>3, RelayKeeps DEF Relaying
<1>5. CASE at' = "touch" /\ up' = up
  <2>1. BodyHolds'
    BY <1>0, <1>1, <1>2, <1>3, <1>5 DEF AnswerInvariant, BodyHolds, Relaying
  <2>. QED BY <1>0, <1>1, <1>2, <1>3, <1>5, <2>1, RelayKeeps DEF Relaying
<1>. QED BY <1>1, <1>4, <1>5 DEF Upstream

\* forward_body passes on what it reads, to the declared length and no further.
LEMMA ForwardBodyKeeps ==
  ASSUME AnswerInvariant, ForwardBody
  PROVE  AnswerInvariant'
<1>0. req \in Requests /\ BodyBytes(req) \in Nat /\ Buffer \in Nat
  BY LengthFacts, BoundsAssumption DEF AnswerInvariant, TypeOK
<1>1. at = "forward" /\ UNCHANGED <<req, caller, heard, head, asked, slot, report>>
  BY DEF ForwardBody
<1>2. Endpoint' = Endpoint /\ Endpoint = "dedicated"
  BY <1>1, ReqKeeps DEF AnswerInvariant, RouteHolds
<1>3. /\ taken \in Seq(Int) /\ Len(taken) <= BodyBytes(req) /\ Len(taken) \in Nat
      /\ up \in Connections(req) /\ up.body \in Seq(Int) /\ Len(up.body) = Len(taken)
      /\ NoneStraddles => /\ \A i \in 1..Len(taken) : taken[i] = i
                          /\ \A i \in 1..Len(up.body) : up.body[i] = i
      /\ head.stray \in Int /\ (NoneStraddles => head.stray = 0)
  BY <1>1, <1>2 DEF AnswerInvariant, TypeOK, BodyHolds, HeadHolds, Connections, Heads
<1>4. CASE taken' = taken /\ up' = up /\ at' = "response" /\ (Remaining = 0 \/ caller.out # "open")
  <2>1. Len(taken) < BodyBytes(req) => caller.out # "open"
    BY <1>0, <1>3, <1>4 DEF Remaining
  <2>2. BodyHolds'
    BY <1>1, <1>2, <1>3, <1>4, <2>1 DEF AnswerInvariant, BodyHolds, Relaying
  <2>. QED BY <1>1, <1>2, <1>3, <1>4, <2>2, RelayKeeps DEF Relaying
<1>5. CASE taken' = taken /\ up' = up /\ at' = "touch"
  <2>1. BodyHolds'
    BY <1>1, <1>2, <1>3, <1>5 DEF AnswerInvariant, BodyHolds, Relaying
  <2>. QED BY <1>1, <1>2, <1>3, <1>5, <2>1, RelayKeeps DEF Relaying
<1>6. ASSUME NEW n \in 1..Min({Remaining, Buffer}),
             taken' = Stream(Len(taken) + n),
             Upstream(SubSeq(taken', Len(taken) + 1, Len(taken')), "forward")
      PROVE  AnswerInvariant'
  <2>. DEFINE more == SubSeq(taken', Len(taken) + 1, Len(taken'))
  <2>1. n \in Nat /\ n > 0 /\ Len(taken) + n <= BodyBytes(req)
    <3>1. Remaining \in Int /\ Buffer \in Int /\ Remaining = BodyBytes(req) - Len(taken)
      BY <1>0, <1>3 DEF Remaining
    <3>2. Min({Remaining, Buffer}) = IF Remaining <= Buffer THEN Remaining ELSE Buffer
      BY <3>1, MinOfTwo
    <3>. QED BY <1>0, <1>3, <3>1, <3>2
  <2>2. /\ taken' \in Seq(Int) /\ Len(taken') = Len(taken) + n
        /\ \A i \in 1..Len(taken') : taken'[i] = i - head.stray
    <3>1. Len(taken) + n \in Nat
      BY <1>3, <2>1
    <3>2. \A i \in 1..Len(taken) + n : i - head.stray \in Int
      BY <1>3
    <3>. QED BY <1>6, <3>1, <3>2 DEF Stream
  <2>3. NoneStraddles => \A i \in 1..Len(taken') : taken'[i] = i
    BY <1>3, <2>2
  <2>4. /\ more \in Seq(Int) /\ Len(more) = n
        /\ \A j \in 1..n : more[j] = taken'[Len(taken) + j]
    BY <1>3, <2>1, <2>2
  <2>5. CASE up' = [up EXCEPT !.body = @ \o more] /\ at' = "forward"
    <3>. HIDE DEF more
    <3>1. /\ up.body \o more \in Seq(Int) /\ Len(up.body \o more) = Len(taken')
          /\ \A i \in 1..Len(up.body) : (up.body \o more)[i] = up.body[i]
          /\ \A i \in Len(up.body)+1..Len(up.body) + n : (up.body \o more)[i] = more[i - Len(up.body)]
      BY <1>3, <2>2, <2>4, PassedOn
    <3>2. up' \in Connections(req) /\ up'.body = up.body \o more
      BY <1>3, <2>5, <3>1 DEF Connections
    <3>3. NoneStraddles => \A i \in 1..Len(taken') : (up.body \o more)[i] = i
      <4>. SUFFICES ASSUME NoneStraddles, NEW i \in 1..Len(taken') PROVE (up.body \o more)[i] = i
        OBVIOUS
      <4>1. CASE i \in 1..Len(up.body)
        BY <1>3, <3>1, <4>1
      <4>2. CASE i \in Len(up.body)+1..Len(up.body) + n
        <5>1. i - Len(up.body) \in 1..n /\ Len(taken) + (i - Len(up.body)) = i
          BY <1>3, <2>1, <4>2
        <5>. QED BY <2>3, <2>4, <3>1, <4>2, <5>1
      <4>3. Len(up.body) \in Nat /\ n \in Nat /\ Len(taken') = Len(up.body) + n
        BY <1>3, <2>1, <2>2
      <4>4. \A a, b \in Nat : \A k \in 1..a + b : k \in 1..a \/ k \in a + 1..a + b
        OBVIOUS
      <4>5. i \in 1..Len(up.body) \/ i \in Len(up.body)+1..Len(up.body) + n
        BY <4>3, <4>4
      <4>. QED BY <4>1, <4>2, <4>5
    <3>4. BodyHolds'
      BY <1>1, <1>2, <1>3, <2>1, <2>2, <2>3, <2>5, <3>1, <3>2, <3>3 DEF AnswerInvariant, BodyHolds, Relaying
    <3>. QED BY <1>1, <1>2, <2>1, <2>2, <2>5, <3>2, <3>4, RelayKeeps DEF Relaying
  <2>6. CASE at' = "touch" /\ up' = up
    <3>1. BodyHolds'
      BY <1>1, <1>2, <1>3, <2>1, <2>2, <2>3, <2>6 DEF AnswerInvariant, BodyHolds, Relaying
    <3>. QED BY <1>1, <1>2, <1>3, <2>1, <2>2, <2>6, <3>1, RelayKeeps DEF Relaying
  <2>. QED BY <1>6, <2>5, <2>6 DEF Upstream
<1>. QED BY <1>4, <1>5, <1>6 DEF ForwardBody

\* copy_response passes on a read, or ends.
LEMMA CopyResponseKeeps ==
  ASSUME AnswerInvariant, CopyResponse
  PROVE  AnswerInvariant'
<1>1. at = "response" /\ UNCHANGED <<req, head, taken, asked, slot, report>>
  BY DEF CopyResponse
<1>2. Endpoint' = Endpoint /\ Model' = Model /\ Wanted' = Wanted
  BY <1>1, ReqKeeps DEF Wanted
<1>3. CASE at' = "touch" /\ UNCHANGED <<up, heard, caller>>
  <2>1. BodyHolds'
    BY <1>1, <1>2, <1>3 DEF AnswerInvariant, BodyHolds, Relaying
  <2>2. up' \in Connections(req) /\ taken' \in Seq(Int) /\ Len(taken') <= BodyBytes(req)
    BY <1>1, <1>3 DEF AnswerInvariant, TypeOK
  <2>. QED BY <1>1, <1>3, <2>1, <2>2, RelayKeeps DEF Relaying
<1>4. CASE /\ Written /\ up' = [up EXCEPT !.ready = FALSE] /\ at' = at
           /\ heard' = IF caller.out = "gone" \/ "child" \in {heard[i] : i \in DOMAIN heard}
                       THEN heard ELSE Append(heard, "child")
  <2>1. caller' \in Callers(req) /\ caller'.out = caller.out
    <3>1. caller \in Callers(req)
      BY DEF AnswerInvariant, TypeOK
    <3>2. (caller.out = "gone") \in BOOLEAN
      BY Zenon
    <3>. QED BY <1>4, <3>1, <3>2 DEF Written, Callers
  <2>2. up' \in Connections(req) /\ up'.body = up.body
    BY <1>4 DEF AnswerInvariant, TypeOK, Connections
  <2>3. heard \in Seq(Words) /\ Len(heard) \in Nat /\ Len(heard) <= 2
    BY DEF AnswerInvariant, TypeOK, HeardHolds
  <2>4. /\ \A i \in 1..Len(heard) : heard[i] \in {"100", "child"}
        /\ \A i \in 1..Len(heard) : heard[i] = "100" => i = 1 /\ Expects(req) /\ Model
        /\ Len(heard) = 2 => heard[1] = "100"
    BY <1>1 DEF AnswerInvariant, HeardHolds, Relaying
  <2>5. "child" \in Words /\ "child" \notin Refusals /\ "100" \notin Refusals
    BY DEF Words, Refusals, ChildFaults, CauseOf
  <2>6. /\ heard' \in Seq(Words) /\ Len(heard') <= 2
        /\ \A i \in 1..Len(heard') : heard'[i] \in {"100", "child"}
        /\ \A i \in 1..Len(heard') : heard'[i] = "100" => i = 1 /\ Expects(req) /\ Model
        /\ Len(heard') = 2 => heard'[1] = "100"
    <3>1. CASE heard' = heard
      BY <2>3, <2>4, <3>1
    <3>2. CASE "child" \notin {heard[i] : i \in DOMAIN heard} /\ heard' = Append(heard, "child")
      <4>1. \A i \in 1..Len(heard) : heard[i] = "100" /\ i = 1
        BY <2>3, <2>4, <3>2
      <4>2. Len(heard) <= 1
        <5>1. Len(heard) = 2 => 2 \in 1..Len(heard)
          OBVIOUS
        <5>2. Len(heard) # 2
          BY <4>1, <5>1
        <5>3. Len(heard) \in Nat /\ Len(heard) <= 2
          BY <2>3
        <5>4. \A n \in Nat : n <= 2 /\ n # 2 => n <= 1
          OBVIOUS
        <5>. QED BY <5>2, <5>3, <5>4
      <4>3. heard' \in Seq(Words) /\ Len(heard') = Len(heard) + 1 /\ heard'[Len(heard')] = "child"
        BY <2>3, <2>5, <3>2
      <4>4. \A i \in 1..Len(heard) : heard'[i] = heard[i]
        BY <2>3, <3>2
      <4>5. Len(heard') \in Nat /\ Len(heard') = Len(heard) + 1 /\ Len(heard) \in Nat
        BY <2>3, <4>3
      <4>6. Len(heard') <= 2
        BY <4>2, <4>5
      <4>7. \A i \in 1..Len(heard') : i \in 1..Len(heard) \/ i = Len(heard')
        BY <4>5
      <4>8. ASSUME Len(heard') = 2 PROVE heard'[1] = "100"
        <5>1. 1 \in 1..Len(heard)
          BY <4>5, <4>8
        <5>. QED BY <4>1, <4>4, <5>1
      <4>9. /\ \A i \in 1..Len(heard') : heard'[i] \in {"100", "child"}
            /\ \A i \in 1..Len(heard') : heard'[i] = "100" => i = 1 /\ Expects(req) /\ Model
        BY <2>4, <4>3, <4>4, <4>7
      <4>. QED BY <4>3, <4>6, <4>8, <4>9
    <3>. QED BY <1>4, <3>1, <3>2
  <2>7. Heard' \subseteq {"100", "child"}
    BY <2>6 DEF Heard
  <2>8. Heard' \cap Refusals = {}
    BY <2>5, <2>7
  <2>9. RefusalIsDeserved'
    BY <2>8 DEF RefusalIsDeserved
  <2>10. SparedTheBody'
    <3>. SUFFICES ASSUME "100" \in Heard'
                  PROVE  /\ Expects(req) /\ heard'[1] = "100" /\ Len(heard') <= 2
                         /\ \A i \in 2..Len(heard') : heard'[i] # "100"
      BY <1>1, <2>8 DEF SparedTheBody
    <3>1. PICK i \in 1..Len(heard') : heard'[i] = "100"
      BY <2>6 DEF Heard
    <3>. QED BY <2>6, <3>1
  <2>11. TypeOK'
    BY <1>1, <1>4, <2>1, <2>2, <2>6 DEF AnswerInvariant, TypeOK
  <2>12. HeadHolds'
    BY <1>1, <1>4 DEF AnswerInvariant, HeadHolds, Deciding, Relaying
  <2>13. RouteHolds'
    BY <1>1, <1>2, <1>4 DEF AnswerInvariant, RouteHolds, Deciding, Relaying
  <2>14. BodyHolds'
    BY <1>1, <1>2, <1>4, <2>1, <2>2 DEF AnswerInvariant, BodyHolds, Relaying
  <2>15. HeardHolds'
    BY <1>1, <1>2, <1>4, <2>6 DEF HeardHolds, Deciding, Relaying
  <2>16. NoneStraddles => OnlyServableStartsAModel'
    BY <1>1, <1>2 DEF AnswerInvariant, OnlyServableStartsAModel
  <2>. QED BY <2>9, <2>10, <2>11, <2>12, <2>13, <2>14, <2>15, <2>16 DEF AnswerInvariant, NoneStraddles
<1>. QED BY <1>1, <1>3, <1>4 DEF CopyResponse

\* relay::run returns, and its child's slot is stamped.
LEMMA TouchKeeps ==
  ASSUME AnswerInvariant, Touch
  PROVE  AnswerInvariant'
<1>1. /\ at = "touch" /\ at' = "closed"
      /\ UNCHANGED <<req, caller, heard, head, taken, asked, slot, report>>
  BY DEF Touch
<1>2. Endpoint' = Endpoint /\ Model' = Model
  BY <1>1, ReqKeeps
<1>3. up' \in Connections(req) /\ up'.body = up.body
  BY DEF Touch, AnswerInvariant, TypeOK, Connections
<1>4. TypeOK'
  BY <1>1, <1>3 DEF AnswerInvariant, TypeOK
<1>5. HeadHolds'
  BY <1>1 DEF AnswerInvariant, HeadHolds, Deciding, Relaying
<1>6. RouteHolds'
  BY <1>1 DEF RouteHolds, Deciding, Relaying
<1>7. BodyHolds'
  BY <1>1, <1>2, <1>3 DEF AnswerInvariant, BodyHolds, Relaying
<1>8. HeardHolds'
  BY <1>1, <1>2 DEF AnswerInvariant, HeardHolds, Deciding, Relaying
<1>9. SparedTheBody' /\ (NoneStraddles => RefusalIsDeserved')
  BY <1>1, SameHeard
<1>10. NoneStraddles => OnlyServableStartsAModel'
  BY <1>1, <1>2 DEF AnswerInvariant, OnlyServableStartsAModel
<1>. QED BY <1>4, <1>5, <1>6, <1>7, <1>8, <1>9, <1>10 DEF AnswerInvariant, NoneStraddles

----------------------------------------------------------------------------
(* The theorems. *)

LEMMA NextKeeps == AnswerInvariant /\ [Next]_vars => AnswerInvariant'
<1>. SUFFICES ASSUME AnswerInvariant, [Next]_vars PROVE AnswerInvariant'
  OBVIOUS
<1>1. CASE Router
  BY <1>1, ReadLineKeeps, HeadRefusedKeeps, RefusedKeeps, OwnAnswerKeeps, CatalogueKeeps,
     RoutedKeeps, ReadBodyKeeps, LookupKeeps, NoChildKeeps, GotChildKeeps, ConnectKeeps,
     WriteBodyKeeps, ForwardBodyKeeps, CopyResponseKeeps, TouchKeeps DEF Router
<1>2. CASE Sends \/ Leave \/ Child \/ SlotChanges
  BY <1>2, SendLineKeeps, SendBodyKeeps, LeaveKeeps, ChildWritesKeeps, ChildClosesKeeps,
     SlotChangesKeeps DEF Sends, Child
<1>3. CASE UNCHANGED vars
  <2>. USE <1>3 DEF vars
  <2>1. Endpoint' = Endpoint /\ Model' = Model /\ Wanted' = Wanted
    BY ReqKeeps DEF Wanted
  <2>2. TypeOK' /\ HeadHolds'
    BY DEF AnswerInvariant, TypeOK, HeadHolds
  <2>3. RouteHolds' /\ BodyHolds' /\ HeardHolds'
    BY <2>1 DEF AnswerInvariant, RouteHolds, BodyHolds, HeardHolds
  <2>4. SparedTheBody' /\ (NoneStraddles => RefusalIsDeserved')
    BY SameHeard
  <2>5. NoneStraddles => OnlyServableStartsAModel'
    BY <2>1 DEF AnswerInvariant, OnlyServableStartsAModel
  <2>. QED BY <2>2, <2>3, <2>4, <2>5 DEF AnswerInvariant, NoneStraddles
<1>. QED BY <1>1, <1>2, <1>3 DEF Next

\* The invariant holds of every connection.
THEOREM InvariantHolds == Spec => []AnswerInvariant
  BY InitHolds, NextKeeps, PTL DEF Spec

\* The thread is nowhere but at the places answer::to and relay::run name, has
\* read no more than it may, and says nothing but the words of own.rs and
\* refusal.rs.
THEOREM TypeCorrect == Spec => []TypeOK
<1>1. AnswerInvariant => TypeOK
  BY DEF AnswerInvariant
<1>. QED BY <1>1, InvariantHolds, PTL

\* The interim answer comes first, once, to a caller who asked, and before no
\* refusal that the head alone called for.
THEOREM Spared == Spec => []SparedTheBody
<1>1. AnswerInvariant => SparedTheBody
  BY DEF AnswerInvariant
<1>. QED BY <1>1, InvariantHolds, PTL

\* Where no blank line straddles the bound on a head, every refusal names a
\* fault of the request, the way its caller left, or a failure of the child.
THEOREM RefusalsAreDeserved ==
  ASSUME NoneStraddles
  PROVE  Spec => []RefusalIsDeserved
<1>1. AnswerInvariant => RefusalIsDeserved
  BY DEF AnswerInvariant
<1>. QED BY <1>1, InvariantHolds, PTL

\* Where no blank line straddles the bound on a head, a child is asked for only
\* for a request nothing is wrong with.
THEOREM OnlyServable ==
  ASSUME NoneStraddles
  PROVE  Spec => []OnlyServableStartsAModel
<1>1. AnswerInvariant => OnlyServableStartsAModel
  BY DEF AnswerInvariant
<1>. QED BY <1>1, InvariantHolds, PTL

\* Where no blank line straddles the bound on a head, the child gets the body
\* from its first byte, in order, no more of it than was declared, and all of it
\* before the answer is read unless the caller stopped sending.
THEOREM BodyArrives ==
  ASSUME NoneStraddles
  PROVE  Spec => []BodyArrivesAsSent
<1>1. AnswerInvariant => BodyArrivesAsSent
  <2>. SUFFICES ASSUME AnswerInvariant PROVE BodyArrivesAsSent
    OBVIOUS
  <2>1. DOMAIN up.body = 1..Len(up.body)
    BY DEF AnswerInvariant, TypeOK, Connections
  <2>. QED BY <2>1 DEF AnswerInvariant, BodyHolds, BodyArrivesAsSent
<1>. QED BY <1>1, InvariantHolds, PTL
=============================================================================
