-------------------------------- MODULE Answer --------------------------------
(***************************************************************************)
(* One connection: the caller's socket, the thread that runs answer::to,   *)
(* and the socket to the child it relays to.  A request is the lines of a  *)
(* head and the bytes of a body.  The caller sends them one by one, may    *)
(* hold the body back until it is told to send it, and may stop sending or *)
(* hang up at any point.  How a child is obtained is the business of       *)
(* Slots: here the call returns a child or one of its failures.            *)
(***************************************************************************)
EXTENDS Integers, Sequences, FiniteSets, FiniteSetsExt

CONSTANTS
  Requests,   \* what callers may send, records as in RequestOK
  Known,      \* the identifiers the catalog carries
  MaxHead,    \* MAX_HEAD_BYTES
  MaxLines,   \* MAX_HEADERS, which counts the request line
  MaxBody,    \* MAX_BODY_BYTES
  Buffer      \* BUFFER

FieldNames == {"length", "badlength", "chunked", "expect", "host", "other", "no colon"}

\* The request line and its size, the header lines, how many bytes of body the
\* caller has, what they say as JSON (a model, or NotJson, or Nameless), and
\* whether the caller waits for the interim answer it asked for.
RequestOK(r) ==
  r \in [line : {"whole", "short", "unreadable"}, size : Nat, method : STRING,
         path : [segs : Seq(STRING), query : BOOLEAN],
         fields : Seq([name : FieldNames, bytes : Nat]),
         body : Nat, says : STRING, patient : BOOLEAN]

ASSUME RequestsAssumption == \A r \in Requests : RequestOK(r)

ASSUME BoundsAssumption ==
  MaxHead \in Nat /\ MaxLines \in Nat /\ MaxBody \in Nat /\ Buffer \in Nat \ {0}

NotJson == "not JSON"
Nameless == "no model"

VARIABLES
  req,      \* what this caller sends
  caller,   \* lines and bytes sent so far; out is open, shut (done sending) or gone
  heard,    \* what the caller was sent, in order
  at,       \* where the router's thread is
  head,     \* lines and bytes of head read so far
  taken,    \* the body bytes read so far, numbered as the caller has them
  asked,    \* whether a child was asked for
  up,       \* the connection to the child, and what was written to it
  slot,     \* what the slot of an entry holds, for the router's own answers
  report    \* what the catalogue says of that entry

vars == <<req, caller, heard, at, head, taken, asked, up, slot, report>>

---------------------------------------------------------------------------
\* What a head says: head::parse and Endpoint::of.

\* A path is split at its slashes: a trailing slash is a last empty segment.
Trimmed(segs) ==
  LET full == {i \in DOMAIN segs : segs[i] # ""}
  IN  IF full = {} THEN << >> ELSE SubSeq(segs, 1, Max(full))

\* What follows the model in a dedicated path is not empty.
Names(p) ==
  /\ Len(p.segs) >= 3
  /\ p.segs[2] # ""
  /\ Len(p.segs) > 3 \/ p.segs[3] # "" \/ p.query

EndpointOf(p) ==
  LET starts(s) == Len(p.segs) >= 2 /\ p.segs[1] = s
  IN  IF ~p.query /\ Trimmed(p.segs) = <<"models">> THEN "catalogue"
      ELSE IF ~p.query /\ Trimmed(p.segs) = <<"props">> THEN "properties"
      ELSE IF starts("models") THEN IF Names(p) THEN "dedicated" ELSE "none"
      ELSE IF Trimmed(p.segs) = <<"v1", "models">> THEN "listing"
      ELSE IF starts("v1") THEN "generic"
      ELSE "none"

Endpoint == EndpointOf(req.path)

\* What the child is asked for.
Suffix(p) ==
  IF EndpointOf(p) = "dedicated" THEN [p EXCEPT !.segs = SubSeq(@, 3, Len(@))] ELSE p

Own == {"listing", "catalogue", "properties"}

Allowed(endpoint) ==
  IF endpoint \in Own THEN {"GET", "HEAD", "OPTIONS"} ELSE {"GET", "POST", "OPTIONS"}

Has(r, name) == \E i \in DOMAIN r.fields : r.fields[i].name = name

\* Of several Content-Length headers the last one counts.
LengthAt(r) == {i \in DOMAIN r.fields : r.fields[i].name \in {"length", "badlength"}}

Length(r) ==
  IF LengthAt(r) = {} THEN "absent"
  ELSE IF r.fields[Max(LengthAt(r))].name = "length" THEN "given" ELSE "malformed"

BodyBytes(r) == IF Length(r) = "given" THEN r.fields[Max(LengthAt(r))].bytes ELSE 0

Expects(r) == Has(r, "expect")

\* The header lines the child is sent besides its own Host and Connection.
Rewrite(r) == SelectSeq(r.fields, LAMBDA f : f.name \notin {"host", "expect", "no colon"})

---------------------------------------------------------------------------
\* The head of the request ends with a blank line of two bytes.

BlankSize == 2
FieldSize == 2

LineCount(r) == Len(r.fields) + 1
LineSize(r, i) ==
  IF i = 1 THEN r.size ELSE IF i <= LineCount(r) THEN FieldSize ELSE BlankSize

\* What the body says to somebody who read these bytes of it.
Says(r, bytes) == IF bytes = [i \in 1..r.body |-> i] THEN r.says ELSE NotJson

NoUpstream == [state |-> "none", fields |-> << >>, path |-> << >>, body |-> << >>,
               ready |-> FALSE]

NoReport == [status |-> "none", held |-> "none"]

SlotStates == {"empty", "measured", "unread"}

Init ==
  /\ req \in Requests
  /\ caller = [lines |-> 0, body |-> 0, out |-> "open", lost |-> FALSE]
  /\ heard = << >>
  /\ at = "head"
  /\ head = [lines |-> 0, bytes |-> 0, stray |-> 0]
  /\ taken = << >>
  /\ asked = FALSE
  /\ up = NoUpstream
  /\ slot = "empty"
  /\ report = NoReport

---------------------------------------------------------------------------
\* The caller and the rest of the machine.

SendLine ==
  /\ caller.out = "open" /\ caller.lines <= LineCount(req)
  /\ caller' = [caller EXCEPT !.lines = @ + 1]
  /\ UNCHANGED <<req, heard, at, head, taken, asked, up, slot, report>>

Waiting == req.patient /\ Expects(req) /\ heard = << >>

SendBody ==
  /\ caller.out = "open" /\ caller.lines > LineCount(req)
  /\ caller.body < req.body /\ ~Waiting
  /\ caller' = [caller EXCEPT !.body = @ + 1]
  /\ UNCHANGED <<req, heard, at, head, taken, asked, up, slot, report>>

\* The caller shuts its sending side or closes the connection.
Leave ==
  /\ at # "closed"
  /\ \E o \in {"shut", "gone"} : caller.out \notin {o, "gone"} /\ caller' = [caller EXCEPT !.out = o]
  /\ UNCHANGED <<req, heard, at, head, taken, asked, up, slot, report>>

ChildWrites ==
  /\ up.state = "open" /\ ~up.ready
  /\ up' = [up EXCEPT !.ready = TRUE]
  /\ UNCHANGED <<req, caller, heard, at, head, taken, asked, slot, report>>

\* The child ends its answer, or dies.
ChildCloses ==
  /\ up.state = "open"
  /\ up' = [up EXCEPT !.state = "ended"]
  /\ UNCHANGED <<req, caller, heard, at, head, taken, asked, slot, report>>

\* Another thread loads or unloads the entry the catalogue is about to report.
SlotChanges ==
  /\ at \in {"loaded", "held"}
  /\ slot' \in SlotStates \ {slot}
  /\ UNCHANGED <<req, caller, heard, at, head, taken, asked, up, report>>

---------------------------------------------------------------------------
\* The router's thread.  What it writes to a caller that is gone is lost.

Say(what) == heard' = IF caller.out = "gone" THEN heard ELSE Append(heard, what)

\* A reply of the router's own is the last thing it does.
Reply(what) == Say(what) /\ at' = "closed"

\* A write that fails: once the caller is gone it may, and the second one does.
WriteFails == caller.out = "gone"
WriteWorks == ~caller.lost
Written == caller' = [caller EXCEPT !.lost = (caller.out = "gone")]

TooManyLines_ByOne == head.lines > MaxLines

TooManyLines == head.lines >= MaxLines

\* head::read, one line a pass.
ReadLine ==
  /\ at = "head" /\ head.bytes < MaxHead /\ caller.lines > head.lines
  /\ LET i == head.lines + 1
         count == Min({LineSize(req, i), MaxHead - head.bytes})
     IN  IF i = 1 /\ req.line = "unreadable"
         THEN Reply("MalformedRequest") /\ UNCHANGED head
         ELSE IF i > LineCount(req)
         THEN /\ at' = "route"
              /\ head' = [head EXCEPT !.bytes = @ + count, !.stray = BlankSize - count]
              /\ UNCHANGED heard
         ELSE IF TooManyLines
         THEN Reply("HeadTooLarge") /\ UNCHANGED head
         ELSE /\ head' = [head EXCEPT !.lines = i, !.bytes = @ + count]
              /\ UNCHANGED <<at, heard>>
  /\ UNCHANGED <<req, caller, taken, asked, up, slot, report>>

\* The bound is reached, or the connection ends before the blank line.
HeadRefused ==
  /\ at = "head"
  /\ \/ head.bytes >= MaxHead /\ Reply("HeadTooLarge")
     \/ /\ head.bytes < MaxHead /\ caller.lines = head.lines /\ caller.out # "open"
        /\ Reply("MalformedRequest")
  /\ UNCHANGED <<req, caller, head, taken, asked, up, slot, report>>

DeclaredBody_ZeroIsNone(r) ==
  IF BodyBytes(r) = 0 THEN "LengthRequired"
  ELSE IF BodyBytes(r) > MaxBody THEN "BodyTooLarge" ELSE "none"

\* declared_body: what the generic endpoint refuses before it reads the body.
DeclaredBody(r) ==
  IF Length(r) # "given" THEN "LengthRequired"
  ELSE IF BodyBytes(r) > MaxBody THEN "BodyTooLarge" ELSE "none"

\* framing: what no endpoint can read.
Framing(r) ==
  IF Has(r, "chunked") THEN "ChunkedBody"
  ELSE IF Length(r) = "malformed" THEN "MalformedLength" ELSE "none"

Unrouted_FramingForgotten(r) ==
  LET e == EndpointOf(r.path)
  IN  IF r.line = "short" THEN "MalformedRequest"
      ELSE IF e = "none" THEN "PathNotFound"
      ELSE IF r.method \notin Allowed(e) THEN "MethodNotAllowed"
      ELSE IF e = "generic" THEN DeclaredBody(r)
      ELSE "none"

\* What is refused by the head alone, in the order it is looked at.
Unrouted(r) ==
  LET e == EndpointOf(r.path)
  IN  IF r.line = "short" THEN "MalformedRequest"
      ELSE IF e = "none" THEN "PathNotFound"
      ELSE IF r.method = "OPTIONS" THEN "none"
      ELSE IF r.method \notin Allowed(e) THEN "MethodNotAllowed"
      ELSE IF Framing(r) # "none" THEN Framing(r)
      ELSE IF e = "generic" THEN DeclaredBody(r)
      ELSE "none"

\* The model the path or the body names.
Wanted == IF Endpoint = "dedicated" THEN req.path.segs[2] ELSE Says(req, taken)

Refused_AfterContinue ==
  /\ at = "route" /\ Unrouted(req) # "none"
  /\ heard' = (IF Expects(req) THEN <<"100">> ELSE << >>) \o <<Unrouted(req)>> /\ at' = "closed"
  /\ UNCHANGED <<req, caller, head, taken, asked, up, slot, report>>

Refused ==
  /\ at = "route" /\ Unrouted(req) # "none"
  /\ Reply(Unrouted(req))
  /\ UNCHANGED <<req, caller, head, taken, asked, up, slot, report>>

\* A preflight, and the answers that need no look at a slot.
OwnAnswer ==
  /\ at = "route" /\ Unrouted(req) = "none"
  /\ \/ req.method = "OPTIONS" /\ Reply("preflight")
     \/ req.method # "OPTIONS" /\ Endpoint \in {"listing", "properties"} /\ Reply("own")
  /\ UNCHANGED <<req, caller, head, taken, asked, up, slot, report>>

\* The catalogue walks the slots twice: once for what is loaded, once for what
\* it was measured to hold.
Catalogue ==
  /\ \/ /\ at = "route" /\ Unrouted(req) = "none"
        /\ req.method # "OPTIONS" /\ Endpoint = "catalogue"
        /\ at' = "loaded" /\ UNCHANGED <<heard, report>>
     \/ /\ at = "loaded" /\ at' = "held"
        /\ report' = [report EXCEPT !.status = IF slot = "empty" THEN "unloaded" ELSE "loaded"]
        /\ UNCHANGED heard
     \/ /\ at = "held"
        /\ report' = [report EXCEPT !.held = IF slot = "measured" THEN "mib" ELSE "null"]
        /\ Reply("own")
  /\ UNCHANGED <<req, caller, head, taken, asked, up, slot>>

Model == Endpoint \in {"dedicated", "generic"} /\ req.method # "OPTIONS"

\* The interim answer, where one is due; a caller that is gone ends it.
Proceed(due, next) ==
  \/ due /\ WriteWorks /\ Say("100") /\ Written /\ at' = next
  \/ due /\ WriteFails /\ at' = "closed" /\ UNCHANGED <<heard, caller>>
  \/ ~due /\ at' = next /\ UNCHANGED <<heard, caller>>

Routed ==
  /\ at = "route" /\ Unrouted(req) = "none" /\ Model
  /\ Proceed(Endpoint = "generic" /\ Expects(req), IF Endpoint = "generic" THEN "body" ELSE "lookup")
  /\ UNCHANGED <<req, head, taken, asked, up, slot, report>>

\* The bytes on the caller's socket: what the head left behind, then the body.
Stream(n) == [k \in 1..n |-> k - head.stray]
Available == head.stray + caller.body

\* body::read: the declared length exactly, or a refusal.
ReadBody ==
  /\ at = "body"
  /\ \/ /\ Available >= BodyBytes(req)
        /\ taken' = Stream(BodyBytes(req))
        /\ CASE Says(req, taken') = NotJson -> Reply("BodyNotJson")
             [] Says(req, taken') = Nameless -> Reply("ModelMissing")
             [] OTHER -> at' = "lookup" /\ UNCHANGED heard
     \/ /\ Available < BodyBytes(req) /\ caller.out # "open"
        /\ Reply("BodyIncomplete") /\ UNCHANGED taken
  /\ UNCHANGED <<req, caller, head, asked, up, slot, report>>

Lookup ==
  /\ at = "lookup"
  /\ \/ Wanted \in Known /\ at' = "child" /\ UNCHANGED heard
     \/ Wanted \notin Known /\ Reply("ModelNotFound")
  /\ UNCHANGED <<req, caller, head, taken, asked, up, slot, report>>

\* What each failure of Shared::child is answered with.
CauseOf == [NotReady |-> "StartupTimeout", Unavailable |-> "ChildUnavailable",
            Contended |-> "RoomContended", Refused |-> "NoRoom"]

NoChild ==
  /\ at = "child"
  /\ asked' = TRUE
  /\ \E f \in DOMAIN CauseOf : Reply(CauseOf[f])
  /\ UNCHANGED <<req, caller, head, taken, up, slot, report>>

GotChild_NoContinue ==
  /\ at = "child"
  /\ asked' = TRUE
  /\ Proceed(FALSE, "connect")
  /\ UNCHANGED <<req, head, taken, up, slot, report>>

GotChild ==
  /\ at = "child"
  /\ asked' = TRUE
  /\ Proceed(Endpoint = "dedicated" /\ Expects(req) /\ BodyBytes(req) > 0, "connect")
  /\ UNCHANGED <<req, head, taken, up, slot, report>>

\* relay::run up to the body.
Connect ==
  /\ at = "connect"
  /\ \/ at' = "touch" /\ UNCHANGED up
     \/ /\ up' = [up EXCEPT !.state = "open", !.fields = Rewrite(req), !.path = Suffix(req.path).segs]
        /\ at' = IF Endpoint = "generic" THEN "buffered" ELSE "forward"
  /\ UNCHANGED <<req, caller, heard, head, taken, asked, slot, report>>

\* A write to a child that has closed fails, or is lost.
Upstream(bytes, next) ==
  \/ up' = [up EXCEPT !.body = @ \o bytes] /\ at' = next
  \/ up.state = "ended" /\ at' = "touch" /\ UNCHANGED up

WriteBody ==
  /\ at = "buffered"
  /\ Upstream(taken, "response")
  /\ UNCHANGED <<req, caller, heard, head, taken, asked, slot, report>>

\* forward_body, one read a pass.
Remaining == BodyBytes(req) - Len(taken)

ForwardBody_WholeBuffers ==
  /\ at = "forward"
  /\ IF Remaining <= 0 THEN at' = "response" /\ UNCHANGED <<taken, up>>
     ELSE \/ \E n \in 1..Buffer :
               /\ Len(taken) + n <= Available
               /\ taken' = Stream(Len(taken) + n)
               /\ Upstream(SubSeq(taken', Len(taken) + 1, Len(taken')), "forward")
          \/ /\ Available = Len(taken) /\ caller.out # "open"
             /\ at' = "response" /\ UNCHANGED <<taken, up>>
  /\ UNCHANGED <<req, caller, heard, head, asked, slot, report>>

ForwardBody ==
  /\ at = "forward"
  /\ IF Remaining = 0 THEN at' = "response" /\ UNCHANGED <<taken, up>>
     ELSE \/ \E n \in 1..Min({Remaining, Buffer}) :
               /\ Len(taken) + n <= Available
               /\ taken' = Stream(Len(taken) + n)
               /\ Upstream(SubSeq(taken', Len(taken) + 1, Len(taken')), "forward")
          \/ /\ Available = Len(taken) /\ caller.out # "open"
             /\ at' = "response" /\ UNCHANGED <<taken, up>>
          \/ caller.out = "gone" /\ at' = "touch" /\ UNCHANGED <<taken, up>>
  /\ UNCHANGED <<req, caller, heard, head, asked, slot, report>>

CopyResponse_IgnoresTheCaller ==
  /\ at = "response"
  /\ \/ /\ up.ready /\ up' = [up EXCEPT !.ready = FALSE]
        /\ heard' = IF caller.out = "gone" \/ Len(heard) > 1 THEN heard ELSE Append(heard, "child")
        /\ UNCHANGED <<at, caller>>
     \/ /\ up.state = "ended"
        /\ at' = "touch" /\ UNCHANGED <<up, heard, caller>>
  /\ UNCHANGED <<req, head, taken, asked, slot, report>>

\* copy_response, one read a pass.  A broken upstream may lose what it had sent.
CopyResponse ==
  /\ at = "response"
  /\ \/ /\ up.ready /\ WriteWorks /\ Written
        /\ up' = [up EXCEPT !.ready = FALSE]
        /\ heard' = IF caller.out = "gone" \/ "child" \in {heard[i] : i \in DOMAIN heard}
                    THEN heard ELSE Append(heard, "child")
        /\ UNCHANGED at
     \/ /\ up.ready /\ WriteFails
        /\ at' = "touch" /\ UNCHANGED <<up, heard, caller>>
     \/ /\ up.state = "ended"
        /\ at' = "touch" /\ UNCHANGED <<up, heard, caller>>
  /\ UNCHANGED <<req, head, taken, asked, slot, report>>

\* On every way out of the relay: the upstream connection is dropped, the slot
\* is stamped, and the child's handle goes.
Touch ==
  /\ at = "touch"
  /\ at' = "closed"
  /\ up' = [up EXCEPT !.state = IF @ = "none" THEN "none" ELSE "closed", !.ready = FALSE]
  /\ UNCHANGED <<req, caller, heard, head, taken, asked, slot, report>>

Router ==
  \/ ReadLine \/ HeadRefused \/ Refused \/ OwnAnswer \/ Catalogue \/ Routed
  \/ ReadBody \/ Lookup \/ NoChild \/ GotChild
  \/ Connect \/ WriteBody \/ ForwardBody \/ CopyResponse \/ Touch

Sends == SendLine \/ SendBody

Child == ChildWrites \/ ChildCloses

Next == Router \/ Sends \/ Leave \/ Child \/ SlotChanges

\* What the child was told to expect, by the first length it was sent.
Told ==
  LET at1 == {i \in DOMAIN up.fields : up.fields[i].name \in {"length", "badlength"}}
  IN  IF at1 = {} THEN 0
      ELSE IF up.fields[Min(at1)].name = "length" THEN up.fields[Min(at1)].bytes
      ELSE Len(up.body) + 1

\* A child with its whole request produces an answer, or closes.
Answers == Len(up.body) >= Told /\ Child

Spec ==
  /\ Init /\ [][Next]_vars
  /\ WF_vars(Router) /\ WF_vars(Sends) /\ WF_vars(Answers)

---------------------------------------------------------------------------
\* Properties.

ChildFaults == {CauseOf[f] : f \in DOMAIN CauseOf}

Refusals == {"MalformedRequest", "HeadTooLarge", "PathNotFound", "MethodNotAllowed",
             "ChunkedBody", "MalformedLength", "LengthRequired", "BodyTooLarge",
             "BodyIncomplete", "BodyNotJson", "ModelMissing", "ModelNotFound"} \cup ChildFaults

\* All a caller can be told.
Words == {"100", "child", "own", "preflight"} \cup Refusals

Callers(r) ==
  [lines : 0..LineCount(r) + 1, body : 0..r.body, out : {"open", "shut", "gone"}, lost : BOOLEAN]

Heads == [lines : 0..MaxLines, bytes : 0..MaxHead, stray : {0, 1}]

Connections(r) ==
  [state : {"none", "open", "ended", "closed"}, fields : {<< >>, Rewrite(r)},
   path : {<< >>, Suffix(r.path).segs}, body : Seq(Int), ready : BOOLEAN]

Reports == [status : {"none", "loaded", "unloaded"}, held : {"none", "mib", "null"}]

\* The code relies on these positions and words and no others.
TypeOK ==
  /\ req \in Requests
  /\ caller \in Callers(req)
  /\ heard \in Seq(Words)
  /\ at \in {"head", "route", "loaded", "held", "body", "lookup", "child", "connect",
             "buffered", "forward", "response", "touch", "closed"}
  /\ head \in Heads
  /\ taken \in Seq(Int) /\ Len(taken) <= BodyBytes(req)
  /\ asked \in BOOLEAN
  /\ up \in Connections(req)
  /\ slot \in SlotStates
  /\ report \in Reports

HeadBytes(r) == r.size + FieldSize * Len(r.fields) + BlankSize

\* Everything that is wrong with a request, in no order.
Faults(r) ==
  LET e == EndpointOf(r.path)
      body == e = "generic" /\ r.method \in Allowed(e) \ {"OPTIONS"}
      wants == IF e = "dedicated" THEN r.path.segs[2] ELSE r.says
      when(fault, holds) == IF holds THEN {fault} ELSE {}
  IN  UNION {
        when("MalformedRequest", r.line # "whole"),
        when("HeadTooLarge", LineCount(r) > MaxLines \/ HeadBytes(r) > MaxHead),
        when("PathNotFound", e = "none"),
        when("MethodNotAllowed", r.method \notin Allowed(e)),
        when("ChunkedBody", Has(r, "chunked")),
        when("MalformedLength", Length(r) = "malformed"),
        when("LengthRequired", body /\ Length(r) = "absent"),
        when("BodyTooLarge", body /\ BodyBytes(r) > MaxBody),
        when("BodyNotJson", body /\ (r.says = NotJson \/ BodyBytes(r) # r.body)),
        when("ModelMissing", body /\ r.says = Nameless),
        when("ModelNotFound", e \notin Own /\ wants \notin Known)}

\* What a caller brought about by leaving in the middle.
Abandoned ==
  {c \in {"MalformedRequest", "BodyIncomplete"} : caller.out # "open"}

Heard == {heard[i] : i \in DOMAIN heard}

\* A refusal names something that is wrong: with the request as it was meant,
\* with how its caller left, or with the child once one was asked for (answer::to,
\* whose early returns are the only source of a status).
RefusalIsDeserved ==
  \A c \in Heard \cap Refusals :
    c \in Faults(req) \cup Abandoned \cup (IF asked THEN ChildFaults ELSE {})

\* Nothing is loaded for a request that cannot be served: a child is asked for
\* only when the method, the framing, the length and the model are all in order,
\* whatever order they are looked at in (answer.rs:43 and answer.rs:60).
OnlyServableStartsAModel ==
  asked => Faults(req) = {} /\ Endpoint \notin Own /\ req.method # "OPTIONS"

\* What the child is sent of the body is what the caller sent of it, from its
\* first byte, no more than it declared, and all of it before the answer is
\* read unless the caller stopped sending or the child closed (relay::run).
BodyArrivesAsSent ==
  /\ \A i \in DOMAIN up.body : up.body[i] = i
  /\ Len(up.body) <= BodyBytes(req)
  /\ at = "response" /\ Len(up.body) < BodyBytes(req) => caller.out # "open"

\* The interim answer comes first and once, to a caller who asked, and never
\* before a refusal that did not need the body: a caller is spared sending what
\* is refused for its head or its length (answer.rs:95), or, where the path names
\* the model, for want of a child (answer.rs:128).
SparedTheBody ==
  "100" \in Heard =>
    /\ Expects(req) /\ heard[1] = "100" /\ Len(heard) <= 2
    /\ \A i \in 2..Len(heard) : heard[i] # "100"
    /\ Heard \cap Refusals # {} =>
         /\ Endpoint = "generic"
         /\ Heard \cap Refusals \subseteq
              {"BodyIncomplete", "BodyNotJson", "ModelMissing", "ModelNotFound"} \cup ChildFaults

---------------------------------------------------------------------------
\* The inductive invariant behind these: what the thread knows where it is.

Deciding == {"loaded", "held", "body", "lookup", "child"}
Relaying == {"connect", "buffered", "forward", "response", "touch"}

\* No request has a blank line that ends one byte past the bound on a head.
NoneStraddles == \A r \in Requests : HeadBytes(r) # MaxHead + 1

\* The head is counted line by line, and read to its blank line before it is used.
HeadHolds ==
  /\ head.lines > 0 => req.line # "unreadable"
  /\ head.lines <= LineCount(req)
  /\ at = "head" =>
       IF head.lines = 0 THEN head.bytes = 0
       ELSE head.bytes = Min({MaxHead, req.size + FieldSize * (head.lines - 1)})
  /\ at \in {"route"} \cup Deciding \cup Relaying =>
       head.lines = LineCount(req) /\ HeadBytes(req) <= MaxHead + 1
  /\ NoneStraddles => head.stray = 0

\* What was found in order on the way here.
RouteHolds ==
  /\ at \in Deciding \cup Relaying => Unrouted(req) = "none" /\ req.method # "OPTIONS"
  /\ at \in {"loaded", "held"} => Endpoint = "catalogue"
  /\ at \in {"body", "lookup", "child"} \cup Relaying => Endpoint \in {"dedicated", "generic"}
  /\ at \in {"body", "buffered"} => Endpoint = "generic"
  /\ at = "forward" => Endpoint = "dedicated"
  /\ at \in {"lookup", "child"} \cup Relaying /\ Endpoint = "generic" =>
       Says(req, taken) \notin {NotJson, Nameless}
  /\ at \in {"child"} \cup Relaying => Wanted \in Known
  /\ asked => at \in Relaying \cup {"closed"}

\* The body as far as it was read and passed on.
BodyHolds ==
  /\ at \in {"head", "route", "loaded", "held", "body"} => taken = << >>
  /\ at \in {"lookup", "child", "connect"} /\ Endpoint = "dedicated" => taken = << >>
  /\ at \in {"lookup", "child"} \cup Relaying /\ Endpoint = "generic" => Len(taken) = BodyBytes(req)
  /\ at \notin {"forward", "response", "touch", "closed"} => up.body = << >>
  /\ at \in {"forward", "response"} => Len(up.body) = Len(taken)
  /\ at = "response" /\ Len(taken) < BodyBytes(req) => caller.out # "open"
  /\ Len(up.body) <= BodyBytes(req)
  /\ NoneStraddles =>
       /\ \A i \in 1..Len(taken) : taken[i] = i
       /\ \A i \in 1..Len(up.body) : up.body[i] = i

\* What the caller can have heard by now.
HeardHolds ==
  /\ Len(heard) <= 2
  /\ \A i \in 1..Len(heard) : heard[i] = "100" => i = 1 /\ Expects(req) /\ Model
  /\ Len(heard) = 2 => heard[1] = "100"
  /\ at \in {"head", "route", "loaded", "held"} => heard = << >>
  /\ at \in Deciding => \A i \in 1..Len(heard) : heard[i] = "100" /\ Endpoint = "generic"
  /\ at \in Relaying => \A i \in 1..Len(heard) : heard[i] \in {"100", "child"}
  /\ at \in Deciding \cup {"connect", "buffered", "forward"} => Len(heard) <= 1

AnswerInvariant ==
  /\ TypeOK /\ HeadHolds /\ RouteHolds /\ BodyHolds /\ HeardHolds
  /\ SparedTheBody
  /\ NoneStraddles => RefusalIsDeserved /\ OnlyServableStartsAModel

---------------------------------------------------------------------------
\* Liveness.

\* A caller that has what it declares, and says it once.
Honest ==
  /\ req.line = "whole"
  /\ req.body >= BodyBytes(req)
  /\ Cardinality(LengthAt(req)) <= 1

\* Nobody waits for somebody who waits for them: a caller that sends what it
\* declares, holding its body back until told where it asked to be, is answered
\* or let go, whatever the endpoint and whatever it declares (answer.rs:95,
\* answer.rs:134, and framing, which refuses a length the child would wait on).
HonestCallerIsAnswered ==
  Honest ~> (Heard \ {"100"} # {} \/ at = "closed" \/ caller.out # "open")

\* A caller that hangs up does not leave a model producing an answer nobody
\* reads: the relay ends and the upstream connection is closed, although the
\* child might never close it (relay.rs:61).
HangUpStopsTheModel ==
  (caller.out = "gone" /\ up.state = "open" /\ Len(up.body) >= Told) ~> (at = "closed")
===============================================================================
