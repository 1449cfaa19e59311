---------------------------- MODULE HttpMessages ----------------------------
(***************************************************************************)
(* One connection at the level of bytes: http_recv_message, the parsers    *)
(* and http_send_response of utils/http.c, as worker_callback calls them   *)
(* on a client's socket and, with expect_body FALSE for the answer to a    *)
(* HEAD request, handle_proxy on a backend's.                              *)
(*                                                                         *)
(* The sender has a script of messages.  A byte is known by its message    *)
(* and its place in it; what is in that place (a character of the first    *)
(* line, a whole header field, the blank line, a byte of the body) is all  *)
(* that the code looks at, and takes one unit of buffer space.             *)
(*                                                                         *)
(* recv on the client's socket does not block; on a backend's it blocks    *)
(* until a timeout.  Both end the loop of http_recv_message when nothing   *)
(* is there to be received, so they are one action.                        *)
(***************************************************************************)
EXTENDS Integers, SequencesExt

CONSTANTS Messages,    \* the messages that scripts are made of
          MaxMessages, \* the length of a script
          InitCap,     \* the buffer's first size: 4096
          Reserve,     \* the buffer is doubled when less is left: 1024
          MaxHeaders,  \* HTTP_MAX_HEADERS: 32
          Lengths,     \* the lengths of responses
          SendBuffer   \* what the kernel takes of a response nobody reads

(* text: the length of the first line; fields: header fields other than    *)
(* Content-Length, which comes last, "exact" as http_recv_message spells   *)
(* it, in "other" case, or not at all; blank: the line that ends them;     *)
(* announced: its value; body: the bytes that follow; expect_body.         *)
MessageType == [text : Nat \ {0}, fields : Nat, length : {"exact", "other", "none"},
                blank : {"crlf", "lf"}, announced : Nat, body : Nat,
                expect_body : BOOLEAN]

ASSUME MessagesAssumption ==
    /\ Messages \subseteq MessageType
    /\ MaxMessages \in Nat
    /\ InitCap \in Nat \ {0}
    /\ Reserve \in 1 .. InitCap
    /\ MaxHeaders \in Nat
    /\ Lengths \subseteq Nat \ {0} /\ Lengths # {}
    /\ SendBuffer \in Nat \ {0}

VARIABLES patient,        \* the sender waits for its answers
          script,         \* the messages of this behaviour
          wire,           \* the bytes that the sender has not sent yet
          inbox,          \* the bytes that wait in the kernel for recv
          eof,            \* the sender has closed its side
          pc,             \* where worker_callback is
          buf,            \* buf[0 .. len-1] of http_recv_message
          cap,            \* cap
          body_start,     \* the bytes before body_start; 0 is NULL
          stale,          \* body_start points into a block that was moved
          content_length, \* content_length
          result,         \* what http_request_parse has made of buf
          outbox,         \* bytes of responses the sender has not read
          taken,          \* bytes it has read since its last message
          due,            \* the length of the last response
          sent            \* what the last send has returned

peer == <<patient, script, wire, eof>>
loop == <<buf, cap, body_start, stale, content_length>>
reply == <<outbox, taken, due, sent>>
vars == <<peer, inbox, pc, loop, result, reply>>

-----------------------------------------------------------------------------
(* Messages as sequences of bytes.                                         *)

HeadLen(m) == m.text + 1 + m.fields + (IF m.length = "none" THEN 0 ELSE 1) + 1

Bytes(n) == [p \in 1 .. HeadLen(script[n]) + script[n].body |->
                [msg |-> n, at |-> p]]

Kind(b) == LET m == script[b.msg]
           IN  CASE b.at <= m.text                        -> "text"
                 [] b.at = m.text + 1                     -> "newline"
                 [] b.at - (m.text + 1) \in 1 .. m.fields -> "field"
                 [] b.at > HeadLen(m)                     -> "body"
                 [] b.at = HeadLen(m)                     -> m.blank
                 [] OTHER                                 -> m.length

BodyOf(n) == SubSeq(Bytes(n), HeadLen(script[n]) + 1, Len(Bytes(n)))

Stream == LET upto[n \in 0 .. Len(script)] ==
                  IF n = 0 THEN <<>> ELSE upto[n-1] \o Bytes(n)
          IN  upto[Len(script)]

(* The places in s of bytes of these kinds, and the first one; 0 if none. *)
Places(s, kinds) == {p \in DOMAIN s : Kind(s[p]) \in kinds}
Earliest(places) == IF places = {} THEN 0 ELSE Min(places)

NoResult == [outcome |-> "none", msg |-> 0, body |-> <<>>]

(* A backend's connection carries one message.  What follows a request     *)
(* that announces a longer body than it brings would be its body, not      *)
(* another request.                                                        *)
Delimited(m) == m.expect_body /\ (m.length = "none" \/ m.announced <= m.body)

Init == /\ patient \in BOOLEAN
        /\ script \in UNION {[1 .. k -> Messages] : k \in 1 .. MaxMessages}
        /\ Len(script) > 1 => \A n \in DOMAIN script : Delimited(script[n])
        /\ wire = Stream
        /\ inbox = <<>>
        /\ eof = FALSE
        /\ pc = "wait"
        /\ buf = <<>> /\ cap = InitCap
        /\ body_start = 0 /\ stale = FALSE /\ content_length = 0
        /\ result = NoResult
        /\ outbox = 0 /\ taken = 1 /\ due = 1 /\ sent = 0

-----------------------------------------------------------------------------
(* Mutated forms: each is an operation below with one mistake in it, kept  *)
(* to show that the properties can tell the difference.  No specification  *)
(* uses them.                                                              *)

(* The buffer is doubled when it has overflowed. *)
MustGrowLate(len) == cap < len

(* expect_body is not looked at. *)
AnnouncedAlways(s, end) ==
    LET at == Earliest({p \in Places(s, {"exact"}) : p < end})
    IN  IF at # 0 THEN script[s[at].msg].announced ELSE 0

(* The body is all that is there. *)
BodyAvailable(s, start, length) == SubSeq(s, start + 1, Len(s))

(* strcmp in http_get_header. *)
ParsedLengthExact(s, end) ==
    LET known == {p \in Places(s, {"field", "exact", "other"}) : p < end}
        found == {p \in known \cap Places(s, {"exact"}) :
                     Cardinality({q \in known : q <= p}) <= MaxHeaders}
    IN  IF found = {} THEN 0 ELSE script[s[Max(found)].msg].announced

(* The byte behind the blank line is skipped. *)
BodyStartPast(s) == IF Places(s, {"crlf"}) = {} THEN 0 ELSE Min(Places(s, {"crlf"})) + 1

(* EAGAIN is taken for a reason to try again. *)
AfterDryRetry == IF buf # <<>> /\ eof THEN "parse" ELSE IF eof THEN "closed" ELSE "recv"

-----------------------------------------------------------------------------
(* http_recv_message.                                                      *)

(* epoll reports the socket; worker_callback starts with a new buffer. *)
Readable == /\ pc = "wait"
            /\ inbox # <<>> \/ eof
            /\ pc' = "recv"
            /\ buf' = <<>> /\ cap' = InitCap
            /\ body_start' = 0 /\ stale' = FALSE /\ content_length' = 0
            /\ UNCHANGED <<peer, inbox, result, reply>>

(* Behind the first CRLF CRLF. *)
BodyStart(s) == Earliest(Places(s, {"crlf"}))

(* The value behind the first "Content-Length:" of the head. *)
Announced(s, end) ==
    LET at == Earliest({p \in Places(s, {"exact"}) : p < end})
    IN  IF at # 0 /\ script[s[at].msg].expect_body
        THEN script[s[at].msg].announced
        ELSE 0

MustGrow(len) == cap - len < Reserve

Received == Min({Len(inbox), cap - Len(buf)})

(* One turn of the loop in which recv returns something.  A body_start     *)
(* that realloc has left behind makes the body look longer than it is,     *)
(* never shorter: the difference wraps, or grows by the distance of the    *)
(* two blocks, which can be too little to matter.                          *)
Recv ==
    LET n == Received
        s == buf \o SubSeq(inbox, 1, n)
        start == IF body_start # 0 THEN body_start ELSE BodyStart(s)
        length == IF body_start = 0 /\ start # 0 THEN Announced(s, start)
                                                 ELSE content_length
    IN  /\ pc = "recv"
        /\ n > 0
        /\ buf' = s
        /\ inbox' = SubSeq(inbox, n + 1, Len(inbox))
        /\ body_start' = start
        /\ content_length' = length
        /\ \E complete \in {start # 0 /\ Len(s) - start >= length}
                             \cup (IF stale THEN {TRUE} ELSE {}) :
             \/ /\ complete
                /\ pc' = "parse"
                /\ UNCHANGED <<cap, stale>>
             \/ /\ ~complete
                /\ pc' = "recv"
                /\ cap' = IF MustGrow(Len(s)) THEN 2 * cap ELSE cap
                /\ stale' \in IF MustGrow(Len(s)) /\ start # 0
                              THEN {stale, TRUE} ELSE {stale}
        /\ UNCHANGED <<peer, result, reply>>

(* recv returns 0 or -1.  Without anything received the client is removed. *)
AfterDry == IF buf = <<>> THEN "closed" ELSE "parse"

RecvDry == /\ pc = "recv"
           /\ Received = 0
           /\ pc' = AfterDry
           /\ UNCHANGED <<peer, inbox, loop, result, reply>>

-----------------------------------------------------------------------------
(* http_request_parse.                                                     *)

(* http_first_line; everything but text and body ends a line. *)
FirstLineEnd(s) ==
    Earliest(Places(s, {"newline", "field", "exact", "other", "crlf", "lf"}))

(* http_parse_headers_and_body: the head ends at CRLF CRLF or LF LF, which *)
(* it looks for behind the newline of the first line.  A blank line next   *)
(* to that newline is missed, and the head goes on into what follows; ... *)
HeadEnd(s) == Earliest({p \in Places(s, {"crlf", "lf"}) : p > FirstLineEnd(s) + 1})

(* ... http_set_header keeps its first fields, in which http_get_header    *)
(* finds Content-Length in any case, ... *)
ParsedLength(s, end) ==
    LET known == {p \in Places(s, {"field", "exact", "other"}) : p < end}
        found == {p \in known \cap Places(s, {"exact", "other"}) :
                     Cardinality({q \in known : q <= p}) <= MaxHeaders}
    IN  IF found = {} THEN 0 ELSE script[s[Max(found)].msg].announced

(* ... and the body is what is there of it. *)
ParsedBody(s, start, length) ==
    SubSeq(s, start + 1, start + Min({length, Len(s) - start}))

(* No newline: 408.  A first line that is not the whole line somebody sent *)
(* has no method, path and version in their places: 400, 501 or 505.       *)
Parsed(s) ==
    LET end == HeadEnd(s)
    IN  CASE FirstLineEnd(s) = 0 -> [NoResult EXCEPT !.outcome = "partial"]
          [] FirstLineEnd(s) # 0 /\ s[1].at # 1 -> [NoResult EXCEPT !.outcome = "bad"]
          [] OTHER -> [outcome |-> "ok", msg |-> s[1].msg,
                       body |-> IF end = 0 THEN <<>>
                                ELSE ParsedBody(s, end, ParsedLength(s, end))]

Parse == /\ pc = "parse"
         /\ result' = Parsed(buf)
         /\ pc' = "respond"
         /\ UNCHANGED <<peer, inbox, loop, reply>>

-----------------------------------------------------------------------------
(* http_send_response: one send, which does not block, and whose return    *)
(* value is only compared with 0: what does not fit into the kernel's      *)
(* buffer is lost.  A request that did not parse is the last.              *)
AfterReply == IF result.outcome = "ok" THEN "wait" ELSE "closed"

Respond == /\ pc = "respond"
           /\ due' \in Lengths
           /\ sent' = Min({due', SendBuffer - outbox})
           /\ outbox' = outbox + sent'
           /\ pc' = AfterReply
           /\ UNCHANGED <<peer, inbox, loop, result, taken>>

-----------------------------------------------------------------------------
(* The sender.                                                             *)

Sending(k) == /\ pc # "closed"
              /\ ~eof
              /\ wire # <<>>
              /\ inbox' = inbox \o SubSeq(wire, 1, k)
              /\ wire' = SubSeq(wire, k + 1, Len(wire))
              /\ taken' = 0
              /\ UNCHANGED <<patient, script, eof, pc, loop, result, outbox, due, sent>>

(* It sends its bytes in pieces, as the network cuts them, ... *)
SendPiece == ~patient /\ \E k \in 1 .. Len(wire) : Sending(k)

(* ... or each message in one piece and when it has the answer to the last.*)
SendMessage == /\ patient
               /\ taken = due
               /\ Sending(Len(Bytes(Head(wire).msg)))

Read == /\ outbox > 0
        /\ taken' = taken + outbox
        /\ outbox' = 0
        /\ UNCHANGED <<peer, inbox, pc, loop, result, due, sent>>

(* It closes when it has sent everything, or gives up waiting. *)
Close == /\ wire = <<>> \/ (patient /\ taken # due)
         /\ ~eof
         /\ eof' = TRUE
         /\ UNCHANGED <<patient, script, wire, inbox, pc, loop, result, reply>>

-----------------------------------------------------------------------------
ServerStep == Readable \/ Recv \/ RecvDry \/ Parse \/ Respond

Closed == pc = "closed" /\ UNCHANGED vars

Next == ServerStep \/ SendPiece \/ SendMessage \/ Read \/ Close \/ Closed

(* A worker goes on with its callback, and a sender that waits for answers *)
(* reads them.                                                             *)
Spec == /\ Init /\ [][Next]_vars
        /\ WF_vars(patient /\ ServerStep)
        /\ WF_vars(patient /\ Read)

-----------------------------------------------------------------------------
(* Properties.                                                             *)

IsByte(b) == b.msg \in DOMAIN script /\ b \in Range(Bytes(b.msg))

(* The buffer stays within its capacity, body_start within the buffer. *)
TypeOK == /\ script \in Seq(Messages)
          /\ \A s \in {wire, inbox, buf, result.body} : \A p \in DOMAIN s : IsByte(s[p])
          /\ {patient, eof, stale} \subseteq BOOLEAN
          /\ pc \in {"wait", "recv", "parse", "respond", "closed"}
          /\ Len(buf) <= cap
          /\ body_start \in 0 .. Len(buf)
          /\ content_length \in Nat
          /\ result.outcome \in {"none", "ok", "partial", "bad"}
          /\ outbox \in 0 .. SendBuffer
          /\ {taken, sent} \subseteq Nat /\ due \in Nat \ {0}

(* recv is never called with no room left, which would return 0 and be     *)
(* taken for the end of the stream (http.c:355, http.c:365).               *)
RecvHasRoom == pc = "recv" => Len(buf) < cap

HasFields(m) == m.fields > 0 \/ m.length # "none"

(* However the bytes are cut into pieces and whatever follows them, the    *)
(* body handed to a handler is the beginning of the body that was sent     *)
(* with the request in front of it (http.c:183-189).  A request without    *)
(* header fields, whose blank line is missed (http.c:153), gets no body or *)
(* the beginning of the next message's.                                    *)
BodyIsOwnOrNext ==
    result.outcome = "ok" =>
       LET n == result.msg
       IN  IF HasFields(script[n])
           THEN IsPrefix(result.body, BodyOf(n))
           ELSE \/ result.body = <<>>
                \/ n < Len(script) /\ IsPrefix(result.body, BodyOf(n + 1))

(* Messages that fit into the first buffer and the header table, and bring *)
(* the body they announce; the answer to a HEAD request brings none.       *)
Ordinary(m) == /\ HeadLen(m) + m.body <= InitCap
               /\ m.fields < MaxHeaders
               /\ m.body = IF m.length = "none" \/ ~m.expect_body THEN 0 ELSE m.announced

(* A sender that waits is understood: each of its messages is served, in   *)
(* order and with the whole of its body, as long as they are ordinary.     *)
PatientServed ==
    patient /\ pc = "respond" /\ (\A n \in DOMAIN script : Ordinary(script[n])) =>
        /\ result.outcome = "ok"
        /\ result.body = BodyOf(result.msg)
        /\ wire # <<>> => Head(wire).msg = result.msg + 1
        /\ inbox = <<>>

(* The loop does not run dry on a message it can delimit, which would keep *)
(* a worker, and the queue's mutex with it, until the timeout of a backend:*)
(* this is what expect_body is for (worker_loop.c:181).                    *)
NoNeedlessWait ==
    [][patient /\ pc = "recv" /\ pc' = "parse" /\ buf' = buf
          => \/ script[buf[1].msg].blank = "lf"
             \/ ~Ordinary(script[buf[1].msg])]_vars

(* Every message of a sender that waits and reads is answered, or the      *)
(* connection is closed.  send is called once (http.c:341): a response     *)
(* arrives whole if the kernel's buffer takes it, and of a longer one that *)
(* buffer's fill arrives, no more and no less.                             *)
EachAnswered ==
    patient /\ taken = 0 ~> \/ taken = due
                            \/ taken = SendBuffer /\ SendBuffer < due
                            \/ pc = "closed"

(* "Truncated body: got %zu of %zu bytes" (http.c:192) is said of bodies   *)
(* of which the sender, who sends his messages whole, has sent no more.    *)
TruncatedMeansShort ==
    patient /\ pc = "respond" /\ result.outcome = "ok" /\ result.body # BodyOf(result.msg)
        => inbox = <<>>
=============================================================================
