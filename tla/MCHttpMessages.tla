--------------------------- MODULE MCHttpMessages ---------------------------
(* Instances of HttpMessages: buffers that grow when less than two bytes   *)
(* are left, and honest senders: no body without Content-Length, and none  *)
(* of the announced body in the answer to a HEAD request.  The first       *)
(* buffer has room for a message without fields and the one behind it.     *)
EXTENDS HttpMessages

Msg(fields, length, blank, announced) ==
    [text |-> 2, fields |-> fields, length |-> length, blank |-> blank,
     announced |-> announced, body |-> announced, expect_body |-> TRUE]

NoBody == Msg(0, "none", "crlf", 0)

AnswerToHead == [Msg(0, "exact", "crlf", 2) EXCEPT !.body = 0, !.expect_body = FALSE]

(* Messages that fit, with the end of the head and the length given in all *)
(* the ways the code tells apart, and one that makes the buffer grow in    *)
(* its body.                                                               *)
MixedMessages == {NoBody, AnswerToHead, Msg(0, "none", "lf", 0), Msg(1, "exact", "crlf", 2),
                  Msg(0, "other", "crlf", 2), Msg(0, "exact", "lf", 1),
                  Msg(0, "exact", "crlf", 8)}

(* A message for which it grows twice. *)
LargeMessages == {Msg(0, "exact", "crlf", 14)}
=============================================================================
