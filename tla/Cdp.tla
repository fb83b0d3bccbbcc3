--------------------------------- MODULE Cdp ---------------------------------
(***************************************************************************)
(* The client of the Chrome DevTools protocol (env/cdp.py): it waits for a *)
(* page target, opens its websocket, and makes requests over it one at a   *)
(* time.  The app may send anything at any time: replies late or to older  *)
(* requests, events, messages in fragments, abandoned messages, control    *)
(* frames between fragments, frames no server may send; it may close, or   *)
(* send nothing.                                                           *)
(***************************************************************************)
EXTENDS Naturals, Sequences, SequencesExt

CONSTANTS
    MaxRequests,   \* bound: how many requests a session makes
    MaxMessages,   \* bound: how many messages the app starts
    MAX_MESSAGE,   \* the size limit of a message, in fragments
    EVENT_LIMIT,   \* how many events are kept ...
    EVENT_CUT      \* ... and how many of the oldest are dropped then

ASSUME CdpAssumption ==
    /\ {MaxRequests, MaxMessages, MAX_MESSAGE, EVENT_LIMIT, EVENT_CUT} \subseteq Nat \ {0}
    /\ EVENT_CUT <= EVENT_LIMIT

\* A message is numbered as the app starts it; replyTo is the request id it answers.
Kinds == {"reply", "error", "event", "junk"}
Pages == {"devtools", "worker", "blank", "app"}

VARIABLES
    targets,     \* what /json/list returns, in its order
    page,        \* the target that was selected
    socket,      \* "none", "open", "timed out" (its reader refuses to read), "closed"
    next_id,
    method,      \* the request under way, or none
    enabled,     \* has screenshot enabled the page
    fragments,   \* recv_text: the fragments of the message being read
    in_message,
    answer,      \* how the last request ended
    events,      \* the length of the client's list of events
    sending,     \* the app's message under way: its number and fragments sent, or 0
    sent,        \* messages the app has started
    content,     \* what each of them is
    taken,       \* the fragments of the message the last request returned
    garbled      \* a frame was refused with its payload unread: the reader is within it

cdpVars == <<targets, page, socket, next_id, method, enabled, fragments, in_message, answer,
             events, sending, sent, content, taken, garbled>>

\* The fragments of the app's messages, and those of none that a lost reader makes up.
Fragments == [of : 0..MaxMessages, n : 1..(MAX_MESSAGE + 1), fin : BOOLEAN]
NoMessage == [of |-> 0, n |-> 0]

CdpTypeOK ==
    /\ targets \in UNION {[1..n -> Pages] : n \in 0..2}
    /\ page \in Pages \cup {"none"}
    /\ socket \in {"none", "open", "timed out", "closed"}
    /\ next_id \in 0..MaxRequests
    /\ method \in {"none", "Runtime.evaluate", "Page.enable", "Page.captureScreenshot"}
    /\ enabled \in BOOLEAN /\ in_message \in BOOLEAN /\ garbled \in BOOLEAN
    /\ \A f \in Range(fragments) \cup Range(taken) : f \in Fragments
    /\ answer \in {"none", "ok", "cdp-error", "js-exception", "cdp-protocol", "cdp-timeout",
                   "cdp-disconnected", "cdp-unreachable", "cdp-handshake"}
    /\ events \in 0..EVENT_LIMIT
    /\ sent \in 0..MaxMessages
    /\ content \in [1..sent -> [kind : Kinds, replyTo : 0..MaxRequests]]

-----------------------------------------------------------------------------
(* wait_for_page, select_page_target and connect. *)

\* devtools:// pages and other targets never win; a placeholder page wins last.
Best(list) == IF "app" \in Range(list) THEN "app"
              ELSE IF "blank" \in Range(list) THEN "blank" ELSE "none"

session == <<next_id, method, enabled, fragments, in_message, events, sending, sent, content,
             taken, garbled>>

\* The app opens and closes targets while the client polls.
TargetsChange ==
    /\ page = "none"
    /\ targets' \in UNION {[1..n -> Pages] : n \in 0..2}
    /\ targets' # targets
    /\ UNCHANGED <<page, socket, answer, session>>

\* http_json and list_targets: what a poll sees is the list, or an error, which the poll
\* takes for no page: no endpoint yet, another status than 200, no JSON, no list.
Listed == {targets, <<>>}

PollFindsPage ==
    /\ socket = "none" /\ page = "none" /\ answer = "none"
    /\ \E list \in Listed : Best(list) # "none" /\ page' = Best(list)
    /\ UNCHANGED <<targets, socket, answer, session>>

\* The deadline; an endpoint that could not be read only lengthens the message.
PollTimesOut ==
    /\ socket = "none" /\ page = "none" /\ answer = "none"
    /\ answer' = "cdp-timeout"
    /\ UNCHANGED <<targets, page, socket, session>>

\* cdp_client.connect: the target may have no websocket url.
WithoutUrl == {"cdp-protocol"}

\* The headers may end too early; then the status may not be 101, or the accept value wrong.
HandshakeFails == {"cdp-handshake"}

\* The upgrade: refused, rejected, answered with a wrong accept value, or made.
Connect ==
    /\ page # "none" /\ socket = "none" /\ answer = "none"
    /\ \/ socket' = "open" /\ UNCHANGED answer
       \/ UNCHANGED socket /\ answer' \in WithoutUrl \cup {"cdp-unreachable"} \cup HandshakeFails
    /\ UNCHANGED <<targets, page, session>>

-----------------------------------------------------------------------------
(* The app: one message's fragments in order, but it may abandon a message. *)

Reads == socket = "open" /\ method # "none"

fixed == <<targets, page>>

\* What recv_text raises; its fragments are local to it.
Raises(code) ==
    /\ answer' = code
    /\ method' = "none"
    /\ fragments' = <<>> /\ in_message' = FALSE
    /\ enabled' = FALSE
    /\ UNCHANGED <<next_id, events, taken>>

Waits == UNCHANGED <<answer, method, next_id, enabled, events, taken>>

Settles(code, message) ==
    /\ answer' = code
    /\ method' = "none"
    /\ taken' = message
    /\ UNCHANGED <<next_id, events>>

\* Variant: the list of events is never cut.
KeptEvents_All(n) == n + 1

KeptEvents(n) == IF n = EVENT_LIMIT THEN EVENT_LIMIT + 1 - EVENT_CUT ELSE n + 1

\* evaluate: a reply that carries exceptionDetails is the exception of the script.
Evaluated == {"ok", "js-exception"}

\* screenshot: its second reply may hold no image.
Captured == {"ok", "cdp-protocol"}

EndsWith == [m \in {"Runtime.evaluate", "Page.enable", "Page.captureScreenshot"} |->
               CASE m = "Runtime.evaluate"       -> Evaluated
                 [] m = "Page.enable"            -> {"ok"}
                 [] m = "Page.captureScreenshot" -> Captured]

\* request: the reply with this id ends it, an event is kept, anything else is dropped.
Deliver(message, what) ==
    /\ fragments' = <<>> /\ in_message' = FALSE
    /\ \/ /\ what.kind = "junk"
          /\ Settles("cdp-protocol", <<>>) /\ enabled' = FALSE
       \/ /\ what.kind = "event"
          /\ events' = KeptEvents(events)
          /\ UNCHANGED <<answer, method, next_id, enabled, taken>>
       \/ /\ what.kind \in {"reply", "error"} /\ what.replyTo # next_id
          /\ Waits
       \/ /\ what.kind = "error" /\ what.replyTo = next_id
          /\ Settles("cdp-error", message) /\ enabled' = FALSE
       \/ /\ what.kind = "reply" /\ what.replyTo = next_id
          /\ \E code \in EndsWith[method] : Settles(code, message)
          /\ enabled' = (method = "Page.enable")

\* Variant: whatever comes is put behind what is there.
TextFrame_Appended(f, what) ==
    IF f.fin THEN Deliver(Append(fragments, f), what)
    ELSE in_message' = TRUE /\ fragments' = Append(fragments, f) /\ Waits

\* recv_text on a data frame.
TextFrame(f, what) ==
    IF in_message THEN Raises("cdp-protocol")
    ELSE IF f.fin THEN Deliver(<<f>>, what)
    ELSE in_message' = TRUE /\ fragments' = <<f>> /\ Waits

ContinuationFrame(f, what) ==
    IF ~in_message \/ Len(fragments) + 1 > MAX_MESSAGE THEN Raises("cdp-protocol")
    ELSE IF f.fin THEN Deliver(Append(fragments, f), what)
    ELSE fragments' = Append(fragments, f) /\ UNCHANGED in_message /\ Waits

AppStarts ==
    /\ Reads /\ ~garbled
    /\ sent < MaxMessages
    /\ sent' = sent + 1
    /\ \E fin \in BOOLEAN, kind \in Kinds, id \in 0..next_id :
          /\ (id = 0) <=> (kind \in {"event", "junk"})
          /\ content' = Append(content, [kind |-> kind, replyTo |-> id])
          /\ sending' = IF fin THEN NoMessage ELSE [of |-> sent', n |-> 1]
          /\ TextFrame([of |-> sent', n |-> 1, fin |-> fin], content'[sent'])
    /\ UNCHANGED <<fixed, socket, garbled>>

AppContinues ==
    /\ Reads /\ ~garbled
    /\ sending # NoMessage
    /\ \E fin \in BOOLEAN :
          LET f == [of |-> sending.of, n |-> sending.n + 1, fin |-> fin]
          IN  /\ fin \/ f.n <= MAX_MESSAGE
              /\ sending' = IF fin THEN NoMessage ELSE [of |-> f.of, n |-> f.n]
              /\ ContinuationFrame(f, content[f.of])
    /\ UNCHANGED <<fixed, socket, sent, content, garbled>>

\* A ping is answered, and the answer may not go out; a pong is passed over.
ControlFrame ==
    /\ Reads
    /\ Raises("cdp-disconnected")
    /\ socket' = "closed"
    /\ UNCHANGED <<fixed, sending, sent, content, garbled>>

\* read_server_frame: reserved bits, a mask, an unknown opcode, a fragmented or oversized
\* control frame, a frame too large, all refused at the header, with the payload, if there
\* is one, left in the stream of a connection that stays open; and recv_text: a binary
\* frame, which is read to its end.
IllegalFrame ==
    /\ Reads
    /\ Raises("cdp-protocol")
    /\ garbled' \in {garbled, TRUE}
    /\ UNCHANGED <<fixed, socket, sending, sent, content>>

\* The next request reads frames where it stands, out of those bytes and of whatever the
\* app sends after them, which can say anything.
Misread ==
    /\ Reads /\ garbled
    /\ \E fin \in BOOLEAN, kind \in Kinds, id \in 0..next_id :
          LET f    == [of |-> 0, n |-> 1, fin |-> fin]
              what == [kind |-> kind, replyTo |-> id]
          IN  TextFrame(f, what) \/ ContinuationFrame(f, what)
    /\ UNCHANGED <<fixed, socket, sending, sent, content, garbled>>

\* The socket's timeout, which leaves a reader that refuses every later read.
ReadTimesOut ==
    /\ Reads
    /\ Raises("cdp-timeout")
    /\ socket' = "timed out"
    /\ UNCHANGED <<fixed, sending, sent, content, garbled>>

-----------------------------------------------------------------------------
(* The client's calls. *)

\* send_frame: a frame, masked and whole, goes out on an open socket, or the socket is
\* found closed, or it fails and is closed.
Sends(m) ==
    \/ /\ socket = "open"
       /\ method' = m /\ answer' = "none"
       /\ UNCHANGED <<socket, enabled>>
    \/ /\ socket' = "closed" /\ answer' = "cdp-disconnected"
       /\ enabled' = FALSE
       /\ UNCHANGED method

Request(m) ==
    /\ socket # "none" /\ method = "none"
    /\ next_id < MaxRequests
    /\ enabled <=> m = "Page.captureScreenshot"       \* screenshot is two requests
    /\ next_id' = next_id + 1
    /\ taken' = <<>>
    /\ Sends(m)
    /\ UNCHANGED <<fixed, fragments, in_message, events, sending, sent, content, garbled>>

Close ==
    /\ method = "none" /\ socket \in {"open", "timed out"}
    /\ socket' = "closed"
    /\ UNCHANGED <<fixed, answer, session>>

-----------------------------------------------------------------------------
CdpInit ==
    /\ targets = <<>> /\ page = "none" /\ socket = "none"
    /\ next_id = 0 /\ method = "none" /\ enabled = FALSE
    /\ fragments = <<>> /\ in_message = FALSE
    /\ answer = "none" /\ events = 0
    /\ sending = NoMessage /\ sent = 0 /\ content = <<>> /\ taken = <<>>
    /\ garbled = FALSE

CdpNext ==
    \/ TargetsChange \/ PollFindsPage \/ PollTimesOut \/ Connect
    \/ AppStarts \/ AppContinues \/ ControlFrame \/ IllegalFrame \/ Misread
    \/ ReadTimesOut
    \/ \E m \in {"Runtime.evaluate", "Page.enable", "Page.captureScreenshot"} : Request(m)
    \/ Close

CdpSpec == CdpInit /\ [][CdpNext]_cdpVars

-----------------------------------------------------------------------------
(* What a request returns is one whole message of the app, from its first   *)
(* fragment to its last with none of another message between, and it is the *)
(* reply to this request, whatever messages the requests before left       *)
(* unread (recv_text, request): until a frame is refused at its header,    *)
(* after which the connection, still open, can return anything.             *)
TakenWhole ==
    /\ content[taken[1].of].replyTo = next_id
    /\ \A i \in DOMAIN taken : /\ taken[i].of = taken[1].of /\ taken[i].n = i
                               /\ taken[i].fin <=> i = Len(taken)

ReplyIsWhole == taken # <<>> /\ ~garbled => TakenWhole
=============================================================================
