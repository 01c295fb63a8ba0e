----------------------------- MODULE UpstreamLink -----------------------------
(***************************************************************************)
(* The WebSocket link to the upstream system (upstream/service.py): the    *)
(* address and the wish the operator sets, the supervisor that keeps one   *)
(* session alive, its writer, the bounded queue of telemetry, and the list *)
(* of events (07, 08, 09) that outlive a session.                          *)
(*                                                                         *)
(* The Qt thread and the media thread publish; the asyncio thread runs the *)
(* supervisor, the reader and the writer, and what the other threads hand  *)
(* to it runs later (call_soon_threadsafe).                                *)
(* Telemetry, acknowledgements and the empty envelopes that wake the       *)
(* writer are told apart by nothing but their number.  Callbacks that wait *)
(* together count as one.                                                  *)
(* Bounds: upsets counts the network failures and the operator's changes;  *)
(* Limits says what may come together in one behaviour.                    *)
(***************************************************************************)
EXTENDS Integers, Sequences, SequencesExt

CONSTANTS Address,        \* url and client number the operator may enter
          OutboundLimit,  \* length of the telemetry queue
          MaxUpsets,
          Limits

ASSUME LinkAssumption ==
    /\ OutboundLimit \in Nat \ {0} /\ MaxUpsets \in Nat
    /\ Address # {}
    /\ \A a, b \in Address : /\ DOMAIN a = {"url", "no"}
                             /\ [a EXCEPT !.no = b.no] \in Address
    /\ \A l \in Limits : l.upsets \in 0..MaxUpsets

VARIABLES
    limit,      \* the bounds of this behaviour, one of Limits
    address,    \* _url and _client_no
    desired,    \* _desired_connected
    wake,       \* _wake_event is set
    session,    \* the session of the supervisor and the address it was started for
    connected,  \* _connected
    pending,    \* _pending_events
    outbound,   \* envelopes in the telemetry queue
    call,       \* a call_soon_threadsafe(_queue_outbound, ...) has not run yet
    writer,     \* where the writer is and the event it has in hand
    upsets,     \* failures and changes that may still happen
    accepted,   \* history: the events put into pending, in order
    sent        \* history: the events whose sending has completed, in order

linkVars == <<limit, address, desired, wake, session, connected, pending, outbound,
              call, writer, upsets, accepted, sent>>
operatorVars == <<address, desired>>
eventVars == <<pending, accepted, sent>>

SessionPhase == {"none", "handshake", "up"}
WriterAt == {"off", "check", "waiting", "sending"}
Session == [phase : SessionPhase, to : Address]
Off == [at |-> "off", event |-> <<>>]

LinkTypeOK(Event) ==
    /\ limit \in Limits
    /\ address \in Address /\ desired \in BOOLEAN /\ wake \in BOOLEAN
    /\ session \in Session /\ connected \in BOOLEAN
    /\ {pending[i] : i \in DOMAIN pending} \subseteq Event
    /\ outbound \in 0..OutboundLimit /\ call \in BOOLEAN
    /\ writer.at \in WriterAt /\ upsets \in 0..MaxUpsets

LinkInit(first) ==
    /\ limit \in Limits
    /\ address = first /\ desired = TRUE /\ wake = FALSE
    /\ session = [phase |-> "none", to |-> first] /\ connected = FALSE
    /\ pending = <<>> /\ outbound = 0 /\ call = FALSE /\ writer = Off
    /\ upsets = limit.upsets
    /\ accepted = <<>> /\ sent = <<>>

\* The elements of s that are in T, in their order.
Within(s, T) ==
    LET kept[n \in 0..Len(s)] ==
            IF n = 0 THEN <<>>
            ELSE IF s[n] \in T THEN Append(kept[n - 1], s[n]) ELSE kept[n - 1]
    IN  kept[Len(s)]

\* The events for address a.
Sent(a, events) == Within(events, {e \in Range(events) : e.to = a})

\* Mutant: a kept event does not wake the writer.
PublishSilently(events, woken) ==
    /\ pending' = pending \o events
    /\ accepted' = accepted \o events
    /\ call' = (call \/ woken)

(* publish_status: an event is kept under the url of now and the client    *)
(* number of its mission, whether there is a connection or not, and an     *)
(* empty envelope is sent after it; anything else needs the connection.    *)
Publish(events, woken) ==
    /\ pending' = pending \o events
    /\ accepted' = accepted \o events
    /\ call' = (call \/ woken \/ events # <<>>)

(***************************************************************************)
(* The operator's panel.                                                   *)
(***************************************************************************)
Connect(a) ==
    /\ upsets > 0 /\ upsets' = upsets - 1
    /\ address' = a /\ desired' = TRUE /\ connected' = FALSE /\ wake' = TRUE
    /\ UNCHANGED <<limit, session, outbound, call, writer, eventVars>>

Disconnect ==
    /\ upsets > 0 /\ desired /\ upsets' = upsets - 1
    /\ desired' = FALSE /\ connected' = FALSE /\ wake' = TRUE
    /\ UNCHANGED <<limit, address, session, outbound, call, writer, eventVars>>

(***************************************************************************)
(* The supervisor.                                                         *)
(***************************************************************************)
(* A session ends: its reader and its writer are cancelled and awaited, an *)
(* event in hand stays in the list, the telemetry is dropped.              *)
SessionOver ==
    /\ session' = [session EXCEPT !.phase = "none"]
    /\ connected' = FALSE /\ writer' = Off /\ outbound' = 0

StartSession ==
    /\ session.phase = "none" /\ desired
    /\ session' = [phase |-> "handshake", to |-> address]
    /\ connected' = FALSE /\ outbound' = 0
    /\ UNCHANGED <<limit, operatorVars, wake, call, writer, upsets, eventVars>>

(* SYSTEM and SUB_ACK have come: reader and writer start. *)
HandshakeDone ==
    /\ session.phase = "handshake"
    /\ session' = [session EXCEPT !.phase = "up"]
    /\ connected' = TRUE
    /\ writer' = [Off EXCEPT !.at = "check"]
    /\ UNCHANGED <<limit, operatorVars, wake, outbound, call, upsets, eventVars>>

(* The connection cannot be made, or breaks while up or while sending. *)
SessionFails ==
    /\ session.phase # "none"
    /\ upsets > 0 /\ upsets' = upsets - 1
    /\ SessionOver
    /\ UNCHANGED <<limit, operatorVars, wake, call, eventVars>>

(* The supervisor is woken: a running session is cancelled, a waiting      *)
(* supervisor looks at the wish again.                                     *)
Woken ==
    /\ wake /\ wake' = FALSE
    /\ IF session.phase = "none"
       THEN UNCHANGED <<session, connected, writer, outbound>> ELSE SessionOver
    /\ UNCHANGED <<limit, operatorVars, call, upsets, eventVars>>

\* Mutant: nothing makes room.
Grown(n) == n + 1

(* _queue_outbound: the oldest envelope makes room. *)
Queued(n) == IF n = OutboundLimit THEN n ELSE n + 1

RunCall ==
    /\ call /\ call' = FALSE
    /\ outbound' = Queued(outbound)
    /\ UNCHANGED <<limit, operatorVars, wake, session, connected, writer, upsets, eventVars>>

(***************************************************************************)
(* The writer.                                                             *)
(***************************************************************************)
Mine == Sent(session.to, pending)

(* It takes the first event of its address in hand, or goes to wait for    *)
(* the telemetry queue.                                                    *)
WriterLooks ==
    /\ writer.at = "check"
    /\ writer' = IF Mine = <<>> THEN [Off EXCEPT !.at = "waiting"]
                                ELSE [at |-> "sending", event |-> <<Head(Mine)>>]
    /\ UNCHANGED <<limit, operatorVars, wake, session, connected, outbound, call, upsets,
                   eventVars>>

(* An envelope is taken, sent if it is not an empty one, and the list is   *)
(* looked at again.                                                        *)
WriterTakes ==
    /\ writer.at = "waiting" /\ outbound > 0
    /\ outbound' = outbound - 1
    /\ writer' = [writer EXCEPT !.at = "check"]
    /\ UNCHANGED <<limit, operatorVars, wake, session, connected, call, upsets, eventVars>>

\* Mutant: the first event of the list leaves it, whichever was sent.
Shortened == Tail(pending)

Remaining == RemoveFirst(pending, writer.event[1])

(* The event leaves the list only when its sending has completed. *)
WriterSent ==
    /\ writer.at = "sending"
    /\ pending' = Remaining
    /\ sent' = sent \o writer.event
    /\ writer' = [Off EXCEPT !.at = "check"]
    /\ UNCHANGED <<limit, operatorVars, wake, session, connected, outbound, call, upsets,
                   accepted>>

OperatorStep == (\E a \in Address : Connect(a)) \/ Disconnect
SupervisorStep == StartSession \/ Woken \/ RunCall
WriterStep == WriterLooks \/ WriterTakes \/ WriterSent
=============================================================================
