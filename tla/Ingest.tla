------------------------------- MODULE Ingest -------------------------------
(***************************************************************************)
(* One ntfy topic and its subscriber (daemon.py: subscribe, stream_once,    *)
(* ingest_line, check_alert; store.py: get_cursor, ingest): what is kept of *)
(* the published messages when the stream drops, the daemon crashes, the    *)
(* server's cache expires or its replay is truncated.                      *)
(*                                                                         *)
(* Messages are named by their position in the topic.  The bridge never     *)
(* handles two lines of a topic at once, so a line is one step.            *)
(***************************************************************************)
EXTENDS Naturals

CONSTANTS
    MaxMessages,     \* bound on the messages published
    InitialSince     \* values of ntfy.initial_since considered: "unset", "all"

ASSUME IngestAssumption ==
    /\ MaxMessages \in Nat
    /\ InitialSince \subseteq {"unset", "all"}

VARIABLES
    published,     \* external: messages published so far
    good,          \* external: those that carry a valid message id
    first,         \* external: oldest message in the server's cache
    initial,       \* ntfy.initial_since, the same at every start
    inbox,         \* events ever persisted for this topic
    quarantine,    \* malformed lines persisted in the quarantine table
    cursor,        \* cursors.message_id; 0 when the topic has no row
    alerted,       \* was a replay_truncated event persisted?
    up,            \* is the daemon running?
    stream,        \* next message on the open stream; 0 when there is none
    active,        \* "replay_truncated" in alerts_active
    since,         \* external: first message after the first connection
    cut            \* external: messages left out of truncated replays

server == <<published, good, first, initial>>
stored == <<inbox, quarantine, cursor, alerted>>
vars == <<server, stored, up, stream, active, since, cut>>

Messages == 1 .. MaxMessages

-----------------------------------------------------------------------------
(* External: publishers and the message cache of ntfy.                     *)
Publish(valid) ==
    /\ published < MaxMessages
    /\ published' = published + 1
    /\ good' = IF valid THEN good \cup {published + 1} ELSE good
    /\ UNCHANGED <<first, initial, stored, up, stream, active, since, cut>>

Expire ==
    /\ first <= published
    /\ first' = first + 1
    /\ UNCHANGED <<published, good, initial, stored, up, stream, active, since, cut>>

(* Mutant: the stream is opened without a since parameter.                 *)
OnlyNew == published + 1

(* The first message the server owes for the request: all that follows the  *)
(* cursor, everything it has when it no longer knows the cursor or the      *)
(* bridge asks for all, new messages otherwise.                            *)
Requested ==
    IF cursor # 0
      THEN IF cursor >= first THEN cursor + 1 ELSE first
      ELSE IF initial = "all" THEN first ELSE published + 1

(* Mutant: a truncated replay is noted but no event is persisted.          *)
NoAlert(truncated) == active' = truncated /\ alerted' = alerted

(* check_alert: one event per outage, re-armed by a complete replay.       *)
CheckAlert(truncated) ==
    /\ active' = truncated
    /\ alerted' = (alerted \/ (truncated /\ ~active))

(* stream_once up to the first line; a truncated replay starts later.      *)
Connect(from) ==
    /\ up /\ stream = 0
    /\ from \in Requested .. published + 1
    /\ CheckAlert(from > Requested)
    /\ stream' = from
    /\ since' = IF since = 0 THEN Requested ELSE since
    /\ cut' = cut \cup (Requested .. from - 1)
    /\ UNCHANGED <<server, inbox, quarantine, cursor, up>>

(* Store.ingest: the event, unless it is there already, and the cursor.    *)
Keep(m) ==
    /\ inbox' = inbox \cup {m}
    /\ cursor' = m
    /\ quarantine' = quarantine

(* Mutant: the cursor also moves past a malformed line.                    *)
QuarantineAndAdvance(m) ==
    /\ quarantine' = quarantine \cup {m}
    /\ cursor' = m
    /\ inbox' = inbox

Quarantine(m) ==
    /\ quarantine' = quarantine \cup {m}
    /\ UNCHANGED <<inbox, cursor>>

IngestLine ==
    /\ up /\ stream # 0 /\ stream <= published
    /\ IF stream \in good THEN Keep(stream) ELSE Quarantine(stream)
    /\ stream' = stream + 1
    /\ UNCHANGED <<server, alerted, up, active, since, cut>>

(* The stream ends or fails: subscribe sleeps and connects again.          *)
Drop ==
    /\ stream # 0
    /\ stream' = 0
    /\ UNCHANGED <<server, stored, up, active, since, cut>>

(* A crash, or a database error: it escapes subscribe and ends the daemon. *)
Crash ==
    /\ up
    /\ up' = FALSE /\ stream' = 0 /\ active' = FALSE
    /\ UNCHANGED <<server, stored, since, cut>>

Start ==
    /\ ~up
    /\ up' = TRUE
    /\ UNCHANGED <<server, stored, stream, active, since, cut>>

-----------------------------------------------------------------------------
Init ==
    /\ published \in 0 .. MaxMessages /\ good = 1 .. published /\ first = 1
    /\ initial \in InitialSince
    /\ inbox = {} /\ quarantine = {} /\ cursor = 0 /\ alerted = FALSE
    /\ up = FALSE /\ stream = 0 /\ active = FALSE /\ since = 0
    /\ cut = {}

Next ==
    \/ \E valid \in BOOLEAN : Publish(valid)
    \/ Expire
    \/ \E from \in 1 .. MaxMessages + 1 : Connect(from)
    \/ IngestLine
    \/ Drop
    \/ Crash
    \/ Start

Spec == Init /\ [][Next]_vars

(* subscribe and the supervisor retry for ever, and from some point on the  *)
(* network and the daemon hold, the cache keeps what is not yet replayed.  *)
LiveSpec ==
    /\ Spec
    /\ WF_vars(Start) /\ WF_vars(\E from \in 1 .. MaxMessages + 1 : Connect(from))
    /\ WF_vars(IngestLine)
    /\ <>[][~Drop /\ ~Crash]_vars

-----------------------------------------------------------------------------
TypeOK ==
    /\ published \in 0 .. MaxMessages
    /\ good \in SUBSET Messages
    /\ first \in 1 .. MaxMessages + 1
    /\ initial \in InitialSince
    /\ inbox \in SUBSET Messages
    /\ quarantine \in SUBSET Messages
    /\ cursor \in 0 .. MaxMessages
    /\ alerted \in BOOLEAN
    /\ up \in BOOLEAN
    /\ stream \in 0 .. MaxMessages + 1
    /\ active \in BOOLEAN
    /\ since \in 0 .. MaxMessages + 1
    /\ cut \in SUBSET Messages

(* Messages the bridge cannot be blamed for: gone from the server's cache,  *)
(* or left out of a replay that the server marked as truncated.            *)
Unavailable(m) == m < first \/ m \in cut

(* How far into the topic the bridge has got: past the cursor, or, on an    *)
(* open stream, up to the next line.                                       *)
Reached == IF stream = 0 THEN cursor + 1 ELSE stream

Kept(m) == m \in inbox \/ m \in quarantine \/ Unavailable(m)

(* Once one event of a topic is in the inbox, no later message is skipped:  *)
(* everything up to the point reached is in the inbox or in quarantine,     *)
(* whatever reconnects, crashes and expired cursors came before (README:    *)
(* "After a reconnect the bridge requests since=<last message id>").        *)
NothingSkipped ==
    \A a \in inbox, m \in 1 .. published : a < m /\ m < Reached => Kept(m)

(* The same from the first connection on: what comes before is not wanted,  *)
(* what comes after is (config.example.toml: initial_since is "first start  *)
(* only").                                                                  *)
NothingSkippedSinceFirst ==
    \A m \in 1 .. published : 0 < since /\ since <= m /\ m < Reached => Kept(m)

(* With initial_since = "all" the documented promise holds.                 *)
AllIsReplayed == initial = "all" => NothingSkippedSinceFirst

(* The cursor never names a message that is not in the inbox (README: the   *)
(* message is written and its cursor advanced in the same transaction).     *)
CursorIsPersisted == cursor = 0 \/ cursor \in inbox

(* Messages lost to a truncated replay leave an alert event behind, even if *)
(* the daemon crashes right after (stream_once, check_alert).               *)
LossIsAlerted == cut # {} => alerted

(* What holds the three invariants above up: a stream only exists while the *)
(* daemon runs and is always ahead of the cursor, the cursor is the newest  *)
(* message in the inbox, and an alert that is active has left its event.    *)
StreamInv ==
    /\ stream # 0 => up /\ cursor < stream /\ stream <= published + 1
    /\ cursor <= published /\ first <= published + 1
    /\ inbox \subseteq 1 .. cursor
    /\ active => alerted

IndInv == TypeOK /\ StreamInv /\ NothingSkipped /\ CursorIsPersisted /\ LossIsAlerted

(* With initial_since = "all" every message published after the first       *)
(* connection is kept in the end, unless the server lost it first.          *)
EveryMessageKept ==
    \A m \in Messages : initial = "all" /\ m <= published /\ 0 < since /\ since <= m ~> Kept(m)
=============================================================================
