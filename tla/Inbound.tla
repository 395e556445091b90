-------------------------------- MODULE Inbound --------------------------------
(***************************************************************************)
(* How the messages of a channel reach the turn: the receiving halves of   *)
(* the platform adapters (src/adapters/discord, mattermost and telegram)   *)
(* and the debouncer (src/core/debounce.py), for one user who may talk to  *)
(* the bot.  Messages are numbered as they are posted, which is also how   *)
(* Discord's ids grow.                                                     *)
(*                                                                         *)
(* External: Discord's `after` query gives the oldest messages after an id,*)
(* newest first; the Mattermost socket delivers what is posted while it is *)
(* connected; python-telegram-bot handles one update at a time.            *)
(***************************************************************************)
EXTENDS Naturals, Sequences, FiniteSets, SequencesExt, Filters

CONSTANTS
    MaxPosts,       \* bound
    PageSize,       \* the limit of a poll
    TextOf,         \* the text of each message
    Ignored,        \* messages of bots and system messages
    Slashed,        \* messages that start with a slash, which Telegram marks as commands
    OnlyUser,       \* Mattermost: allowed_user is set
    MaxStarts       \* bound

ASSUME InboundAssumption ==
    /\ {MaxPosts, PageSize, MaxStarts} \subseteq Nat /\ PageSize > 0
    /\ Ignored \cup Slashed \subseteq 1 .. MaxPosts
    /\ OnlyUser \in BOOLEAN

Platforms == {"discord", "mattermost", "telegram"}
Posts == 1 .. MaxPosts

VARIABLES
    platform,
    posted,         \* how many messages there are in the channel
    link,           \* the adapter is off, polling or connected, has a page, or stopped
    starts,
    cursor,         \* Discord: last_message_id, 0 for "0"
    page,           \* Discord: the page that was fetched
    wire,           \* what the platform has delivered and the adapter not yet taken
    waiting,        \* the tasks that look up a user or a channel
    userKnown,      \* Mattermost: _user_cache and _channel_cache
    channelKnown,
    recent,         \* the debouncer's entry: the text it saw last
    fresh,          \* it saw that within the window
    busy,           \* Telegram: a message is being handled
    handled,        \* history: the messages given to handle_incoming
    excused,        \* history: the messages that need not be
    late,           \* history: the messages that had to wait for a lookup
    replaying       \* history: Discord was started without knowing the last message

platformVars == <<platform, posted, starts>>
taskVars == <<waiting, userKnown, channelKnown>>
debounceVars == <<recent, fresh>>
inboundVars == <<platformVars, link, cursor, page, wire, taskVars, debounceVars, busy,
                 handled, excused, late, replaying>>

NoText == "none"

InboundInit ==
    /\ platform \in Platforms
    /\ posted = 0 /\ starts = 0 /\ cursor = 0
    /\ link = "off" /\ page = <<>> /\ wire = <<>>
    /\ waiting = [user |-> {}, channel |-> {}]
    /\ userKnown = ~OnlyUser /\ channelKnown = FALSE
    /\ recent = NoText /\ fresh = FALSE /\ busy = FALSE
    /\ handled = <<>> /\ excused = {} /\ late = {} /\ replaying = FALSE

\* Someone writes.  Mattermost and Telegram deliver to a bot that is there; what else is
\* written is gone for it.
Post ==
    /\ posted < MaxPosts
    /\ posted' = posted + 1
    /\ IF platform # "discord" /\ link = "on"
       THEN wire' = Append(wire, posted') /\ UNCHANGED excused
       ELSE /\ UNCHANGED wire
            /\ excused' = IF posted' \in Ignored \/ link \notin {"on", "fetched"}
                          THEN excused \cup {posted'} ELSE excused
    /\ UNCHANGED <<platform, starts, link, cursor, page, taskVars, debounceVars, busy, handled,
                   late, replaying>>

\* run(): Discord looks for the last message; Mattermost connects; Telegram drops the
\* updates that have come in before.
AdapterStarts ==
    /\ link = "off" /\ starts < MaxStarts
    /\ starts' = starts + 1
    /\ link' = "on"
    /\ \E found \in IF platform = "discord" THEN BOOLEAN ELSE {TRUE} :
          /\ cursor' = IF found THEN posted ELSE 0
          /\ replaying' = (replaying \/ ~found)
    /\ UNCHANGED <<platform, posted, page, wire, taskVars, debounceVars, busy, handled, excused, late>>

\* Mutant: the page is worked through as it came.
AsReceived(p) == p

\* The messages of a page in the order they are worked through.
Sorted(p) == Filter([m \in Posts |-> m], ToSet(p))

\* _poll: the request ...
Fetch ==
    /\ platform = "discord" /\ link = "on"
    /\ LET last == IF posted < cursor + PageSize THEN posted ELSE cursor + PageSize
       IN  page' = Reverse([i \in 1 .. last - cursor |-> cursor + i])
    /\ link' = "fetched"
    /\ UNCHANGED <<platformVars, cursor, wire, taskVars, debounceVars, busy, handled, excused, late,
                   replaying>>

\* ... its failure, after which it is made again ...
FetchFails ==
    /\ link = "fetched"
    /\ link' = "on" /\ page' = <<>>
    /\ UNCHANGED <<platformVars, cursor, wire, taskVars, debounceVars, busy, handled, excused, late,
                   replaying>>

\* ... and the tasks made of the answer, which start in that order.
Polled ==
    /\ link = "fetched"
    /\ link' = "on" /\ page' = <<>>
    /\ LET msgs == Sorted(page)
       IN  /\ cursor' = IF msgs = <<>> THEN cursor ELSE Last(msgs)
           /\ wire' = wire \o Filter(msgs, Posts \ Ignored)
    /\ UNCHANGED <<platformVars, taskVars, debounceVars, busy, handled, excused, late, replaying>>

\* should_skip: the same text at any time, or anything within the window.  A message that
\* is skipped leaves no trace.
ShouldSkip(m) == recent # NoText /\ (recent = TextOf[m] \/ fresh)

Record(m) ==
    IF ShouldSkip(m) THEN UNCHANGED debounceVars ELSE recent' = TextOf[m] /\ fresh' = TRUE

Handle(m) == handled' = Append(handled, m) /\ UNCHANGED excused
Dropped(m) == excused' = excused \cup {m} /\ UNCHANGED handled

\* The end of _on_message, or the part of _on_posted before the channel's name is there.
Debounce(m) ==
    /\ Record(m)
    /\ IF ShouldSkip(m) THEN Dropped(m) /\ waiting' = [waiting EXCEPT !.user = @ \ {m}] /\ UNCHANGED late
       ELSE IF platform = "mattermost" /\ ~channelKnown
       THEN /\ waiting' = [user |-> waiting.user \ {m}, channel |-> waiting.channel \cup {m}]
            /\ late' = late \cup {m}
            /\ UNCHANGED <<handled, excused>>
       ELSE Handle(m) /\ waiting' = [waiting EXCEPT !.user = @ \ {m}] /\ UNCHANGED late

\* A task starts.  Telegram's handler is not called for commands, waits for the message
\* before it, and does not debounce.
Receive ==
    /\ wire # <<>>
    /\ wire' = Tail(wire)
    /\ LET m == Head(wire)
       IN  IF platform = "telegram"
           THEN /\ ~busy
                /\ IF m \in Ignored \cup Slashed THEN Dropped(m) /\ UNCHANGED busy
                   ELSE Handle(m) /\ busy' = TRUE
                /\ UNCHANGED <<waiting, debounceVars, late>>
           ELSE /\ UNCHANGED busy
                /\ IF m \in Ignored THEN Dropped(m) /\ UNCHANGED <<waiting, debounceVars, late>>
                   ELSE IF platform = "mattermost" /\ ~userKnown
                   THEN /\ waiting' = [waiting EXCEPT !.user = @ \cup {m}]
                        /\ late' = late \cup {m}
                        /\ UNCHANGED <<debounceVars, handled, excused>>
                   ELSE Debounce(m)
    /\ UNCHANGED <<platformVars, link, cursor, page, userKnown, channelKnown, replaying>>

\* _resolve_username answers; a failed lookup is not remembered, and its user not allowed.
UserResolved(m) ==
    /\ m \in waiting.user
    /\ \/ userKnown' = TRUE /\ Debounce(m)
       \/ /\ Dropped(m) /\ waiting' = [waiting EXCEPT !.user = @ \ {m}]
          /\ UNCHANGED <<userKnown, debounceVars, late>>
    /\ UNCHANGED <<platformVars, link, cursor, page, wire, channelKnown, busy, replaying>>

\* _resolve_channel answers, with the id if the lookup failed.
ChannelResolved(m) ==
    /\ m \in waiting.channel
    /\ \E found \in BOOLEAN : channelKnown' = (channelKnown \/ found)
    /\ waiting' = [waiting EXCEPT !.channel = @ \ {m}]
    /\ Handle(m)
    /\ UNCHANGED <<platformVars, link, cursor, page, wire, userKnown, debounceVars, busy, late,
                   replaying>>

TurnOver ==
    /\ busy /\ busy' = FALSE
    /\ UNCHANGED <<platformVars, link, cursor, page, wire, taskVars, debounceVars, handled, excused,
                   late, replaying>>

WindowPasses ==
    /\ fresh /\ fresh' = FALSE
    /\ UNCHANGED <<platformVars, link, cursor, page, wire, taskVars, recent, busy, handled, excused,
                   late, replaying>>

\* The socket breaks with what was on its way; the tasks go on.  It is connected again
\* after a pause, and nothing asks for what was missed.
Disconnect ==
    /\ platform = "mattermost" /\ link = "on"
    /\ link' = "cut" /\ wire' = <<>>
    /\ excused' = excused \cup ToSet(wire)
    /\ UNCHANGED <<platformVars, cursor, page, taskVars, debounceVars, busy, handled, late, replaying>>

Reconnect ==
    /\ link = "cut" /\ link' = "on"
    /\ UNCHANGED <<platformVars, cursor, page, wire, taskVars, debounceVars, busy, handled, excused, late,
                   replaying>>

\* The process ends, with its tasks, its caches and the debouncer's memory.
Exit ==
    /\ link # "off"
    /\ link' = "off" /\ page' = <<>> /\ wire' = <<>> /\ cursor' = 0
    /\ waiting' = [user |-> {}, channel |-> {}]
    /\ userKnown' = ~OnlyUser /\ channelKnown' = FALSE
    /\ recent' = NoText /\ fresh' = FALSE /\ busy' = FALSE
    /\ excused' = excused \cup 1 .. posted
    /\ UNCHANGED <<platformVars, handled, late, replaying>>

InboundNext ==
    \/ Post \/ AdapterStarts \/ Fetch \/ FetchFails \/ Polled \/ Receive \/ TurnOver
    \/ WindowPasses \/ Disconnect \/ Reconnect \/ Exit
    \/ \E m \in Posts : UserResolved(m) \/ ChannelResolved(m)
--------------------------------------------------------------------------------
InTheWorks == ToSet(wire) \cup waiting.user \cup waiting.channel

\* Unless Discord had to start without the id of the last message, which replays the
\* channel, no message is handled twice, and none after a later one unless it had to wait
\* for a lookup on Mattermost.
InOrderOnce ==
    replaying \/ \A i, j \in DOMAIN handled :
        i < j => handled[i] < handled[j] \/ (handled[i] # handled[j] /\ handled[j] \in late)

\* A message written while the adapter is there is handled, or on its way, or still to be
\* polled, unless it was ignored, debounced or its lookup failed: polling in pages and
\* while other messages arrive skips none.
NoneMissed ==
    \A m \in 1 .. posted :
        m \in ToSet(handled) \cup InTheWorks \cup excused \/ (platform = "discord" /\ m > cursor)

\* What a user writes reaches the turn once and in order (adapters' run, _poll, _on_message
\* and _on_posted): both of the above.
MessagesKept == InOrderOnce /\ NoneMissed
================================================================================
