------------------------------ MODULE MessageProofs ------------------------------
(***************************************************************************)
(* Who tells whom what, for every value of the constants: the messages of  *)
(* a channel, which reach the adapter once and in order, those exchanged   *)
(* with a provider, which tell it all it has to know, and what the chairman*)
(* of a council is told of the disagreements between the roles.  As in     *)
(* RecordsProofs, each of the three has an inductive invariant of its own  *)
(* and a step of Records is one of its steps or leaves it alone.           *)
(***************************************************************************)
EXTENDS Records, FilterProofs, FiniteSetTheorems, TLAPS

--------------------------------------------------------------------------------
(* The messages of a channel                                               *)

\* What is on its way has been posted; the wire holds it in order.
WireTyped ==
    /\ platform \in Platforms /\ posted \in 0 .. MaxPosts /\ cursor \in 0 .. posted
    /\ wire \in Seq(Nat) /\ Increasing(wire) /\ ToSet(wire) \subseteq 1 .. posted
    /\ handled \in Seq(Nat) /\ ToSet(handled) \subseteq 1 .. posted
    /\ waiting \in [user : SUBSET (1 .. posted), channel : SUBSET (1 .. posted)]

\* Who polls has a page of what comes after its cursor, and has taken what comes before; who
\* is not there has nothing.
LinkSound ==
    /\ link = "fetched" => /\ platform = "discord"
                           /\ \E last \in cursor .. posted : ToSet(page) = cursor + 1 .. last
    /\ platform = "discord" => /\ waiting.user = {} /\ waiting.channel = {}
                               /\ \A m \in ToSet(wire) : m <= cursor
                               /\ Ignored \cap 1 .. posted \subseteq excused
    /\ link = "off" => /\ wire = <<>> /\ waiting.user = {} /\ waiting.channel = {}
                       /\ 1 .. posted \subseteq excused

Ordered(h, l) == \A i, j \in DOMAIN h : i < j => h[i] < h[j] \/ (h[i] # h[j] /\ h[j] \in l)

\* What is on the wire comes after all that was taken from it; a message is in one place.
WireAfter ==
    /\ Ordered(handled, late)
    /\ waiting.user \cup waiting.channel \subseteq late
    /\ waiting.user \cap waiting.channel = {}
    /\ (waiting.user \cup waiting.channel) \cap ToSet(handled) = {}
    /\ \A m \in ToSet(wire), x \in ToSet(handled) \cup waiting.user \cup waiting.channel : x < m
    /\ platform = "discord" /\ link # "off" => \A x \in ToSet(handled) : x <= cursor

InboundInv ==
    /\ WireTyped /\ LinkSound /\ NoneMissed
    /\ IF replaying THEN platform = "discord" ELSE WireAfter

LEMMA OrderKept ==
  ASSUME NEW h \in Seq(Nat), NEW l, NEW k, Ordered(h, l), l \subseteq k, NEW m \in Nat,
         \A x \in ToSet(h) : x < m \/ (x # m /\ m \in l)
  PROVE  Ordered(Append(h, m), l) /\ Ordered(h, k)
<1>1. Ordered(h, k)
  BY DEF Ordered
<1> DEFINE r == Append(h, m)
<1>2. r \in Seq(Nat) /\ Len(r) = Len(h) + 1 /\ r[Len(h) + 1] = m /\ \A i \in 1 .. Len(h) : r[i] = h[i]
  OBVIOUS
<1> HIDE DEF r
<1>3. DOMAIN r = 1 .. Len(h) + 1 /\ DOMAIN h = 1 .. Len(h)
  BY <1>2
<1>4. \A i \in 1 .. Len(h) : r[i] < m \/ (r[i] # m /\ m \in l)
  BY <1>2, <1>3 DEF ToSet
<1>5. ASSUME NEW i \in 1 .. Len(h) + 1, NEW j \in 1 .. Len(h) + 1, i < j
      PROVE  r[i] < r[j] \/ (r[i] # r[j] /\ r[j] \in l)
  <2>1. i \in 1 .. Len(h)
    BY <1>5
  <2>2. CASE j = Len(h) + 1
    BY <1>2, <1>4, <2>1, <2>2
  <2>3. CASE j # Len(h) + 1
    <3>1. j \in 1 .. Len(h)
      BY <2>3
    <3>2. h[i] < h[j] \/ (h[i] # h[j] /\ h[j] \in l)
      BY <1>3, <1>5, <2>1, <3>1 DEF Ordered
    <3> QED
      BY <1>2, <2>1, <3>1, <3>2
  <2> QED
    BY <2>2, <2>3
<1>6. Ordered(r, l)
  BY <1>3, <1>5 DEF Ordered
<1> QED
  BY <1>1, <1>6 DEF r

\* Where a message goes that is taken from the wire or from a lookup.
Handled(m) ==
    /\ handled' = Append(handled, m) /\ UNCHANGED <<excused, late>>
    /\ waiting'.user = waiting.user \ {m} /\ waiting'.channel = waiting.channel \ {m}
Excused(m) ==
    /\ excused' = excused \cup {m} /\ UNCHANGED <<handled, late>>
    /\ waiting'.user = waiting.user \ {m} /\ waiting'.channel = waiting.channel \ {m}
Waits(m) ==
    /\ platform = "mattermost"
    /\ late' = late \cup {m} /\ UNCHANGED <<handled, excused>>
    /\ \/ /\ waiting'.user = waiting.user \cup {m} /\ waiting'.channel = waiting.channel
          /\ m \notin waiting.channel
       \/ waiting'.user = waiting.user \ {m} /\ waiting'.channel = waiting.channel \cup {m}

LEMMA MessageTaken ==
  ASSUME InboundInv, UNCHANGED <<platformVars, link, cursor, page, replaying>>, link # "off",
         NEW m \in 1 .. posted,
         wire' \in Seq(Nat), Increasing(wire'),
         ToSet(wire') \subseteq ToSet(wire), ToSet(wire) \subseteq ToSet(wire') \cup {m},
         \A x \in ToSet(wire') : m < x,
         platform = "discord" => m <= cursor,
         ~replaying => /\ m \notin ToSet(handled)
                       /\ m \in late \/ \A x \in ToSet(handled) : x < m,
         waiting' \in [user : SUBSET Nat, channel : SUBSET Nat],
         Handled(m) \/ Excused(m) \/ Waits(m)
  PROVE  InboundInv'
<1>1. handled \in Seq(Nat) /\ m \in Nat
  BY DEF InboundInv, WireTyped
<1>2. /\ Append(handled, m) \in Seq(Nat)
      /\ ToSet(Append(handled, m)) = ToSet(handled) \cup {m}
  BY <1>1, AppendMembers
<1>3. /\ handled' \in Seq(Nat)
      /\ ToSet(handled') = ToSet(handled) \/ (Handled(m) /\ ToSet(handled') = ToSet(handled) \cup {m})
      /\ Handled(m) => m \in ToSet(handled')
  BY <1>1, <1>2 DEF Handled, Excused, Waits
<1> USE DEF InboundInv, platformVars
<1>4. waiting'.user \subseteq waiting.user \cup {m} /\ waiting'.channel \subseteq waiting.channel \cup {m}
  BY DEF Handled, Excused, Waits
<1>5. WireTyped'
  <2>1. waiting' \in [user : SUBSET (1 .. posted), channel : SUBSET (1 .. posted)]
    <3>1. waiting'.user \subseteq 1 .. posted /\ waiting'.channel \subseteq 1 .. posted
      BY <1>4 DEF WireTyped
    <3> QED
      BY <3>1
  <2>2. ToSet(handled') \subseteq 1 .. posted /\ ToSet(wire') \subseteq 1 .. posted
    BY <1>3 DEF WireTyped
  <2> QED
    BY <1>3, <2>1, <2>2 DEF WireTyped
<1>6. LinkSound'
  <2>1. platform = "discord" => waiting'.user = {} /\ waiting'.channel = {}
    BY DEF Handled, Excused, Waits, LinkSound
  <2>2. excused \subseteq excused'
    BY DEF Handled, Excused, Waits
  <2> QED
    BY <2>1, <2>2 DEF LinkSound
<1>7. NoneMissed'
  <2>1. ToSet(handled) \cup InTheWorks \cup excused \subseteq (ToSet(handled) \cup InTheWorks \cup excused)'
    <3>1. m \in ToSet(handled') \/ m \in excused' \/ m \in waiting'.user \/ m \in waiting'.channel
      BY <1>3 DEF Excused, Waits
    <3>2. /\ waiting.user \subseteq waiting'.user \cup {m}
          /\ waiting.channel \subseteq waiting'.channel \cup {m}
          /\ excused \subseteq excused'
      BY DEF Handled, Excused, Waits
    <3> QED
      BY <1>3, <3>1, <3>2 DEF InTheWorks
  <2>2. posted' = posted /\ cursor' = cursor /\ platform' = platform
    OBVIOUS
  <2> QED
    BY <2>1, <2>2 DEF NoneMissed
<1>8. ASSUME ~replaying PROVE WireAfter'
  <2>1. WireAfter /\ m \notin ToSet(handled) /\ (m \in late \/ \A x \in ToSet(handled) : x < m)
    BY <1>8
  <2>2. handled \in Seq(Nat) /\ m \in Nat
    BY DEF WireTyped
  <2>3. \A x \in ToSet(handled) : x \in Nat /\ (x < m \/ (x # m /\ m \in late))
    BY <2>1 DEF WireTyped
  <2>4. late \subseteq late'
    BY DEF Handled, Excused, Waits
  <2>5. Ordered(Append(handled, m), late) /\ Ordered(handled, late')
    BY <2>1, <2>2, <2>3, <2>4, OrderKept DEF WireAfter
  <2>6. Ordered(handled', late')
    BY <2>5 DEF Handled, Excused, Waits
  <2>7. waiting'.user \cup waiting'.channel \subseteq late' /\ waiting'.user \cap waiting'.channel = {}
    BY <2>1 DEF WireAfter, Handled, Excused, Waits
  <2>8. (waiting'.user \cup waiting'.channel) \cap ToSet(handled') = {}
    BY <1>3, <2>1 DEF WireAfter, Handled, Excused, Waits
  <2>9. \A y \in ToSet(wire'), x \in ToSet(handled') \cup waiting'.user \cup waiting'.channel : x < y
    BY <1>3, <1>4, <2>1 DEF WireAfter
  <2>10. platform' = "discord" /\ link' # "off" => \A x \in ToSet(handled') : x <= cursor'
    BY <1>3, <2>1 DEF WireAfter
  <2> QED
    BY <2>6, <2>7, <2>8, <2>9, <2>10 DEF WireAfter
<1> QED
  BY <1>5, <1>6, <1>7, <1>8

\* A message of the wire is looked up by no task yet.
LEMMA WireNotWaiting ==
  ASSUME InboundInv, NEW m \in ToSet(wire)
  PROVE  m \notin waiting.user /\ m \notin waiting.channel
<1>1. CASE replaying
  BY <1>1 DEF InboundInv, LinkSound
<1>2. CASE ~replaying
  BY <1>2 DEF InboundInv, WireAfter, WireTyped
<1> QED
  BY <1>1, <1>2

\* The debouncer drops the message, hands it on, or leaves it to the look-up of its channel.
LEMMA DebounceTakes ==
  ASSUME InboundInv, NEW m \in Nat, m \notin waiting.channel, Debounce(m)
  PROVE  /\ Handled(m) \/ Excused(m) \/ Waits(m)
         /\ waiting' \in [user : SUBSET Nat, channel : SUBSET Nat]
<1>1. waiting \in [user : SUBSET Nat, channel : SUBSET Nat]
  BY DEF InboundInv, WireTyped
<1>2. CASE ShouldSkip(m)
  BY <1>1, <1>2 DEF Debounce, Dropped, Excused
<1>3. CASE ~ShouldSkip(m) /\ platform = "mattermost" /\ ~channelKnown
  BY <1>1, <1>3 DEF Debounce, Waits
<1>4. CASE ~ShouldSkip(m) /\ ~(platform = "mattermost" /\ ~channelKnown)
  BY <1>1, <1>4 DEF Debounce, Handle, Handled
<1> QED
  BY <1>2, <1>3, <1>4

LEMMA ReceiveKeeps == ASSUME InboundInv, Receive PROVE InboundInv'
<1> DEFINE m == Head(wire)
<1>1. wire \in Seq(Nat) /\ Increasing(wire) /\ wire # <<>> /\ wire' = Tail(wire) /\ ToSet(wire) \subseteq 1 .. posted
  BY DEF InboundInv, WireTyped, Receive
<1>2. /\ wire' \in Seq(Nat) /\ m \in ToSet(wire)
      /\ ToSet(wire) = ToSet(wire') \cup {m}
  BY <1>1, TailMembers
<1>3. Increasing(wire') /\ \A x \in ToSet(wire') : m < x
  BY <1>1, EndsOfIncreasing
<1> HIDE DEF m
<1>4. link # "off"
  <2>1. ToSet(<<>>) = {}
    BY DEF ToSet
  <2> QED
    BY <1>2, <2>1 DEF InboundInv, LinkSound
<1>5. UNCHANGED <<platformVars, link, cursor, page, replaying>>
  BY DEF Receive
<1>6. m \in 1 .. posted /\ (platform = "discord" => m <= cursor)
  BY <1>1, <1>2 DEF InboundInv, LinkSound
<1>7. ~replaying => m \notin ToSet(handled) /\ (m \in late \/ \A x \in ToSet(handled) : x < m)
  BY <1>2, <1>6 DEF InboundInv, WireAfter
<1>8. m \notin waiting.user /\ m \notin waiting.channel
  BY <1>2, WireNotWaiting
<1>9. waiting \in [user : SUBSET Nat, channel : SUBSET Nat]
  BY DEF InboundInv, WireTyped
<1>10. \/ (Handle(m) \/ Dropped(m)) /\ UNCHANGED <<waiting, late>>
       \/ /\ platform = "mattermost" /\ waiting' = [waiting EXCEPT !.user = @ \cup {m}]
          /\ late' = late \cup {m} /\ UNCHANGED <<handled, excused>>
       \/ Debounce(m)
  BY DEF Receive, m, Platforms
<1>11. /\ Handled(m) \/ Excused(m) \/ Waits(m)
       /\ waiting' \in [user : SUBSET Nat, channel : SUBSET Nat]
  <2>1. CASE (Handle(m) \/ Dropped(m)) /\ UNCHANGED <<waiting, late>>
    BY <1>8, <1>9, <2>1 DEF Handle, Dropped, Handled, Excused
  <2>2. CASE /\ platform = "mattermost" /\ waiting' = [waiting EXCEPT !.user = @ \cup {m}]
             /\ late' = late \cup {m} /\ UNCHANGED <<handled, excused>>
    BY <1>6, <1>8, <1>9, <2>2 DEF Waits
  <2>3. CASE Debounce(m)
    BY <1>6, <1>8, <2>3, DebounceTakes
  <2> QED
    BY <1>10, <2>1, <2>2, <2>3
<1> QED
  BY <1>2, <1>3, <1>4, <1>5, <1>6, <1>7, <1>11, MessageTaken

\* A message whose lookup ends was not handled before; what is on the wire came later.
LEMMA ResolvedKeeps ==
  ASSUME InboundInv, NEW m, UserResolved(m) \/ ChannelResolved(m)
  PROVE  InboundInv'
<1>1. m \in waiting.user \cup waiting.channel
  BY DEF UserResolved, ChannelResolved
<1>2. /\ waiting \in [user : SUBSET Nat, channel : SUBSET Nat] /\ m \in 1 .. posted
      /\ wire \in Seq(Nat) /\ Increasing(wire)
  BY <1>1 DEF InboundInv, WireTyped
<1>3. platform # "discord" /\ link # "off"
  BY <1>1 DEF InboundInv, LinkSound
<1>4. WireAfter
  BY <1>3 DEF InboundInv
<1>5. UNCHANGED <<platformVars, link, cursor, page, replaying, wire>>
  BY DEF UserResolved, ChannelResolved
<1>6. m \in late /\ m \notin ToSet(handled) /\ \A x \in ToSet(wire) : m < x
  BY <1>1, <1>4 DEF WireAfter
<1>7. /\ Handled(m) \/ Excused(m) \/ Waits(m)
      /\ waiting' \in [user : SUBSET Nat, channel : SUBSET Nat]
  <2>1. ~(m \in waiting.user /\ m \in waiting.channel)
    BY <1>4 DEF WireAfter
  <2>2. CASE ChannelResolved(m)
    BY <1>2, <2>1, <2>2 DEF ChannelResolved, Handle, Handled
  <2>3. CASE UserResolved(m) /\ Debounce(m)
    BY <1>2, <2>1, <2>3, DebounceTakes DEF UserResolved
  <2>4. CASE UserResolved(m) /\ ~Debounce(m)
    BY <1>2, <2>1, <2>4 DEF UserResolved, Dropped, Excused
  <2> QED
    BY <2>2, <2>3, <2>4
<1> HIDE DEF InboundInv
<1>8. /\ wire' \in Seq(Nat) /\ Increasing(wire') /\ ToSet(wire') \subseteq ToSet(wire)
      /\ ToSet(wire) \subseteq ToSet(wire') \cup {m} /\ \A x \in ToSet(wire') : m < x
  BY <1>2, <1>5, <1>6
<1> QED
  BY <1>2, <1>3, <1>5, <1>6, <1>7, <1>8, MessageTaken


\* A new message comes after all others; what is not delivered is excused, or still to poll.
LEMMA PostKeeps == ASSUME InboundInv, Post PROVE InboundInv'
<1> USE DEF InboundInv
<1> DEFINE m == posted + 1
<1>1. posted \in 0 .. MaxPosts /\ m \in 1 .. MaxPosts /\ posted' = m /\ wire \in Seq(Nat) /\ m \in Nat
  BY InboundAssumption DEF Post, WireTyped
<1>2. UNCHANGED <<platform, link, cursor, page, waiting, handled, late, replaying>>
  BY DEF Post, taskVars
<1>3. \/ /\ wire' = wire /\ excused \subseteq excused'
         /\ m \in Ignored \/ link = "off" => m \in excused'
         /\ m \in excused' \/ platform = "discord"
      \/ /\ platform # "discord" /\ link = "on"
         /\ wire' = Append(wire, m) /\ excused' = excused
  BY <1>1 DEF Post, LinkSound
<1>4. 1 .. posted' = (1 .. posted) \cup {m}
  BY <1>1
<1>5. Append(wire, m) \in Seq(Nat) /\ ToSet(Append(wire, m)) = ToSet(wire) \cup {m}
  BY <1>1, AppendMembers
<1>6. \A x \in ToSet(wire) \cup ToSet(handled) \cup waiting.user \cup waiting.channel : x \in Nat /\ x < m
  BY <1>1 DEF WireTyped
<1>7. Increasing(Append(wire, m))
  BY <1>1, <1>6, AppendIncreasing DEF WireTyped
<1>8. /\ wire' \in Seq(Nat) /\ Increasing(wire')
      /\ \/ ToSet(wire') = ToSet(wire)
         \/ ToSet(wire') = ToSet(wire) \cup {m} /\ platform # "discord"
      /\ link = "off" => wire' = wire
  BY <1>1, <1>3, <1>5, <1>7 DEF WireTyped
<1>9. excused \subseteq excused'
  BY <1>3
<1> HIDE DEF m
<1>10. WireTyped'
  <2>1. waiting' \in [user : SUBSET (1 .. posted'), channel : SUBSET (1 .. posted')]
    BY <1>2, <1>4 DEF WireTyped
  <2>2. ToSet(wire') \subseteq 1 .. posted' /\ ToSet(handled') \subseteq 1 .. posted'
    BY <1>2, <1>4, <1>8 DEF WireTyped
  <2>3. posted' \in 0 .. MaxPosts /\ cursor' \in 0 .. posted'
    BY <1>1, <1>2 DEF WireTyped, m
  <2> QED
    BY <1>2, <1>8, <2>1, <2>2, <2>3 DEF WireTyped
<1>11. LinkSound'
  <2>1. \A last \in cursor .. posted : last \in cursor' .. posted'
    BY <1>1, <1>2 DEF WireTyped, m
  <2>2. link' = "fetched" =>
          platform' = "discord" /\ \E last \in cursor' .. posted' : ToSet(page') = cursor' + 1 .. last
    BY <1>2, <2>1 DEF LinkSound
  <2>3. platform' = "discord" => /\ waiting'.user = {} /\ waiting'.channel = {}
                                 /\ \A x \in ToSet(wire') : x <= cursor'
    BY <1>2, <1>8 DEF LinkSound
  <2>4. platform' = "discord" => Ignored \cap 1 .. posted' \subseteq excused'
    BY <1>2, <1>3, <1>4 DEF LinkSound
  <2>5. link' = "off" => /\ wire' = <<>> /\ waiting'.user = {} /\ waiting'.channel = {}
                         /\ 1 .. posted' \subseteq excused'
    BY <1>2, <1>3, <1>4, <1>8 DEF LinkSound
  <2> QED
    BY <2>2, <2>3, <2>4, <2>5 DEF LinkSound
<1>12. NoneMissed'
  <2>3. cursor' < m
    BY <1>1, <1>2 DEF WireTyped, m
  <2>1. m \in ToSet(wire') \cup excused' \/ (platform' = "discord" /\ m > cursor')
    <3>1. m \in ToSet(Append(wire, m))
      BY <1>5
    <3>2. m > cursor'
      BY <1>1, <2>3
    <3> QED
      BY <1>2, <1>3, <3>1, <3>2
  <2>2. ToSet(wire) \subseteq ToSet(wire')
    BY <1>8
  <2> QED
    BY <1>2, <1>4, <1>9, <2>1, <2>2 DEF NoneMissed, InTheWorks
<1>13. ASSUME WireAfter PROVE WireAfter'
  BY <1>2, <1>6, <1>8, <1>13 DEF WireAfter
<1> QED
  BY <1>2, <1>10, <1>11, <1>12, <1>13

LEMMA AdapterStartsKeeps == ASSUME InboundInv, AdapterStarts PROVE InboundInv'
<1> USE DEF InboundInv
<1>1. link = "off" /\ link' = "on" /\ cursor' \in {0, posted}
      /\ UNCHANGED <<platform, posted, page, wire, waiting, handled, excused, late>>
  BY DEF AdapterStarts, taskVars
<1>2. \/ (replaying' <=> replaying) /\ cursor' = posted
      \/ replaying' /\ platform = "discord"
  BY DEF AdapterStarts
<1>3. ToSet(<<>>) = {}
  BY DEF ToSet
<1>4. WireTyped'
  BY <1>1 DEF WireTyped
<1>5. LinkSound'
  BY <1>1, <1>3 DEF LinkSound
<1>6. NoneMissed'
  BY <1>1 DEF NoneMissed, LinkSound
<1>7. ASSUME WireAfter, cursor' = posted PROVE WireAfter'
  BY <1>1, <1>7 DEF WireAfter, WireTyped
<1> QED
  BY <1>1, <1>2, <1>4, <1>5, <1>6, <1>7

\* A page is what comes after the cursor, as far as it fits and is there.
LEMMA PageFetchKeeps ==
  ASSUME InboundInv, Fetch \/ FetchFails
  PROVE  InboundInv'
<1> USE DEF InboundInv
<1>1. UNCHANGED <<platform, posted, cursor, wire, waiting, handled, excused, late, replaying>>
      /\ link # "off" /\ link' # "off" /\ (link' = "fetched" => Fetch)
  BY DEF Fetch, FetchFails, platformVars, taskVars
<1>2. ASSUME Fetch PROVE platform = "discord" /\ \E last \in cursor .. posted : ToSet(page') = cursor + 1 .. last
  <2> DEFINE last == IF posted < cursor + PageSize THEN posted ELSE cursor + PageSize
             ids == [i \in 1 .. last - cursor |-> cursor + i]
  <2>1. platform = "discord" /\ page' = Reverse(ids)
    BY <1>2 DEF Fetch
  <2>2. posted \in Nat /\ cursor \in 0 .. posted /\ PageSize \in Nat /\ PageSize > 0
    BY InboundAssumption DEF WireTyped
  <2>3. last \in cursor .. posted /\ last - cursor \in Nat
    BY <2>2
  <2> HIDE DEF last
  <2>4. ids \in Seq(Nat) /\ Len(ids) = last - cursor
    BY <2>2, <2>3
  <2>5. \A i \in 1 .. last - cursor : ids[(last - cursor - i) + 1] = cursor + ((last - cursor - i) + 1)
    <3> TAKE i \in 1 .. last - cursor
    <3>1. (last - cursor - i) + 1 \in 1 .. last - cursor
      BY <2>3
    <3> QED
      BY <3>1
  <2> HIDE DEF ids
  <2>6. page' = [i \in 1 .. last - cursor |-> cursor + ((last - cursor - i) + 1)]
    <3>1. page' = [i \in 1 .. last - cursor |-> ids[(last - cursor - i) + 1]]
      BY <2>1, <2>4 DEF Reverse
    <3> QED
      BY <2>5, <3>1
  <2>7. ASSUME NEW k \in cursor + 1 .. last PROVE k \in ToSet(page')
    <3>1. last - k + 1 \in 1 .. last - cursor /\ cursor + ((last - cursor - (last - k + 1)) + 1) = k
      BY <2>2, <2>3
    <3> QED
      BY <2>6, <3>1 DEF ToSet
  <2>8. ASSUME NEW k \in ToSet(page') PROVE k \in cursor + 1 .. last
    BY <2>2, <2>3, <2>6 DEF ToSet
  <2> QED
    BY <2>1, <2>3, <2>7, <2>8
<1>3. WireTyped' /\ NoneMissed'
  BY <1>1 DEF WireTyped, NoneMissed, InTheWorks
<1>4. LinkSound'
  BY <1>1, <1>2 DEF LinkSound
<1>5. ASSUME WireAfter PROVE WireAfter'
  BY <1>1, <1>5 DEF WireAfter
<1> QED
  BY <1>1, <1>3, <1>4, <1>5


\* What was fetched goes on the wire in order, and the cursor moves to its end: nothing
\* between the two cursors is skipped.
LEMMA PolledKeeps == ASSUME InboundInv, Polled PROVE InboundInv'
<1> DEFINE all == [m \in Posts |-> m]
           msgs == Sorted(page)
           news == Filter(msgs, Posts \ Ignored)
<1>1. /\ platform = "discord" /\ posted \in 0 .. MaxPosts /\ cursor \in 0 .. posted /\ MaxPosts \in Nat
      /\ wire \in Seq(Nat) /\ Increasing(wire)
  BY InboundAssumption DEF InboundInv, WireTyped, LinkSound, Polled
<1>2. PICK last \in cursor .. posted : ToSet(page) = cursor + 1 .. last
  BY DEF InboundInv, LinkSound, Polled
<1>3. all \in Seq(Nat) /\ Increasing(all) /\ ToSet(all) = Posts
  BY <1>1 DEF Posts, Increasing, ToSet
<1>4. /\ msgs \in Seq(Nat) /\ Increasing(msgs) /\ ToSet(msgs) = cursor + 1 .. last
  <2>1. Filter(all, ToSet(page)) \in Seq(Nat) /\ ToSet(Filter(all, ToSet(page))) = ToSet(all) \cap ToSet(page)
    BY <1>3, FilterMembers
  <2>2. Increasing(Filter(all, ToSet(page)))
    BY <1>3, FilterIncreasing
  <2>3. cursor + 1 .. last \subseteq Posts
    BY <1>1, <1>2 DEF Posts
  <2> QED
    BY <1>2, <1>3, <2>1, <2>2, <2>3 DEF Sorted
<1> HIDE DEF msgs, all
<1>5. /\ news \in Seq(Nat) /\ Increasing(news) /\ ToSet(news) = (cursor + 1 .. last) \ Ignored
  <2>1. news \in Seq(Nat) /\ ToSet(news) = ToSet(msgs) \cap (Posts \ Ignored)
    BY <1>4, FilterMembers
  <2>2. Increasing(news)
    BY <1>4, FilterIncreasing
  <2>3. cursor + 1 .. last \subseteq Posts
    BY <1>1, <1>2 DEF Posts
  <2> QED
    BY <1>4, <2>1, <2>2, <2>3
<1>6. cursor' = last
  <2>1. cursor' = IF msgs = <<>> THEN cursor ELSE Last(msgs)
    BY DEF Polled, msgs
  <2>2. CASE msgs = <<>>
    <3>1. cursor + 1 .. last = {}
      BY <1>4, <2>2 DEF ToSet
    <3>2. last = cursor
      BY <1>1, <1>2, <3>1
    <3> QED
      BY <2>1, <2>2, <3>2
  <2>3. CASE msgs # <<>>
    <3>1. Last(msgs) \in cursor + 1 .. last /\ \A x \in cursor + 1 .. last : x <= Last(msgs)
      BY <1>4, <2>3, EndsOfIncreasing
    <3>2. last \in cursor + 1 .. last
      BY <1>1, <1>2, <3>1
    <3> QED
      BY <1>1, <1>2, <2>1, <2>3, <3>1, <3>2
  <2> QED
    BY <2>2, <2>3
<1>7. wire' = wire \o news /\ link' = "on"
      /\ UNCHANGED <<platform, posted, waiting, handled, excused, late, replaying>>
  BY DEF Polled, platformVars, taskVars, msgs
<1> HIDE DEF news
<1>8. \A x \in ToSet(wire) : x <= cursor /\ x \in 1 .. posted
  BY <1>1 DEF InboundInv, LinkSound, WireTyped
<1>9. wire' \in Seq(Nat) /\ ToSet(wire') = ToSet(wire) \cup ToSet(news)
  BY <1>1, <1>5, <1>7, ConcatMembers
<1>10. Increasing(wire')
  <2>1. \A x \in ToSet(wire), y \in ToSet(news) : x < y
    BY <1>1, <1>2, <1>5, <1>8
  <2> QED
    BY <1>1, <1>5, <1>7, <2>1, ConcatIncreasing
<1>11. \A x \in ToSet(wire') : x <= last /\ x \in 1 .. posted
  BY <1>1, <1>2, <1>5, <1>8, <1>9
<1> USE DEF InboundInv
<1>12. WireTyped'
  BY <1>1, <1>2, <1>6, <1>7, <1>9, <1>10, <1>11 DEF WireTyped
<1>13. LinkSound'
  BY <1>1, <1>6, <1>7, <1>11 DEF LinkSound
<1>14. NoneMissed'
  <2> SUFFICES ASSUME NEW m \in 1 .. posted, ~(m > last), m \notin ToSet(handled), m \notin excused,
                      m \notin waiting.user, m \notin waiting.channel
               PROVE  m \in ToSet(wire')
    BY <1>1, <1>6, <1>7 DEF NoneMissed, InTheWorks
  <2>1. m \notin Ignored
    BY <1>1 DEF LinkSound
  <2>2. m \in ToSet(wire) \/ m > cursor
    BY DEF NoneMissed, InTheWorks
  <2>3. m > cursor => m \in cursor + 1 .. last
    BY <1>1, <1>2
  <2> QED
    BY <1>5, <1>9, <2>1, <2>2, <2>3
<1>15. ASSUME WireAfter PROVE WireAfter'
  <2>1. waiting.user = {} /\ waiting.channel = {} /\ \A x \in ToSet(handled) : x <= cursor /\ x \in Nat
    BY <1>1, <1>15 DEF LinkSound, WireAfter, WireTyped, Polled
  <2>2. \A m \in ToSet(wire'), x \in ToSet(handled) : x < m
    <3>1. \A m \in ToSet(news), x \in ToSet(handled) : x < m
      BY <1>1, <1>2, <1>5, <2>1
    <3>2. \A m \in ToSet(wire), x \in ToSet(handled) : x < m
      BY <1>15 DEF WireAfter
    <3> QED
      BY <1>9, <3>1, <3>2
  <2>3. \A x \in ToSet(handled) : x <= cursor'
    BY <1>1, <1>2, <1>6, <2>1
  <2> QED
    BY <1>7, <1>15, <2>1, <2>2, <2>3 DEF WireAfter
<1> QED
  BY <1>7, <1>12, <1>13, <1>14, <1>15

\* The socket takes what was on its way with it, the process everything.
LEMMA LinkEndsKeeps == ASSUME InboundInv, Disconnect \/ Exit PROVE InboundInv'
<1> USE DEF InboundInv
<1>1. /\ wire' = <<>> /\ excused \subseteq excused' /\ ToSet(wire) \subseteq excused'
      /\ UNCHANGED <<platform, posted, handled, late, replaying>>
      /\ cursor' \in {0, cursor} /\ link' # "fetched"
      /\ \/ waiting' = waiting /\ link' = "cut" /\ platform = "mattermost"
         \/ /\ waiting' = [user |-> {}, channel |-> {}] /\ 1 .. posted \subseteq excused'
            /\ link' = "off"
  BY DEF Disconnect, Exit, platformVars, taskVars, WireTyped
<1>2. ToSet(<<>>) = {} /\ Increasing(<<>>)
  BY DEF ToSet, Increasing
<1>3. WireTyped'
  BY <1>1, <1>2 DEF WireTyped
<1>4. LinkSound'
  BY <1>1, <1>2 DEF LinkSound
<1>5. NoneMissed'
  BY <1>1, <1>2 DEF NoneMissed, InTheWorks
<1>6. ASSUME WireAfter PROVE WireAfter'
  BY <1>1, <1>2, <1>6 DEF WireAfter
<1> QED
  BY <1>1, <1>3, <1>4, <1>5, <1>6

LEMMA InboundStep == InboundInv /\ [InboundNext]_inboundVars => InboundInv'
<1> SUFFICES ASSUME InboundInv, [InboundNext]_inboundVars PROVE InboundInv'
  OBVIOUS
<1>1. CASE TurnOver \/ WindowPasses \/ Reconnect \/ UNCHANGED inboundVars
  <2>1. /\ UNCHANGED <<platform, posted, cursor, page, wire, waiting, handled, excused, late, replaying>>
        /\ link' = link \/ (link = "cut" /\ link' = "on")
    BY <1>1 DEF TurnOver, WindowPasses, Reconnect, inboundVars, platformVars, taskVars
  <2> QED
    BY <2>1 DEF InboundInv, WireTyped, LinkSound, WireAfter, NoneMissed, InTheWorks
<1> QED
  BY <1>1, PostKeeps, AdapterStartsKeeps, PageFetchKeeps, PolledKeeps, ReceiveKeeps, ResolvedKeeps,
     LinkEndsKeeps DEF InboundNext

LEMMA InboundBegins == InboundInit => InboundInv
<1>1. ToSet(<<>>) = {} /\ Increasing(<<>>) /\ Ordered(<<>>, {})
  BY DEF ToSet, Increasing, Ordered
<1> QED
  BY <1>1, InboundAssumption DEF InboundInit, InboundInv, WireTyped, LinkSound, WireAfter, NoneMissed, InTheWorks

LEMMA InboundKept == InboundInv => MessagesKept
  BY DEF InboundInv, MessagesKept, InOrderOnce, WireAfter, Ordered

\* What is written in a channel reaches the turn once and in order, but for messages that a new
\* adapter reads again and those whose window or lookup held them up; what came while the
\* adapter was there is handled, under way or still to be polled.
THEOREM MessagesAreKept == RecordsSpec => []MessagesKept
<1>1. RecordsInit => InboundInv
  BY InboundBegins DEF RecordsInit
<1>2. ASSUME InboundInv, [RecordsNext]_recordVars
      PROVE  InboundInv'
  <2>1. [InboundNext]_inboundVars
    BY <1>2 DEF RecordsNext, recordVars, Still
  <2> QED
    BY <1>2, <2>1, InboundStep
<1>3. InboundInv /\ [RecordsNext]_recordVars => InboundInv'
  BY <1>2
<1> QED
  BY <1>1, <1>3, InboundKept, PTL DEF RecordsSpec
--------------------------------------------------------------------------------
(* The exchange with a provider                                            *)

\* A message by its fields, and messages with any sets in the place of them.
Msg(b, t, c, a, x) == [by |-> b, text |-> t, calls |-> c, answers |-> a, cached |-> x]
MsgsOver(B, T, C, A, X) == [by : B, text : T, calls : C, answers : A, cached : X]

LEMMA MsgFields ==
  ASSUME NEW B, NEW T, NEW C, NEW A, NEW X, NEW m \in MsgsOver(B, T, C, A, X)
  PROVE  /\ m = Msg(m.by, m.text, m.calls, m.answers, m.cached)
         /\ m.by \in B /\ m.text \in T /\ m.calls \in C /\ m.answers \in A /\ m.cached \in X
BY DEF MsgsOver, Msg

LEMMA MsgIn ==
  ASSUME NEW B, NEW T, NEW C, NEW A, NEW X, NEW b \in B, NEW t \in T, NEW c \in C, NEW a \in A, NEW x \in X
  PROVE  Msg(b, t, c, a, x) \in MsgsOver(B, T, C, A, X)
BY DEF MsgsOver, Msg

LEMMA MsgGives ==
  ASSUME NEW b, NEW t, NEW c, NEW a, NEW x
  PROVE  /\ Msg(b, t, c, a, x).by = b /\ Msg(b, t, c, a, x).text = t
         /\ Msg(b, t, c, a, x).calls = c /\ Msg(b, t, c, a, x).answers = a
         /\ Msg(b, t, c, a, x).cached = x
BY DEF Msg

LEMMA TheMsg ==
  ASSUME NEW b, NEW t, NEW c, NEW a, NEW x, NEW m \in MsgsOver({b}, {t}, {c}, {a}, {x})
  PROVE  m = Msg(b, t, c, a, x)
<1>1. m.by = b /\ m.text = t /\ m.calls = c /\ m.answers = a /\ m.cached = x
  BY MsgFields
<1> QED
  BY <1>1, MsgFields

LEMMA MsgReplaced ==
  ASSUME NEW B, NEW T, NEW C, NEW A, NEW X, NEW m \in MsgsOver(B, T, C, A, X),
         NEW Y, NEW y \in Y, NEW Z, NEW z \in Z
  PROVE  /\ [m EXCEPT !.by = y] \in MsgsOver(Y, T, C, A, X)
         /\ [m EXCEPT !.by = y, !.text = z] \in MsgsOver(Y, Z, C, A, X)
         /\ [m EXCEPT !.by = y, !.calls = z] \in MsgsOver(Y, T, Z, A, X)
         /\ [m EXCEPT !.by = y, !.answers = z] \in MsgsOver(Y, T, C, Z, X)
         /\ [m EXCEPT !.calls = y, !.answers = z] \in MsgsOver(B, T, Y, Z, X)
         /\ [m EXCEPT !.cached = y] \in MsgsOver(B, T, C, A, Y)
<1> USE DEF MsgsOver
<1>1. [m EXCEPT !.by = y] \in MsgsOver(Y, T, C, A, X)
  OBVIOUS
<1>2. [m EXCEPT !.by = y, !.text = z] \in MsgsOver(Y, Z, C, A, X)
  OBVIOUS
<1>3. [m EXCEPT !.by = y, !.calls = z] \in MsgsOver(Y, T, Z, A, X)
  OBVIOUS
<1>4. [m EXCEPT !.by = y, !.answers = z] \in MsgsOver(Y, T, C, Z, X)
  OBVIOUS
<1>5. [m EXCEPT !.calls = y, !.answers = z] \in MsgsOver(B, T, Y, Z, X)
  OBVIOUS
<1>6. [m EXCEPT !.cached = y] \in MsgsOver(B, T, C, A, Y)
  OBVIOUS
<1> QED
  BY <1>1, <1>2, <1>3, <1>4, <1>5, <1>6

LEMMA MsgBy ==
  ASSUME NEW b, NEW t, NEW c, NEW a, NEW x, NEW y, NEW m, m = Msg(b, t, c, a, x)
  PROVE  [m EXCEPT !.by = y] = Msg(y, t, c, a, x)
<1>1. m \in MsgsOver({b}, {t}, {c}, {a}, {x})
  BY MsgIn
<1>2. [m EXCEPT !.by = y] \in MsgsOver({y}, {t}, {c}, {a}, {x})
  BY <1>1, MsgReplaced
<1> QED
  BY <1>2, TheMsg

LEMMA MsgCached ==
  ASSUME NEW b, NEW t, NEW c, NEW a, NEW x, NEW y, NEW m, m = Msg(b, t, c, a, x)
  PROVE  [m EXCEPT !.cached = y] = Msg(b, t, c, a, y)
<1>1. m \in MsgsOver({b}, {t}, {c}, {a}, {x})
  BY MsgIn
<1>2. [m EXCEPT !.cached = y] \in MsgsOver({b}, {t}, {c}, {a}, {y})
  BY <1>1, MsgReplaced
<1> QED
  BY <1>2, TheMsg

\* What is said is not marked.
No == FALSE

LEMMA SaidIs == \A by, n : Said(by, n) = Msg(by, n, {}, {}, No)
<1> DEFINE m == Nobody
           b == "nobody"
           t == 0
           c == {}
<1>1. m = Msg(b, t, c, c, No)
  BY DEF Nobody, Msg, No
<1> HIDE DEF m, b, t, c
<1>2. ASSUME NEW by, NEW n PROVE Said(by, n) = Msg(by, n, c, c, No)
  <2>1. m \in MsgsOver({b}, {t}, {c}, {c}, {No})
    BY <1>1, MsgIn
  <2>2. [m EXCEPT !.by = by, !.text = n] \in MsgsOver({by}, {n}, {c}, {c}, {No})
    BY <2>1, MsgReplaced
  <2>3. Said(by, n) \in MsgsOver({by}, {n}, {c}, {c}, {No})
    BY <2>2 DEF Said, m
  <2> QED
    BY <2>3, TheMsg
<1> QED
  BY <1>2 DEF c

LEMMA BareIs ==
  ASSUME NEW b, NEW t, NEW c, NEW a, NEW x, NEW m, m = Msg(b, t, c, a, x)
  PROVE  Bare(m) = Msg(b, t, {}, {}, x)
<1> DEFINE none == {}
<1> HIDE DEF none
<1>1. m \in MsgsOver({b}, {t}, {c}, {a}, {x})
  BY MsgIn
<1>2. [m EXCEPT !.calls = none, !.answers = none] \in MsgsOver({b}, {t}, {none}, {none}, {x})
  BY <1>1, MsgReplaced
<1>3. Bare(m) \in MsgsOver({b}, {t}, {none}, {none}, {x})
  BY <1>2 DEF Bare, none
<1> QED
  BY <1>3, TheMsg DEF none

LEMMA AskedIs ==
  ASSUME NEW b, NEW t, NEW c, NEW a, NEW x, NEW m, m = Msg(b, t, c, a, x), b \in {"user", "assistant"},
         m.by = b
  PROVE  [m EXCEPT !.by = IF @ = "assistant" THEN @ ELSE "user"] = m
<1>1. (IF m.by = "assistant" THEN m.by ELSE "user") = b
  OBVIOUS
<1>2. [m EXCEPT !.by = b] = Msg(b, t, c, a, x)
  BY MsgBy
<1> QED
  BY <1>1, <1>2

--------------------------------------------------------------------------------
(* What is sent                                                            *)

\* What is said in a conversation.
Speech == MsgsOver({"user", "assistant"}, Nat \ {0}, {{}}, {{}}, {No})

Mark(s, i) == backend = "anthropic" /\ Len(s) > CacheTail + 1 /\ i = Boundary(s)

\* A conversation as it is sent: with the mark of the cache at most.
Plain(s) == [i \in DOMAIN s |-> Msg(s[i].by, s[i].text, {}, {}, Mark(s, i))]

LEMMA SpeechIs ==
  ASSUME NEW m \in Speech
  PROVE  /\ m = Msg(m.by, m.text, {}, {}, No)
         /\ m.by \in {"user", "assistant"} /\ m.text \in Nat /\ m.text # 0
<1>1. /\ m = Msg(m.by, m.text, m.calls, m.answers, m.cached)
      /\ m.by \in {"user", "assistant"} /\ m.text \in Nat \ {0}
      /\ m.calls \in {{}} /\ m.answers \in {{}} /\ m.cached \in {No}
  <2>1. m \in MsgsOver({"user", "assistant"}, Nat \ {0}, {{}}, {{}}, {No})
    BY DEF Speech
  <2> QED
    BY <2>1, MsgFields
<1>2. m.calls = {} /\ m.answers = {} /\ m.cached = No
  BY <1>1
<1> QED
  BY <1>1, <1>2

LEMMA SpokenIsAll ==
  ASSUME NEW s \in Seq(Speech)
  PROVE  Spoken(s) = s
<1> DEFINE S == {m \in ToSet(s) : m.by \in {"user", "assistant"}}
<1>1. ToSet(s) \subseteq S
  <2>1. \A m \in ToSet(s) : m \in Speech
    BY DEF ToSet
  <2> QED
    BY <2>1, SpeechIs
<1> HIDE DEF S
<1>2. Filter(s, S) = s
  BY <1>1, FilterAll
<1> QED
  BY <1>2 DEF Spoken, S

LEMMA PlainRequest ==
  ASSUME NEW s \in Seq(Speech), backend \in Backends
  PROVE  Request(s) = Preamble \o Plain(s)
<1>1. \A i \in DOMAIN s : s[i] = Msg(s[i].by, s[i].text, {}, {}, No) /\ s[i].by \in {"user", "assistant"}
  <2>1. \A i \in DOMAIN s : s[i] \in Speech
    OBVIOUS
  <2> QED
    BY <2>1, SpeechIs
<1>2. \A i \in DOMAIN s : Bare(s[i]) = s[i]
  BY <1>1, BareIs
<1>3. backend # "anthropic" => Plain(s) = s
  <2> SUFFICES ASSUME backend # "anthropic" PROVE Plain(s) = s
    OBVIOUS
  <2>1. \A i : Mark(s, i) = No
    BY DEF Mark, No
  <2>2. [i \in DOMAIN s |-> s[i]] = s
    OBVIOUS
  <2> HIDE DEF Mark
  <2>3. \A i \in DOMAIN s : Msg(s[i].by, s[i].text, {}, {}, Mark(s, i)) = s[i]
    BY <1>1, <2>1
  <2>4. Plain(s) = [i \in DOMAIN s |-> s[i]]
    BY <2>3 DEF Plain
  <2> QED
    BY <2>2, <2>4
<1>4. s = [i \in DOMAIN s |-> s[i]]
  OBVIOUS
<1>5. Spoken(s) = s
  BY SpokenIsAll
<1>6. ToOllama(s) = Preamble \o s
  BY <1>2, <1>4 DEF ToOllama
<1>7. ToGemini(s) = Preamble \o s
  <2>1. \A i \in DOMAIN s : [s[i] EXCEPT !.by = IF @ = "assistant" THEN @ ELSE "user"] = s[i]
    BY <1>1, AskedIs
  <2>2. [i \in DOMAIN s |-> Bare([s[i] EXCEPT !.by = IF @ = "assistant" THEN @ ELSE "user"])] = s
    BY <1>2, <1>4, <2>1
  <2> QED
    BY <2>2 DEF ToGemini
<1>8. BuildPrompt(s) = Preamble \o s
  BY <1>2, <1>4, <1>5 DEF BuildPrompt
<1>9. CASE backend = "anthropic"
  <2>1. \A i \in DOMAIN s : [Bare(s[i]) EXCEPT !.cached = Len(s) > CacheTail + 1 /\ i = Boundary(s)]
                              = Msg(s[i].by, s[i].text, {}, {}, Mark(s, i))
    <3> TAKE i \in DOMAIN s
    <3>1. Mark(s, i) = (Len(s) > CacheTail + 1 /\ i = Boundary(s))
      BY <1>9 DEF Mark
    <3>2. Bare(s[i]) = Msg(s[i].by, s[i].text, {}, {}, No)
      BY <1>1, <1>2
    <3>3. [Bare(s[i]) EXCEPT !.cached = Mark(s, i)] = Msg(s[i].by, s[i].text, {}, {}, Mark(s, i))
      BY <3>2, MsgCached
    <3> QED
      BY <3>1, <3>3
  <2>2. ToAnthropic(s) = Preamble \o Plain(s)
    BY <1>5, <2>1 DEF ToAnthropic, Plain
  <2> QED
    BY <1>9, <2>2 DEF Request
<1>10. CASE backend # "anthropic"
  <2>1. Request(s) = Preamble \o s
    BY <1>6, <1>7, <1>8, <1>10 DEF Request, Backends, ToOpenAI, ToVllm, ToBedrock, ToCohere
  <2> QED
    BY <1>3, <1>10, <2>1
<1> QED
  BY <1>9, <1>10

TurnOf(c) == [kind |-> "turn", calls |-> c]
ResultOf(id) == [kind |-> "result", id |-> id]

LEMMA MessageIs ==
  /\ \A c : Message(TurnOf(c)) = Msg("assistant", 0, c, {}, No)
  /\ \A id : Message(ResultOf(id)) = Msg("tool", 0, {}, {id}, No)
<1> DEFINE m == Nobody
           b == "nobody"
           a == "assistant"
           l == "tool"
           t == 0
           c == {}
<1>1. m = Msg(b, t, c, c, No)
  BY DEF Nobody, Msg, No
<1> HIDE DEF m, b, t, c, a, l
<1>2. m \in MsgsOver({b}, {t}, {c}, {c}, {No})
  BY <1>1, MsgIn
<1>3. ASSUME NEW k PROVE Message(TurnOf(k)) = Msg(a, t, k, c, No)
  <2>1. [m EXCEPT !.by = a, !.calls = k] \in MsgsOver({a}, {t}, {k}, {c}, {No})
    BY <1>2, MsgReplaced
  <2>2. TurnOf(k).kind = "turn" /\ TurnOf(k).calls = k
    BY DEF TurnOf
  <2>3. Message(TurnOf(k)) \in MsgsOver({a}, {t}, {k}, {c}, {No})
    BY <2>1, <2>2 DEF Message, m, a
  <2> QED
    BY <2>3, TheMsg
<1>4. ASSUME NEW id PROVE Message(ResultOf(id)) = Msg(l, t, c, {id}, No)
  <2> DEFINE k == {id}
  <2> HIDE DEF k
  <2>1. [m EXCEPT !.by = l, !.answers = k] \in MsgsOver({l}, {t}, {c}, {k}, {No})
    BY <1>2, MsgReplaced
  <2>2. ResultOf(id).kind = "result" /\ ResultOf(id).id = id
    BY DEF ResultOf
  <2>3. Message(ResultOf(id)) \in MsgsOver({l}, {t}, {c}, {k}, {No})
    BY <2>1, <2>2 DEF Message, m, l, k
  <2> QED
    BY <2>3, TheMsg DEF k
<1> QED
  BY <1>3, <1>4 DEF a, l, t, c

\* The system prompt.
System == Msg("system", 0, {}, {}, No)

LEMMA SystemUnmarked == ~System.cached
<1>1. System.cached = No
  BY MsgGives DEF System
<1>2. No = FALSE
  BY DEF No
<1> QED
  BY <1>1, <1>2

LEMMA PreambleIs == Preamble = IF instructions THEN <<System>> ELSE <<>>
BY SaidIs DEF Preamble, System

\* What is sent behind the preamble.
LEMMA BehindPreamble ==
  ASSUME NEW T, NEW s \in Seq(T)
  PROVE  LET r == Preamble \o s
             p == Len(Preamble)
         IN  /\ p \in {0, 1} /\ (p = 1 <=> instructions)
             /\ Len(r) = p + Len(s) /\ DOMAIN r = 1 .. p + Len(s)
             /\ \A i \in 1 .. p : r[i] = System
             /\ \A i \in 1 .. Len(s) : r[p + i] = s[i]
<1>1. Preamble \in Seq({System}) /\ s \in Seq(T)
  BY PreambleIs
<1>2. CASE instructions
  <2>1. Preamble = <<System>>
    BY <1>2, PreambleIs
  <2> QED
    BY <1>2, <2>1
<1>3. CASE ~instructions
  <2>1. Preamble = <<>>
    BY <1>3, PreambleIs
  <2> QED
    BY <1>3, <2>1
<1> QED
  BY <1>2, <1>3

LEMMA WordsBehind ==
  ASSUME NEW T, NEW s \in Seq(T)
  PROVE  Words(Preamble \o s) = Words(s)
<1>1. CASE ~instructions
  <2>1. Preamble \o s = s
    BY <1>1, PreambleIs
  <2> QED
    BY <2>1
<1>2. CASE instructions
  <2> DEFINE S == {m \in ToSet(s) : m.text # 0}
             z == <<System>> \o s
             U == T \cup {System}
  <2>1. System.text = 0
    BY MsgGives DEF System
  <2>2. s \in Seq(U) /\ <<System>> \in Seq(U) /\ System \in U
    OBVIOUS
  <2>3. ToSet(z) = {System} \cup ToSet(s)
    <3> DEFINE q == <<System>>
    <3>1. ToSet(q) = {System} /\ q \in Seq(U)
      BY DEF ToSet
    <3> HIDE DEF U, q
    <3>2. ToSet(q \o s) = ToSet(q) \cup ToSet(s)
      BY <2>2, <3>1, ConcatMembers
    <3> QED
      BY <3>1, <3>2 DEF q
  <2>4. {m \in ToSet(z) : m.text # 0} = S
    BY <2>1, <2>3
  <2>5. System \notin S
    BY <2>1
  <2> HIDE DEF S, U
  <2>6. Filter(z, S) = Filter(s, S)
    BY <2>2, <2>5, FilterAfter
  <2>7. Preamble \o s = z
    BY <1>2, PreambleIs
  <2>8. Words(z) = Words(s)
    BY <2>4, <2>6 DEF Words, S
  <2> QED
    BY <2>7, <2>8
<1> QED
  BY <1>1, <1>2

\* The properties of what is sent, of any messages.
Whole(s) ==
    LET request == Request(s)
        system == {i \in DOMAIN request : request[i].by = "system"}
    IN  /\ system = IF instructions THEN {1} ELSE {}
        /\ Words(request) = Words(s)

Paired(s) ==
    LET request == Request(s)
        results == {i \in DOMAIN request : request[i].by = "tool"}
        After(i) == {r \in results : r > i /\ i + 1 .. r \subseteq results}
        turns == {i \in DOMAIN request : request[i].calls # {}}
    IN  /\ results = UNION {After(i) : i \in turns}
        /\ \A i \in turns :
              /\ UNION {request[r].answers : r \in After(i)} = request[i].calls
              /\ Cardinality(After(i)) = Cardinality(request[i].calls)

MarkedIn(s) == {i \in DOMAIN Request(s) : Request(s)[i].cached}

Stable(s) ==
    \A n \in DOMAIN s :
        LET now == MarkedIn(s)
            then == MarkedIn(SubSeq(s, 1, n))
        IN  /\ now # {} => now = {Len(Request(s)) - CacheTail}
            /\ then # {} => now # {} /\ Max(then) <= Max(now)

\* What the transcript of a run holds is said, too.
Told == MsgsOver({"user", "assistant", "tool"}, Nat, SUBSET (Nat \X Nat), SUBSET (Nat \X Nat), {No})

LEMMA ToldIs ==
  ASSUME NEW m \in Told
  PROVE  m.by \in {"user", "assistant", "tool"} /\ m.cached = No
<1>1. m.by \in {"user", "assistant", "tool"} /\ m.cached \in {No}
  BY MsgFields DEF Told
<1> QED
  BY <1>1

LEMMA WholeBehind ==
  ASSUME NEW T, NEW s, NEW q \in Seq(T), Request(s) = Preamble \o q,
         \A i \in DOMAIN q : q[i].by \in {"user", "assistant", "tool"}, Words(q) = Words(s)
  PROVE  Whole(s)
<1> DEFINE r == Preamble \o q
           p == Len(Preamble)
<1>1. /\ p \in {0, 1} /\ (p = 1 <=> instructions)
      /\ Len(r) = p + Len(q) /\ DOMAIN r = 1 .. p + Len(q)
      /\ \A i \in 1 .. p : r[i] = System
      /\ \A i \in 1 .. Len(q) : r[p + i] = q[i]
  BY BehindPreamble
<1>2. Words(r) = Words(q)
  BY WordsBehind
<1>3. System.by = "system" /\ DOMAIN q = 1 .. Len(q) /\ Len(q) \in Nat
  BY MsgGives DEF System
<1> HIDE DEF r, p
<1>4. \A i \in DOMAIN r : r[i].by = "system" <=> i <= p
  <2> TAKE i \in DOMAIN r
  <2>1. CASE i <= p
    BY <1>1, <1>3, <2>1
  <2>2. CASE ~(i <= p)
    <3>1. i - p \in 1 .. Len(q) /\ p + (i - p) = i
      BY <1>1, <1>3, <2>2
    <3>2. r[i] = q[i - p] /\ q[i - p].by \in {"user", "assistant", "tool"}
      BY <1>1, <1>3, <3>1
    <3> QED
      BY <2>2, <3>2
  <2> QED
    BY <2>1, <2>2
<1>5. {i \in DOMAIN r : r[i].by = "system"} = 1 .. p
  BY <1>1, <1>3, <1>4
<1>6. 1 .. p = IF instructions THEN {1} ELSE {}
  <2>1. 1 .. 0 = {} /\ 1 .. 1 = {1}
    OBVIOUS
  <2>2. p = IF instructions THEN 1 ELSE 0
    BY <1>1
  <2> QED
    BY <2>1, <2>2
<1>7. Request(s) = r
  BY DEF r
<1> QED
  BY <1>2, <1>5, <1>6, <1>7 DEF Whole

LEMMA PlainIs ==
  ASSUME NEW s \in Seq(Speech)
  PROVE  /\ Plain(s) \in Seq(ToSet(Plain(s))) /\ Len(Plain(s)) = Len(s) /\ DOMAIN Plain(s) = 1 .. Len(s)
         /\ \A i \in 1 .. Len(s) :
               /\ Plain(s)[i].by = s[i].by /\ Plain(s)[i].text = s[i].text
               /\ Plain(s)[i].calls = {} /\ Plain(s)[i].answers = {}
               /\ Plain(s)[i].cached <=> Mark(s, i)
<1> DEFINE z == Plain(s)
<1>1. Len(s) \in Nat /\ DOMAIN s = 1 .. Len(s)
  OBVIOUS
<1>2. DOMAIN z = 1 .. Len(s) /\ \A i \in 1 .. Len(s) : z[i] = Msg(s[i].by, s[i].text, {}, {}, Mark(s, i))
  BY <1>1 DEF Plain
<1>3. z \in [1 .. Len(s) -> ToSet(z)]
  BY <1>1, <1>2 DEF ToSet, Plain
<1> HIDE DEF z
<1>4. z \in Seq(ToSet(z)) /\ Len(z) = Len(s)
  BY <1>1, <1>3
<1>5. ASSUME NEW i \in 1 .. Len(s)
      PROVE  /\ z[i].by = s[i].by /\ z[i].text = s[i].text /\ z[i].calls = {} /\ z[i].answers = {}
             /\ z[i].cached <=> Mark(s, i)
  <2> DEFINE x == Mark(s, i)
  <2>1. x \in BOOLEAN
    BY DEF Mark
  <2> HIDE DEF x
  <2>2. z[i] = Msg(s[i].by, s[i].text, {}, {}, x)
    BY <1>2 DEF x
  <2>3. /\ z[i].by = s[i].by /\ z[i].text = s[i].text /\ z[i].calls = {} /\ z[i].answers = {}
        /\ z[i].cached = x
    BY <2>2, MsgGives
  <2>4. z[i].cached <=> x
    BY <2>3
  <2> QED
    BY <2>3, <2>4 DEF x
<1> QED
  BY <1>2, <1>4, <1>5 DEF z

LEMMA WordsOfPlain ==
  ASSUME NEW s \in Seq(Speech)
  PROVE  Words(Plain(s)) = Words(s)
<1> DEFINE z == Plain(s)
           T == ToSet(z)
<1>1. /\ z \in Seq(T) /\ Len(z) = Len(s) /\ DOMAIN z = 1 .. Len(s) /\ DOMAIN s = 1 .. Len(s)
      /\ \A i \in 1 .. Len(s) : z[i].by = s[i].by /\ z[i].text = s[i].text
  BY PlainIs
<1>2. \A i \in 1 .. Len(s) : s[i].text # 0
  <2>1. \A i \in 1 .. Len(s) : s[i] \in Speech
    OBVIOUS
  <2> QED
    BY <2>1, SpeechIs
<1>3. {m \in ToSet(s) : m.text # 0} = ToSet(s) /\ {m \in ToSet(z) : m.text # 0} = ToSet(z)
  BY <1>1, <1>2 DEF ToSet
<1> HIDE DEF z, T
<1>4. Filter(z, ToSet(z)) = z
  BY <1>1, FilterAll
<1>5. Filter(s, ToSet(s)) = s
  BY FilterAll
<1>6. Words(z) = [i \in DOMAIN z |-> <<z[i].by, z[i].text>>]
  BY <1>3, <1>4 DEF Words
<1>7. Words(s) = [i \in DOMAIN s |-> <<s[i].by, s[i].text>>]
  BY <1>3, <1>5 DEF Words
<1> QED
  BY <1>1, <1>6, <1>7 DEF z

LEMMA SpeechWhole ==
  ASSUME NEW s \in Seq(Speech), backend \in Backends
  PROVE  Whole(s)
<1> DEFINE T == ToSet(Plain(s))
<1>1. /\ Plain(s) \in Seq(T) /\ DOMAIN Plain(s) = 1 .. Len(s)
      /\ \A i \in 1 .. Len(s) : Plain(s)[i].by = s[i].by
  BY PlainIs
<1>2. \A i \in 1 .. Len(s) : s[i].by \in {"user", "assistant", "tool"}
  <2>1. \A i \in 1 .. Len(s) : s[i] \in Speech
    OBVIOUS
  <2> QED
    BY <2>1, SpeechIs
<1>3. Request(s) = Preamble \o Plain(s) /\ Words(Plain(s)) = Words(s)
  BY PlainRequest, WordsOfPlain
<1> HIDE DEF T
<1> QED
  BY <1>1, <1>2, <1>3, WholeBehind

LEMMA ToldWhole ==
  ASSUME NEW s \in Seq(Told), backend = "openai"
  PROVE  Whole(s)
<1>1. \A i \in DOMAIN s : s[i].by \in {"user", "assistant", "tool"}
  <2>1. \A i \in DOMAIN s : s[i] \in Told
    OBVIOUS
  <2> QED
    BY <2>1, ToldIs
<1>2. Request(s) = Preamble \o s
  BY DEF Request, ToOpenAI
<1> QED
  BY <1>1, <1>2, WholeBehind

\* The request is the preamble and then q.
Follows(s, q) ==
    LET p == Len(Preamble)
    IN  /\ p \in {0, 1} /\ DOMAIN Request(s) = 1 .. p + Len(q) /\ Len(Request(s)) = p + Len(q)
        /\ \A i \in 1 .. p : Request(s)[i] = System
        /\ \A i \in 1 .. Len(q) : Request(s)[p + i] = q[i]
        /\ \A i \in DOMAIN Request(s) : i <= p \/ (i - p \in 1 .. Len(q) /\ Request(s)[i] = q[i - p])

LEMMA Behind ==
  ASSUME NEW T, NEW q \in Seq(T), NEW s, Request(s) = Preamble \o q
  PROVE  Follows(s, q)
<1> DEFINE r == Preamble \o q
           p == Len(Preamble)
<1>1. /\ p \in {0, 1} /\ Len(r) = p + Len(q) /\ DOMAIN r = 1 .. p + Len(q)
      /\ \A i \in 1 .. p : r[i] = System
      /\ \A i \in 1 .. Len(q) : r[p + i] = q[i]
  BY BehindPreamble
<1>2. Len(q) \in Nat
  OBVIOUS
<1> HIDE DEF r, p
<1>3. ASSUME NEW i \in DOMAIN r, ~(i <= p) PROVE i - p \in 1 .. Len(q) /\ r[i] = q[i - p]
  <2>1. i - p \in 1 .. Len(q) /\ p + (i - p) = i
    BY <1>1, <1>2, <1>3
  <2> QED
    BY <1>1, <2>1
<1>4. Request(s) = r
  BY DEF r
<1> QED
  BY <1>1, <1>3, <1>4 DEF p, Follows

\* A conversation has no calls and no results.
LEMMA SpeechPaired ==
  ASSUME NEW s \in Seq(Speech), backend \in Backends
  PROVE  Paired(s)
<1> DEFINE q == Plain(s)
           T == ToSet(q)
           p == Len(Preamble)
<1>1. /\ q \in Seq(T) /\ Len(q) = Len(s)
      /\ \A i \in 1 .. Len(s) : q[i].by = s[i].by /\ q[i].calls = {}
  BY PlainIs
<1>2. \A i \in 1 .. Len(s) : s[i].by # "tool"
  <2>1. \A i \in 1 .. Len(s) : s[i] \in Speech
    OBVIOUS
  <2> QED
    BY <2>1, SpeechIs
<1>3. Request(s) = Preamble \o q
  BY PlainRequest
<1>4. System.by # "tool" /\ System.calls = {}
  BY MsgGives DEF System
<1> HIDE DEF q, T
<1>5. /\ p \in {0, 1} /\ DOMAIN Request(s) = 1 .. p + Len(q)
      /\ \A i \in 1 .. p : Request(s)[i] = System
      /\ \A i \in DOMAIN Request(s) : i <= p \/ (i - p \in 1 .. Len(q) /\ Request(s)[i] = q[i - p])
  <2>1. Follows(s, q)
    BY <1>1, <1>3, Behind
  <2> QED
    BY <2>1 DEF Follows
<1>6. \A i \in DOMAIN Request(s) : Request(s)[i].by # "tool" /\ Request(s)[i].calls = {}
  <2> TAKE i \in DOMAIN Request(s)
  <2> HIDE DEF p
  <2>1. CASE i <= p
    <3>1. i \in 1 .. p
      BY <1>5, <2>1
    <3> QED
      BY <1>4, <1>5, <3>1
  <2>2. CASE ~(i <= p)
    BY <1>1, <1>2, <1>5, <2>2
  <2> QED
    BY <2>1, <2>2
<1>7. /\ {i \in DOMAIN Request(s) : Request(s)[i].by = "tool"} = {}
      /\ {i \in DOMAIN Request(s) : Request(s)[i].calls # {}} = {}
  BY <1>6
<1> QED
  BY <1>7 DEF Paired

LEMMA MaxOfOne == \A n \in Nat : Max({n}) = n
BY DEF Max

\* At most one message of a conversation is marked, where the tail begins.
LEMMA MarkOfSpeech ==
  ASSUME NEW s \in Seq(Speech), backend \in Backends
  PROVE  /\ Len(Request(s)) = Len(Preamble) + Len(s)
         /\ MarkedIn(s) = IF backend = "anthropic" /\ Len(s) > CacheTail + 1
                          THEN {Len(Preamble) + Len(s) - CacheTail} ELSE {}
<1> DEFINE q == Plain(s)
           T == ToSet(q)
           p == Len(Preamble)
           R == Request(s)
<1>1. /\ q \in Seq(T) /\ Len(q) = Len(s)
      /\ \A i \in 1 .. Len(s) : q[i].cached <=> Mark(s, i)
  BY PlainIs
<1>2. R = Preamble \o q
  BY PlainRequest
<1>3. ~System.cached
  BY SystemUnmarked
<1>4. CacheTail \in Nat /\ Len(s) \in Nat
  BY BackendAssumption
<1> HIDE DEF q, T
<1>5. /\ p \in {0, 1} /\ DOMAIN R = 1 .. p + Len(q) /\ Len(R) = p + Len(q)
      /\ \A i \in 1 .. p : R[i] = System
      /\ \A i \in 1 .. Len(q) : R[p + i] = q[i]
      /\ \A i \in DOMAIN R : i <= p \/ (i - p \in 1 .. Len(q) /\ R[i] = q[i - p])
  <2>1. Follows(s, q)
    BY <1>1, <1>2, Behind
  <2> QED
    BY <2>1 DEF Follows
<1> HIDE DEF p, R
<1>6. \A i \in DOMAIN R : R[i].cached <=> i > p /\ Mark(s, i - p)
  <2> TAKE i \in DOMAIN R
  <2>1. CASE i <= p
    <3>1. i \in 1 .. p
      BY <1>5, <2>1
    <3> QED
      BY <1>3, <1>4, <1>5, <2>1, <3>1
  <2>2. CASE ~(i <= p)
    BY <1>1, <1>4, <1>5, <2>2
  <2> QED
    BY <2>1, <2>2
<1>7. MarkedIn(s) = {i \in DOMAIN R : i > p /\ Mark(s, i - p)}
  BY <1>6 DEF MarkedIn, R
<1>8. CASE ~(backend = "anthropic" /\ Len(s) > CacheTail + 1)
  <2>1. \A i : ~Mark(s, i)
    BY <1>8 DEF Mark
  <2>2. MarkedIn(s) = {}
    BY <1>7, <2>1
  <2> QED
    BY <1>1, <1>5, <1>8, <2>2 DEF p, R
<1>9. CASE backend = "anthropic" /\ Len(s) > CacheTail + 1
  <2>1. \A i : Mark(s, i) <=> i = Len(s) - CacheTail
    BY <1>9 DEF Mark, Boundary
  <2>2. \A i \in DOMAIN R : i > p /\ Mark(s, i - p) <=> i = p + Len(s) - CacheTail
    BY <1>1, <1>4, <1>5, <1>9, <2>1
  <2>3. p + Len(s) - CacheTail \in DOMAIN R
    BY <1>1, <1>4, <1>5, <1>9
  <2>4. MarkedIn(s) = {p + Len(s) - CacheTail}
    BY <1>7, <2>2, <2>3
  <2> QED
    BY <1>1, <1>5, <1>9, <2>4 DEF p, R
<1> QED
  BY <1>8, <1>9

LEMMA SpeechStable ==
  ASSUME NEW s \in Seq(Speech), backend \in Backends
  PROVE  Stable(s)
<1> SUFFICES ASSUME NEW n \in DOMAIN s
             PROVE  /\ MarkedIn(s) # {} => MarkedIn(s) = {Len(Request(s)) - CacheTail}
                    /\ MarkedIn(SubSeq(s, 1, n)) # {} =>
                          MarkedIn(s) # {} /\ Max(MarkedIn(SubSeq(s, 1, n))) <= Max(MarkedIn(s))
  BY DEF Stable
<1> DEFINE h == SubSeq(s, 1, n)
           p == Len(Preamble)
<1>1. h \in Seq(Speech) /\ Len(h) = n /\ n \in 1 .. Len(s) /\ Len(s) \in Nat
  OBVIOUS
<1>2. CacheTail \in Nat /\ p \in {0, 1}
  BY BackendAssumption, BehindPreamble
<1> HIDE DEF h
<1> DEFINE l == Len(Request(s))
<1>3. l = p + Len(s)
  BY MarkOfSpeech
<1>4. MarkedIn(s) = IF backend = "anthropic" /\ Len(s) > CacheTail + 1
                    THEN {p + Len(s) - CacheTail} ELSE {}
  BY MarkOfSpeech
<1>5. MarkedIn(h) = IF backend = "anthropic" /\ n > CacheTail + 1 THEN {p + n - CacheTail} ELSE {}
  BY <1>1, MarkOfSpeech
<1> HIDE DEF p, l
<1>6. MarkedIn(s) # {} => MarkedIn(s) = {l - CacheTail}
  <2>1. p + Len(s) - CacheTail = l - CacheTail
    BY <1>1, <1>2, <1>3
  <2> QED
    BY <1>4, <2>1
<1>7. ASSUME MarkedIn(h) # {} PROVE  MarkedIn(s) # {} /\ Max(MarkedIn(h)) <= Max(MarkedIn(s))
  <2>1. n > CacheTail + 1 /\ Len(s) > CacheTail + 1 /\ backend = "anthropic"
    BY <1>1, <1>2, <1>5, <1>7
  <2>2. p + n - CacheTail \in Nat /\ p + Len(s) - CacheTail \in Nat
    BY <1>1, <1>2, <2>1
  <2>3. MarkedIn(h) = {p + n - CacheTail} /\ MarkedIn(s) = {p + Len(s) - CacheTail}
    BY <1>4, <1>5, <2>1
  <2>4. Max(MarkedIn(h)) = p + n - CacheTail /\ Max(MarkedIn(s)) = p + Len(s) - CacheTail
    BY <2>2, <2>3, MaxOfOne
  <2> QED
    BY <1>1, <1>2, <2>3, <2>4
<1> QED
  BY <1>6, <1>7 DEF h, l

\* Only the Anthropic class marks anything.
LEMMA ToldStable ==
  ASSUME NEW s \in Seq(Told), backend = "openai"
  PROVE  Stable(s)
<1>1. ASSUME NEW h \in Seq(Told) PROVE MarkedIn(h) = {}
  <2>1. Request(h) = Preamble \o h
    BY DEF Request, ToOpenAI
  <2>2. Follows(h, h)
    BY <2>1, Behind
  <2>3. ~System.cached
    BY SystemUnmarked
  <2>4. \A i \in 1 .. Len(h) : ~h[i].cached
    <3>1. \A i \in 1 .. Len(h) : h[i] \in Told
      OBVIOUS
    <3> QED
      BY <3>1, ToldIs DEF No
  <2> DEFINE p == Len(Preamble)
             R == Request(h)
  <2>5. /\ p \in {0, 1} /\ DOMAIN R = 1 .. p + Len(h)
        /\ \A i \in 1 .. p : R[i] = System
        /\ \A i \in DOMAIN R : i <= p \/ (i - p \in 1 .. Len(h) /\ R[i] = h[i - p])
    BY <2>2 DEF Follows
  <2> HIDE DEF p, R
  <2>6. \A i \in DOMAIN R : ~R[i].cached
    <3> TAKE i \in DOMAIN R
    <3>1. CASE i <= p
      <4>1. i \in 1 .. p
        BY <2>5, <3>1
      <4> QED
        BY <2>3, <2>5, <4>1
    <3>2. CASE ~(i <= p)
      BY <2>4, <2>5, <3>2
    <3> QED
      BY <3>1, <3>2
  <2> QED
    BY <2>6 DEF MarkedIn, R
<1>2. \A n \in DOMAIN s : SubSeq(s, 1, n) \in Seq(Told)
  OBVIOUS
<1> QED
  BY <1>1, <1>2 DEF Stable

--------------------------------------------------------------------------------
(* The transcript of a run                                                 *)

Entries == {TurnOf(c) : c \in SUBSET (Nat \X Nat)} \cup {ResultOf(id) : id \in Nat \X Nat}
Callings == [id : Nat \X Nat, tool : Tools]
CallIds(n, it) == {<<it, k>> : k \in 1 .. n}

IsTurn(T, i) == T[i].kind = "turn"

\* The turn at i made n calls in iteration it: their results follow in order, up to those of
\* the calls C that are still out; after the last comes the next turn, if anything.
Booked(T, C, i, n, it) ==
    /\ n # 0 /\ T[i] = TurnOf(CallIds(n, it))
    /\ \A k \in 1 .. n : i + k <= Len(T) => T[i + k] = ResultOf(<<it, k>>)
    /\ i + n < Len(T) => IsTurn(T, i + n + 1)
    /\ i + n >= Len(T) =>
          /\ Len(C) = i + n - Len(T)
          /\ \A k \in 1 .. Len(C) : C[k].id = <<it, Len(T) - i + k>>

\* The result at i has a turn before it.
Caused(T, i) == \E j \in 1 .. i - 1 : IsTurn(T, j) /\ \A r \in j + 1 .. i : ~IsTurn(T, r)

Ledger(T, C) ==
    /\ T \in Seq(Entries) /\ C \in Seq(Callings) /\ (C # <<>> => T # <<>>)
    /\ \A i \in 1 .. Len(T) :
          /\ IsTurn(T, i) => \E n, it \in Nat : Booked(T, C, i, n, it)
          /\ ~IsTurn(T, i) => Caused(T, i)

LEMMA EntryIs ==
  /\ \A c \in SUBSET (Nat \X Nat) : TurnOf(c) \in Entries
  /\ \A id \in Nat \X Nat : ResultOf(id) \in Entries
  /\ \A c : TurnOf(c).kind = "turn"
  /\ \A id : ResultOf(id).kind # "turn"
<1>1. /\ \A c : TurnOf(c).kind = "turn"
      /\ \A id : ResultOf(id).kind # "turn"
  BY DEF TurnOf, ResultOf
<1> QED
  BY <1>1 DEF Entries

\* The calls of a turn, none of which has its result.
Fresh(D, n, it) == D \in Seq(Callings) /\ Len(D) = n /\ \A k \in 1 .. n : D[k].id = <<it, k>>

\* A turn enters a transcript that owes no result.
LEMMA TurnEnters ==
  ASSUME NEW T, NEW C, NEW D, NEW n \in Nat \ {0}, NEW it \in Nat, Ledger(T, C), C = <<>>,
         Fresh(D, n, it)
  PROVE  Ledger(Append(T, TurnOf(CallIds(n, it))), D)
<1> DEFINE e == TurnOf(CallIds(n, it))
           U == Append(T, e)
           l == Len(T)
<1>0. Len(C) = 0
  OBVIOUS
<1>1. /\ T \in Seq(Entries) /\ l \in Nat
      /\ \A i \in 1 .. l : IsTurn(T, i) => \E m, jt \in Nat : Booked(T, C, i, m, jt)
      /\ \A i \in 1 .. l : ~IsTurn(T, i) => Caused(T, i)
  BY DEF Ledger
<1>2. e \in Entries /\ e.kind = "turn"
  <2>1. CallIds(n, it) \in SUBSET (Nat \X Nat)
    BY DEF CallIds
  <2> QED
    BY <2>1, EntryIs
<1> HIDE DEF e
<1>3. /\ U \in Seq(Entries) /\ Len(U) = l + 1 /\ U[l + 1] = e /\ U # <<>>
      /\ \A i \in 1 .. l : U[i] = T[i]
  BY <1>1, <1>2
<1> HIDE DEF U, l
<1>4. IsTurn(U, l + 1) /\ \A i \in 1 .. l : IsTurn(U, i) <=> IsTurn(T, i)
  BY <1>2, <1>3 DEF IsTurn
<1>5. Booked(U, D, l + 1, n, it)
  <2>1. /\ l + 1 + n > Len(U) /\ Len(D) = l + 1 + n - Len(U)
        /\ \A k \in 1 .. n : l + 1 + k > Len(U) /\ Len(U) - (l + 1) + k = k
    BY <1>1, <1>3 DEF Fresh
  <2> QED
    BY <1>1, <1>3, <2>1 DEF Booked, e, Fresh
<1>6. ASSUME NEW i \in 1 .. l, NEW m \in Nat, NEW jt \in Nat, Booked(T, C, i, m, jt)
      PROVE  Booked(U, D, i, m, jt)
  <2>1. /\ m # 0 /\ T[i] = TurnOf(CallIds(m, jt))
        /\ \A k \in 1 .. m : i + k <= l => T[i + k] = ResultOf(<<jt, k>>)
        /\ i + m < l => IsTurn(T, i + m + 1)
        /\ i + m >= l => 0 = i + m - l
    BY <1>0, <1>1, <1>6 DEF Booked, l
  <2>2. i + m <= l
    BY <1>1, <2>1
  <2>3. U[i] = TurnOf(CallIds(m, jt))
    BY <1>3, <2>1
  <2>4. \A k \in 1 .. m : U[i + k] = ResultOf(<<jt, k>>)
    <3> TAKE k \in 1 .. m
    <3>1. i + k \in 1 .. l
      BY <1>1, <2>2
    <3> QED
      BY <1>3, <2>1, <3>1
  <2>5. IsTurn(U, i + m + 1)
    <3>1. CASE i + m < l
      <4>1. i + m + 1 \in 1 .. l
        BY <1>1, <3>1
      <4> QED
        BY <1>4, <2>1, <3>1, <4>1
    <3>2. CASE i + m = l
      BY <1>4, <3>2
    <3> QED
      BY <1>1, <2>2, <3>1, <3>2
  <2>6. i + m < Len(U)
    BY <1>1, <1>3, <2>2
  <2> QED
    BY <1>1, <1>3, <2>1, <2>3, <2>4, <2>5, <2>6 DEF Booked
<1>7. ASSUME NEW i \in 1 .. l, ~IsTurn(U, i) PROVE Caused(U, i)
  <2>1. PICK j \in 1 .. i - 1 : IsTurn(T, j) /\ \A r \in j + 1 .. i : ~IsTurn(T, r)
    BY <1>1, <1>4, <1>7 DEF Caused
  <2>2. j \in 1 .. l /\ \A r \in j + 1 .. i : r \in 1 .. l
    BY <1>1
  <2> QED
    BY <1>4, <2>1, <2>2 DEF Caused
<1>8. ASSUME NEW i \in 1 .. Len(U)
      PROVE  /\ IsTurn(U, i) => \E m, jt \in Nat : Booked(U, D, i, m, jt)
             /\ ~IsTurn(U, i) => Caused(U, i)
  <2>1. i \in 1 .. l \/ i = l + 1
    BY <1>1, <1>3
  <2>2. CASE i \in 1 .. l
    BY <1>1, <1>4, <1>6, <1>7, <2>2
  <2>3. CASE i = l + 1
    BY <1>4, <1>5, <2>3
  <2> QED
    BY <2>1, <2>2, <2>3
<1> QED
  BY <1>3, <1>8 DEF Ledger, U, e, Fresh

\* The result of the first call that is out enters.
LEMMA ResultEnters ==
  ASSUME NEW T, NEW C, Ledger(T, C), C # <<>>
  PROVE  Ledger(Append(T, ResultOf(Head(C).id)), Tail(C))
<1> DEFINE e == ResultOf(Head(C).id)
           U == Append(T, e)
           D == Tail(C)
           l == Len(T)
           c == Len(C)
<1>1. /\ T \in Seq(Entries) /\ C \in Seq(Callings) /\ l \in Nat \ {0} /\ c \in Nat \ {0}
      /\ \A i \in 1 .. l : IsTurn(T, i) => \E m, jt \in Nat : Booked(T, C, i, m, jt)
      /\ \A i \in 1 .. l : ~IsTurn(T, i) => Caused(T, i)
  BY DEF Ledger
<1>2. /\ D \in Seq(Callings) /\ Len(D) = c - 1 /\ Head(C) = C[1]
      /\ \A k \in 1 .. c - 1 : D[k] = C[k + 1]
  BY <1>1
<1>3. e \in Entries /\ e.kind # "turn"
  <2>1. C[1] \in Callings
    BY <1>1
  <2>2. C[1].id \in Nat \X Nat
    BY <2>1 DEF Callings
  <2> QED
    BY <1>2, <2>2, EntryIs
<1>4. e = ResultOf(C[1].id)
  BY <1>2
<1> HIDE DEF e
<1>5. /\ U \in Seq(Entries) /\ Len(U) = l + 1 /\ U[l + 1] = e /\ U # <<>>
      /\ \A i \in 1 .. l : U[i] = T[i]
  BY <1>1, <1>3
<1> HIDE DEF U, D, l, c
<1>6. ~IsTurn(U, l + 1) /\ \A i \in 1 .. l : IsTurn(U, i) <=> IsTurn(T, i)
  BY <1>3, <1>5 DEF IsTurn
<1>7. ASSUME NEW i \in 1 .. l, NEW m \in Nat, NEW jt \in Nat, Booked(T, C, i, m, jt)
      PROVE  Booked(U, D, i, m, jt)
  <2>1. /\ m # 0 /\ T[i] = TurnOf(CallIds(m, jt))
        /\ \A k \in 1 .. m : i + k <= l => T[i + k] = ResultOf(<<jt, k>>)
        /\ i + m < l => IsTurn(T, i + m + 1)
        /\ i + m >= l => /\ c = i + m - l
                         /\ \A k \in 1 .. c : C[k].id = <<jt, l - i + k>>
    BY <1>1, <1>7 DEF Booked, l, c
  <2>2. U[i] = TurnOf(CallIds(m, jt))
    BY <1>5, <2>1
  <2>3. CASE i + m < l
    <3>1. /\ \A k \in 1 .. m : i + k \in 1 .. l
          /\ i + m + 1 \in 1 .. l /\ i + m < Len(U)
      BY <1>1, <1>5, <2>3
    <3>2. \A k \in 1 .. m : U[i + k] = ResultOf(<<jt, k>>)
      <4> TAKE k \in 1 .. m
      <4>1. i + k \in 1 .. l /\ i + k <= l
        BY <1>1, <3>1
      <4> QED
        BY <1>5, <2>1, <4>1
    <3>3. IsTurn(U, i + m + 1)
      BY <1>6, <2>1, <2>3, <3>1
    <3> QED
      BY <1>1, <1>5, <2>1, <2>2, <3>1, <3>2, <3>3 DEF Booked
  <2>4. CASE i + m >= l
    <3>1. c = i + m - l /\ i + m >= l + 1 /\ \A k \in 1 .. c : C[k].id = <<jt, l - i + k>>
      <4>1. c = i + m - l
        BY <2>1, <2>4
      <4>2. \A k \in 1 .. c : C[k].id = <<jt, l - i + k>>
        BY <2>1, <2>4
      <4>3. i \in Nat /\ i + m >= l + 1
        BY <1>1, <4>1
      <4> QED
        BY <4>1, <4>2, <4>3
    <3>2. e = ResultOf(<<jt, l - i + 1>>)
      <4>1. 1 \in 1 .. c
        BY <1>1
      <4> QED
        BY <1>4, <3>1, <4>1
    <3>3. ASSUME NEW k \in 1 .. m, i + k <= l + 1 PROVE U[i + k] = ResultOf(<<jt, k>>)
      <4>1. CASE i + k <= l
        <5>1. i + k \in 1 .. l
          BY <1>1, <4>1
        <5> QED
          BY <1>5, <2>1, <4>1, <5>1
      <4>2. CASE i + k = l + 1
        <5>1. k = l - i + 1
          BY <1>1, <4>2
        <5> QED
          BY <1>5, <3>2, <4>2, <5>1
      <4> QED
        BY <1>1, <3>3, <4>1, <4>2
    <3>4. Len(D) = i + m - Len(U) /\ ~(i + m < Len(U))
      BY <1>1, <1>2, <1>5, <3>1
    <3>5. \A k \in 1 .. Len(D) : D[k].id = <<jt, Len(U) - i + k>>
      <4> TAKE k \in 1 .. Len(D)
      <4>1. k \in 1 .. c - 1 /\ k + 1 \in 1 .. c /\ l - i + (k + 1) = Len(U) - i + k
        BY <1>1, <1>2, <1>5
      <4> QED
        BY <1>2, <3>1, <4>1
    <3> QED
      BY <1>5, <2>1, <2>2, <3>3, <3>4, <3>5 DEF Booked
  <2> QED
    BY <1>1, <2>3, <2>4
<1>8. ASSUME NEW i \in 1 .. l, ~IsTurn(U, i) PROVE Caused(U, i)
  <2>1. PICK j \in 1 .. i - 1 : IsTurn(T, j) /\ \A r \in j + 1 .. i : ~IsTurn(T, r)
    BY <1>1, <1>6, <1>8 DEF Caused
  <2>2. j \in 1 .. l /\ \A r \in j + 1 .. i : r \in 1 .. l
    BY <1>1
  <2> QED
    BY <1>6, <2>1, <2>2 DEF Caused
<1>9. Caused(U, l + 1)
  <2>1. PICK j \in 1 .. l : IsTurn(T, j) /\ \A r \in j + 1 .. l : ~IsTurn(T, r)
    <3>1. CASE IsTurn(T, l)
      BY <1>1, <3>1
    <3>2. CASE ~IsTurn(T, l)
      <4>1. l \in 1 .. l
        BY <1>1
      <4>2. PICK j \in 1 .. l - 1 : IsTurn(T, j) /\ \A r \in j + 1 .. l : ~IsTurn(T, r)
        BY <1>1, <3>2, <4>1 DEF Caused
      <4>3. j \in 1 .. l
        BY <1>1
      <4> QED
        BY <4>2, <4>3
    <3> QED
      BY <3>1, <3>2
  <2>2. j \in 1 .. (l + 1) - 1 /\ \A r \in j + 1 .. l + 1 : r = l + 1 \/ (r \in j + 1 .. l /\ r \in 1 .. l)
    BY <1>1
  <2>3. \A r \in j + 1 .. l + 1 : ~IsTurn(U, r)
    BY <1>6, <2>1, <2>2
  <2> QED
    BY <1>6, <2>1, <2>2, <2>3 DEF Caused
<1>10. ASSUME NEW i \in 1 .. Len(U)
       PROVE  /\ IsTurn(U, i) => \E m, jt \in Nat : Booked(U, D, i, m, jt)
              /\ ~IsTurn(U, i) => Caused(U, i)
  <2>1. i \in 1 .. l \/ i = l + 1
    BY <1>1, <1>5
  <2>2. CASE i \in 1 .. l
    BY <1>1, <1>6, <1>7, <1>8, <2>2
  <2>3. CASE i = l + 1
    BY <1>6, <1>9, <2>3
  <2> QED
    BY <2>1, <2>2, <2>3
<1> QED
  BY <1>2, <1>5, <1>10 DEF Ledger, U, D, e

LEMMA CallIdsCounted ==
  ASSUME NEW n \in Nat, NEW it
  PROVE  Cardinality(CallIds(n, it)) = n
<1> DEFINE S == CallIds(n, it)
           q == [k \in 1 .. n |-> <<it, k>>]
<1>1. q \in [1 .. n -> S] /\ DOMAIN q = 1 .. n /\ \A k \in 1 .. n : q[k] = <<it, k>>
  BY DEF CallIds
<1>2. ToSet(q) = S
  BY <1>1 DEF ToSet, CallIds
<1>3. IsInjective(q)
  BY <1>1 DEF IsInjective
<1> HIDE DEF q, S
<1>4. q \in Seq(S) /\ Len(q) = n
  BY <1>1
<1> QED
  BY <1>2, <1>3, <1>4, DistinctLength DEF S

\* A result and a turn as they are sent.
LEMMA MessageTells ==
  ASSUME NEW T, NEW C, Ledger(T, C), NEW i \in 1 .. Len(T)
  PROVE  /\ IsTurn(T, i) => Message(T[i]).by # "tool" /\ Message(T[i]).calls # {}
         /\ ~IsTurn(T, i) => Message(T[i]).by = "tool" /\ Message(T[i]).calls = {}
<1>1. ASSUME IsTurn(T, i) PROVE Message(T[i]).by # "tool" /\ Message(T[i]).calls # {}
  <2>1. PICK n \in Nat, it \in Nat : n # 0 /\ T[i] = TurnOf(CallIds(n, it))
    BY <1>1 DEF Ledger, Booked
  <2> DEFINE c == CallIds(n, it)
  <2>2. <<it, 1>> \in c
    BY <2>1 DEF CallIds
  <2> HIDE DEF c
  <2>3. Message(T[i]) = Msg("assistant", 0, c, {}, No)
    BY <2>1, MessageIs DEF c
  <2> QED
    BY <2>2, <2>3, MsgGives
<1>2. ASSUME ~IsTurn(T, i) PROVE Message(T[i]).by = "tool" /\ Message(T[i]).calls = {}
  <2>1. T[i] \in Entries
    BY DEF Ledger
  <2>2. PICK id : T[i] = ResultOf(id)
    BY <1>2, <2>1, EntryIs DEF Entries, IsTurn
  <2>3. Message(T[i]) = Msg("tool", 0, {}, {id}, No)
    BY <2>2, MessageIs
  <2> QED
    BY <2>3, MsgGives
<1> QED
  BY <1>1, <1>2

\* A transcript that owes no result is behind the first d messages of R, and among what is
\* before and after it are no calls and no results.
Laid(R, d, T) ==
    /\ d \in Nat
    /\ \E m \in Nat : DOMAIN R = 1 .. m /\ d + Len(T) <= m
    /\ \A i \in 1 .. Len(T) : R[d + i] = Message(T[i])
    /\ \A i \in DOMAIN R : i <= d \/ i > d + Len(T) => R[i].by # "tool" /\ R[i].calls = {}

ResultsIn(R) == {i \in DOMAIN R : R[i].by = "tool"}
TurnsIn(R) == {i \in DOMAIN R : R[i].calls # {}}
ResultsOf(R, i) == {r \in ResultsIn(R) : r > i /\ i + 1 .. r \subseteq ResultsIn(R)}

LEMMA LaidOut ==
  ASSUME NEW R, NEW d, NEW T, NEW C, Laid(R, d, T), Ledger(T, C)
  PROVE  /\ \A r : r \in ResultsIn(R) <=> r - d \in 1 .. Len(T) /\ r = d + (r - d) /\ ~IsTurn(T, r - d)
         /\ \A r : r \in TurnsIn(R) <=> r - d \in 1 .. Len(T) /\ r = d + (r - d) /\ IsTurn(T, r - d)
<1> DEFINE l == Len(T)
<1>1. /\ d \in Nat /\ l \in Nat
      /\ \A i \in 1 .. l : R[d + i] = Message(T[i])
      /\ \A i \in DOMAIN R : i <= d \/ i > d + l => R[i].by # "tool" /\ R[i].calls = {}
  BY DEF Laid, Ledger
<1>2. PICK m \in Nat : DOMAIN R = 1 .. m /\ d + l <= m
  BY DEF Laid
<1>3. \A i \in 1 .. l :
        /\ IsTurn(T, i) => Message(T[i]).by # "tool" /\ Message(T[i]).calls # {}
        /\ ~IsTurn(T, i) => Message(T[i]).by = "tool" /\ Message(T[i]).calls = {}
  BY MessageTells
<1> HIDE DEF l
<1>4. ASSUME NEW i \in 1 .. l PROVE d + i \in DOMAIN R /\ (d + i) - d = i
  BY <1>1, <1>2
<1>5. ASSUME NEW r \in DOMAIN R
      PROVE  \/ r <= d \/ r > d + l
             \/ r - d \in 1 .. l /\ r = d + (r - d)
  BY <1>1, <1>2
<1>6. ASSUME NEW r, r - d \in 1 .. l, r = d + (r - d)
      PROVE  r \in DOMAIN R /\ R[r] = Message(T[r - d])
  BY <1>1, <1>4, <1>6
<1>7. ASSUME NEW r
      PROVE  r \in ResultsIn(R) <=> r - d \in 1 .. l /\ r = d + (r - d) /\ ~IsTurn(T, r - d)
  BY <1>1, <1>3, <1>5, <1>6 DEF ResultsIn
<1>8. ASSUME NEW r
      PROVE  r \in TurnsIn(R) <=> r - d \in 1 .. l /\ r = d + (r - d) /\ IsTurn(T, r - d)
  BY <1>1, <1>3, <1>5, <1>6 DEF TurnsIn
<1> QED
  BY <1>7, <1>8 DEF l

\* The results of a turn are those right behind it.
LEMMA TurnAnswered ==
  ASSUME NEW R, NEW d, NEW T, NEW C, Laid(R, d, T), Ledger(T, C), C = <<>>, NEW t \in TurnsIn(R)
  PROVE  /\ UNION {R[r].answers : r \in ResultsOf(R, t)} = R[t].calls
         /\ Cardinality(ResultsOf(R, t)) = Cardinality(R[t].calls)
<1> DEFINE l == Len(T)
           i == t - d
<1>0. Len(C) = 0
  OBVIOUS
<1>1. /\ d \in Nat /\ l \in Nat
      /\ \A j \in 1 .. l : R[d + j] = Message(T[j])
  BY DEF Laid, Ledger
<1>2. /\ \A r : r \in ResultsIn(R) <=> r - d \in 1 .. l /\ r = d + (r - d) /\ ~IsTurn(T, r - d)
      /\ i \in 1 .. l /\ t = d + i /\ IsTurn(T, i)
  BY LaidOut
<1> HIDE DEF i
<1>3. PICK n \in Nat, it \in Nat : Booked(T, C, i, n, it)
  BY <1>2 DEF Ledger
<1>4. /\ n # 0 /\ T[i] = TurnOf(CallIds(n, it))
      /\ \A k \in 1 .. n : i + k <= l => T[i + k] = ResultOf(<<it, k>>)
      /\ i + n < l => IsTurn(T, i + n + 1)
      /\ i + n >= l => 0 = i + n - l
  BY <1>0, <1>3 DEF Booked
<1> HIDE DEF l
<1>5. i + n <= l
  BY <1>1, <1>2, <1>4
<1>6. ASSUME NEW k \in 1 .. n
      PROVE  t + k \in ResultsIn(R) /\ R[t + k].answers = {<<it, k>>}
  <2>1. i + k \in 1 .. l /\ i + k <= l /\ t + k = d + (i + k) /\ (t + k) - d = i + k
    BY <1>1, <1>2, <1>5
  <2>2. T[i + k] = ResultOf(<<it, k>>)
    BY <1>4, <2>1
  <2>3. ~IsTurn(T, i + k)
    BY <2>2, EntryIs DEF IsTurn
  <2>4. R[t + k] = Msg("tool", 0, {}, {<<it, k>>}, No)
    BY <1>1, <2>1, <2>2, MessageIs
  <2>5. R[t + k].answers = {<<it, k>>}
    <3> DEFINE a == {<<it, k>>}
    <3> HIDE DEF a
    <3>1. R[t + k] = Msg("tool", 0, {}, a, No)
      BY <2>4 DEF a
    <3>2. R[t + k].answers = a
      BY <3>1, MsgGives
    <3> QED
      BY <3>2 DEF a
  <2> QED
    BY <1>2, <2>1, <2>3, <2>5
<1>7. ~(t + n + 1 \in ResultsIn(R))
  <2>1. CASE i + n < l
    <3>1. (t + n + 1) - d = i + n + 1
      BY <1>1, <1>2
    <3> QED
      BY <1>2, <1>4, <2>1, <3>1
  <2>2. CASE i + n = l
    <3>1. ~((t + n + 1) - d \in 1 .. l)
      BY <1>1, <1>2, <2>2
    <3> QED
      BY <1>2, <3>1
  <2> QED
    BY <1>1, <1>2, <1>5, <2>1, <2>2
<1>8. t \in Nat /\ \A r \in ResultsIn(R) : r \in Nat
  BY <1>1, <1>2
<1>9. ResultsOf(R, t) = t + 1 .. t + n
  <2>1. ASSUME NEW r \in ResultsOf(R, t) PROVE r \in t + 1 .. t + n
    <3>1. r \in ResultsIn(R) /\ r > t /\ t + 1 .. r \subseteq ResultsIn(R) /\ r \in Nat
      BY <1>8 DEF ResultsOf
    <3>2. CASE r <= t + n
      BY <1>8, <3>1, <3>2
    <3>3. CASE r > t + n
      <4>1. t + n + 1 \in t + 1 .. r
        BY <1>8, <3>1, <3>3
      <4> QED
        BY <1>7, <3>1, <4>1
    <3> QED
      BY <1>8, <3>1, <3>2, <3>3
  <2>2. ASSUME NEW r \in t + 1 .. t + n PROVE r \in ResultsOf(R, t)
    <3>1. \A x \in t + 1 .. r : x - t \in 1 .. n /\ x = t + (x - t)
      BY <1>8
    <3>2. \A x \in t + 1 .. r : x \in ResultsIn(R)
      BY <1>6, <3>1
    <3>3. r \in t + 1 .. r /\ r > t
      BY <1>8
    <3> QED
      BY <3>2, <3>3 DEF ResultsOf
  <2> QED
    BY <2>1, <2>2
<1> DEFINE c == CallIds(n, it)
<1>10. R[t].calls = c
  <2>1. R[t] = Msg("assistant", 0, c, {}, No)
    BY <1>1, <1>2, <1>4, MessageIs
  <2> HIDE DEF c
  <2> QED
    BY <2>1, MsgGives
<1>11. UNION {R[r].answers : r \in t + 1 .. t + n} = c
  <2>1. ASSUME NEW r \in t + 1 .. t + n PROVE R[r].answers \subseteq c
    <3>1. r - t \in 1 .. n /\ r = t + (r - t)
      BY <1>8
    <3>2. R[r].answers = {<<it, r - t>>}
      BY <1>6, <3>1
    <3> QED
      BY <3>1, <3>2 DEF CallIds
  <2>2. ASSUME NEW x \in c PROVE \E r \in t + 1 .. t + n : x \in R[r].answers
    <3>1. PICK k \in 1 .. n : x = <<it, k>>
      BY DEF CallIds
    <3>2. t + k \in t + 1 .. t + n
      BY <1>8
    <3> QED
      BY <1>6, <3>1, <3>2
  <2> HIDE DEF c
  <2> QED
    BY <2>1, <2>2
<1>12. Cardinality(t + 1 .. t + n) = n
  <2>1. t + 1 \in Int /\ t + n \in Int /\ ~(t + 1 > t + n) /\ (t + n) - (t + 1) + 1 = n
    BY <1>4, <1>8
  <2> QED
    BY <2>1, FS_Interval
<1>13. Cardinality(c) = n
  BY CallIdsCounted
<1> HIDE DEF c
<1> QED
  BY <1>9, <1>10, <1>11, <1>12, <1>13

\* There are no other results.
LEMMA NoneUncaused ==
  ASSUME NEW R, NEW d, NEW T, NEW C, Laid(R, d, T), Ledger(T, C)
  PROVE  ResultsIn(R) = UNION {ResultsOf(R, t) : t \in TurnsIn(R)}
<1>1. \A t \in TurnsIn(R) : ResultsOf(R, t) \subseteq ResultsIn(R)
  BY DEF ResultsOf
<1>2. ASSUME NEW r \in ResultsIn(R) PROVE \E t \in TurnsIn(R) : r \in ResultsOf(R, t)
  <2> DEFINE l == Len(T)
             i == r - d
  <2>1. /\ \A x : x \in ResultsIn(R) <=> x - d \in 1 .. l /\ x = d + (x - d) /\ ~IsTurn(T, x - d)
        /\ \A x : x \in TurnsIn(R) <=> x - d \in 1 .. l /\ x = d + (x - d) /\ IsTurn(T, x - d)
    BY LaidOut
  <2>2. d \in Nat /\ l \in Nat
    BY DEF Laid, Ledger
  <2>3. i \in 1 .. l /\ r = d + i /\ ~IsTurn(T, i)
    BY <2>1
  <2> HIDE DEF i
  <2>4. PICK j \in 1 .. i - 1 : IsTurn(T, j) /\ \A x \in j + 1 .. i : ~IsTurn(T, x)
    BY <2>3 DEF Ledger, Caused
  <2> HIDE DEF l
  <2>5. (d + j) - d = j /\ j \in 1 .. l
    BY <2>2, <2>3
  <2>6. d + j \in TurnsIn(R)
    BY <2>1, <2>4, <2>5
  <2>7. ASSUME NEW x \in (d + j) + 1 .. r PROVE x \in ResultsIn(R)
    <3>1. x - d \in j + 1 .. i /\ x - d \in 1 .. l /\ x = d + (x - d)
      BY <2>2, <2>3
    <3> QED
      BY <2>1, <2>4, <3>1
  <2>8. r > d + j
    BY <2>2, <2>3
  <2> QED
    BY <2>6, <2>7, <2>8 DEF ResultsOf
<1> QED
  BY <1>1, <1>2

LEMMA LaidPaired ==
  ASSUME NEW s, NEW d, NEW T, NEW C, Laid(Request(s), d, T), Ledger(T, C), C = <<>>
  PROVE  Paired(s)
<1> DEFINE R == Request(s)
<1>1. ResultsIn(R) = UNION {ResultsOf(R, t) : t \in TurnsIn(R)}
  BY NoneUncaused
<1>2. \A t \in TurnsIn(R) :
        /\ UNION {R[r].answers : r \in ResultsOf(R, t)} = R[t].calls
        /\ Cardinality(ResultsOf(R, t)) = Cardinality(R[t].calls)
  BY TurnAnswered
<1> QED
  BY <1>1, <1>2 DEF Paired, ResultsIn, TurnsIn, ResultsOf

\* The messages of a run, with what is asked after them.
RunOf(h, T, e) == (h \o [i \in DOMAIN T |-> Message(T[i])]) \o e

LEMMA SpeechTold == Speech \subseteq Told
<1> SUFFICES ASSUME NEW m \in Speech PROVE m \in Told
  OBVIOUS
<1> DEFINE b == m.by
           t == m.text
           P == SUBSET (Nat \X Nat)
           B == {"user", "assistant", "tool"}
           none == {}
<1>1. m = Msg(b, t, none, none, No) /\ b \in B /\ t \in Nat
  BY SpeechIs
<1>2. none \in P /\ No \in {No}
  OBVIOUS
<1> HIDE DEF b, t, P, B, none
<1>3. Msg(b, t, none, none, No) \in MsgsOver(B, Nat, P, P, {No})
  BY <1>1, <1>2, MsgIn
<1> QED
  BY <1>1, <1>3 DEF Told, B, P

LEMMA EntryTold ==
  ASSUME NEW x \in Entries
  PROVE  Message(x) \in Told
<1> DEFINE P == SUBSET (Nat \X Nat)
           B == {"user", "assistant", "tool"}
           z == 0
           none == {}
           u == "assistant"
           l == "tool"
<1>1. none \in P /\ No \in {No} /\ u \in B /\ l \in B /\ z \in Nat
  OBVIOUS
<1>2. \/ \E c \in P : x = TurnOf(c)
      \/ \E id \in Nat \X Nat : x = ResultOf(id)
  BY DEF Entries
<1>3. /\ \A c : Message(TurnOf(c)) = Msg(u, z, c, none, No)
      /\ \A id : Message(ResultOf(id)) = Msg(l, z, none, {id}, No)
  BY MessageIs
<1>4. \A id \in Nat \X Nat : {id} \in P
  OBVIOUS
<1> HIDE DEF P, B, z, none, u, l
<1>5. Told = MsgsOver(B, Nat, P, P, {No})
  BY DEF Told, B, P
<1>6. CASE \E c \in P : x = TurnOf(c)
  <2>1. PICK c \in P : x = TurnOf(c)
    BY <1>6
  <2>2. Msg(u, z, c, none, No) \in MsgsOver(B, Nat, P, P, {No})
    BY <1>1, MsgIn
  <2> QED
    BY <1>3, <1>5, <2>1, <2>2
<1>7. CASE \E id \in Nat \X Nat : x = ResultOf(id)
  <2>1. PICK id \in Nat \X Nat : x = ResultOf(id)
    BY <1>7
  <2> DEFINE a == {id}
  <2>2. a \in P
    BY <1>4
  <2>3. Message(x) = Msg(l, z, none, a, No)
    BY <1>3, <2>1
  <2> HIDE DEF a
  <2>4. Msg(l, z, none, a, No) \in MsgsOver(B, Nat, P, P, {No})
    BY <1>1, <2>2, MsgIn
  <2> QED
    BY <1>5, <2>3, <2>4
<1> QED
  BY <1>2, <1>6, <1>7

Joined(z, q, r) ==
    /\ Len(z) = Len(q) + Len(r)
    /\ \A i \in 1 .. Len(q) : z[i] = q[i]
    /\ \A i \in 1 .. Len(r) : z[Len(q) + i] = r[i]

LEMMA ConcatIs ==
  ASSUME NEW S, NEW q \in Seq(S), NEW r \in Seq(S)
  PROVE  q \o r \in Seq(S) /\ Joined(q \o r, q, r)
<1>1. q \o r \in Seq(S)
  OBVIOUS
<1>2. /\ Len(q \o r) = Len(q) + Len(r)
      /\ \A i \in 1 .. Len(q) : (q \o r)[i] = q[i]
      /\ \A i \in 1 .. Len(r) : (q \o r)[Len(q) + i] = r[i]
  OBVIOUS
<1> QED
  BY <1>1, <1>2 DEF Joined

LEMMA RunIs ==
  ASSUME NEW h \in Seq(Speech), NEW T \in Seq(Entries), NEW e \in Seq(Speech)
  PROVE  LET s == RunOf(h, T, e)
         IN  /\ s \in Seq(Told) /\ Len(s) = Len(h) + Len(T) + Len(e)
             /\ \A i \in 1 .. Len(h) : s[i] \in Speech
             /\ \A i \in 1 .. Len(T) : s[Len(h) + i] = Message(T[i])
             /\ \A i \in 1 .. Len(e) : s[Len(h) + Len(T) + i] \in Speech
<1> DEFINE q == [i \in DOMAIN T |-> Message(T[i])]
           l == Len(T)
<1>1. DOMAIN T = 1 .. l /\ l \in Nat /\ \A i \in 1 .. l : T[i] \in Entries
  OBVIOUS
<1>2. q \in [1 .. l -> Told] /\ \A i \in 1 .. l : q[i] = Message(T[i])
  BY <1>1, EntryTold
<1>3. RunOf(h, T, e) = (h \o q) \o e
  BY DEF RunOf
<1> HIDE DEF q, l
<1>4. q \in Seq(Told) /\ Len(q) = l
  BY <1>1, <1>2
<1>5. h \in Seq(Told) /\ e \in Seq(Told)
  BY SpeechTold
<1> DEFINE u == h \o q
<1>6. u \in Seq(Told) /\ Joined(u, h, q)
  BY <1>4, <1>5, ConcatIs
<1> HIDE DEF u
<1>7. /\ u \in Seq(Told) /\ Len(u) = Len(h) + l
      /\ \A i \in 1 .. Len(h) : u[i] = h[i]
      /\ \A i \in 1 .. l : u[Len(h) + i] = q[i]
  BY <1>4, <1>6 DEF Joined
<1> DEFINE s == u \o e
<1>8. s \in Seq(Told) /\ Joined(s, u, e)
  BY <1>5, <1>6, ConcatIs
<1>9. /\ s \in Seq(Told) /\ Len(s) = Len(u) + Len(e)
      /\ \A i \in 1 .. Len(u) : s[i] = u[i]
      /\ \A i \in 1 .. Len(e) : s[Len(u) + i] = e[i]
  BY <1>8 DEF Joined
<1> HIDE DEF s
<1>10. Len(h) \in Nat /\ Len(e) \in Nat /\ (\A i \in 1 .. Len(h) : h[i] \in Speech)
      /\ \A i \in 1 .. Len(e) : e[i] \in Speech
  OBVIOUS
<1>11. \A i \in 1 .. Len(h) : s[i] \in Speech
  <2> TAKE i \in 1 .. Len(h)
  <2>1. i \in 1 .. Len(u)
    BY <1>1, <1>7, <1>10
  <2> QED
    BY <1>7, <1>9, <1>10, <2>1
<1>12. \A i \in 1 .. l : s[Len(h) + i] = Message(T[i])
  <2> TAKE i \in 1 .. l
  <2>1. Len(h) + i \in 1 .. Len(u)
    BY <1>1, <1>7, <1>10
  <2> QED
    BY <1>2, <1>7, <1>9, <2>1
<1>13. \A i \in 1 .. Len(e) : s[Len(h) + l + i] \in Speech
  BY <1>7, <1>9, <1>10
<1> QED
  BY <1>3, <1>7, <1>9, <1>11, <1>12, <1>13 DEF s, u, l

\* A run is sent as it is by the class that can.
LEMMA RunSent ==
  ASSUME backend = "openai", NEW h \in Seq(Speech), NEW T, NEW C, Ledger(T, C), C = <<>>,
         NEW e \in Seq(Speech)
  PROVE  Whole(RunOf(h, T, e)) /\ Paired(RunOf(h, T, e)) /\ Stable(RunOf(h, T, e))
<1> DEFINE s == RunOf(h, T, e)
           R == Request(s)
           p == Len(Preamble)
           l == Len(T)
           d == p + Len(h)
<1>1. T \in Seq(Entries)
  BY DEF Ledger
<1>2. /\ s \in Seq(Told) /\ Len(s) = Len(h) + l + Len(e)
      /\ \A i \in 1 .. Len(h) : s[i] \in Speech
      /\ \A i \in 1 .. l : s[Len(h) + i] = Message(T[i])
      /\ \A i \in 1 .. Len(e) : s[Len(h) + l + i] \in Speech
  BY <1>1, RunIs
<1>3. Len(h) \in Nat /\ Len(e) \in Nat /\ l \in Nat
  BY <1>1
<1> HIDE DEF s
<1>4. Request(s) = Preamble \o s
  BY DEF Request, ToOpenAI
<1>5. Follows(s, s)
  BY <1>2, <1>4, Behind
<1>6. /\ p \in {0, 1} /\ DOMAIN R = 1 .. p + Len(s)
      /\ \A i \in 1 .. p : R[i] = System
      /\ \A i \in 1 .. Len(s) : R[p + i] = s[i]
      /\ \A i \in DOMAIN R : i <= p \/ (i - p \in 1 .. Len(s) /\ R[i] = s[i - p])
  BY <1>5 DEF Follows
<1>7. System.by # "tool" /\ System.calls = {}
  BY MsgGives DEF System
<1>8. \A m \in Speech : m.by # "tool" /\ m.calls = {}
  <2> TAKE m \in Speech
  <2>1. m = Msg(m.by, m.text, {}, {}, No) /\ m.by # "tool"
    BY SpeechIs
  <2> QED
    BY <2>1, MsgGives
<1> HIDE DEF R, p, l
<1>9. \A i \in 1 .. l : R[d + i] = Message(T[i])
  <2> TAKE i \in 1 .. l
  <2>1. Len(h) + i \in 1 .. Len(s) /\ p + (Len(h) + i) = d + i
    BY <1>2, <1>3, <1>6
  <2> QED
    BY <1>2, <1>6, <2>1
<1>10. ASSUME NEW i \in DOMAIN R, i <= d \/ i > d + l
       PROVE  R[i].by # "tool" /\ R[i].calls = {}
  <2>1. CASE i <= p
    <3>1. i \in 1 .. p
      BY <1>6, <2>1
    <3> QED
      BY <1>6, <1>7, <3>1
  <2>2. CASE ~(i <= p)
    <3>1. i - p \in 1 .. Len(s) /\ R[i] = s[i - p]
      BY <1>6, <2>2
    <3>2. \/ i - p \in 1 .. Len(h)
          \/ i - p - Len(h) - l \in 1 .. Len(e) /\ i - p = Len(h) + l + (i - p - Len(h) - l)
      BY <1>2, <1>3, <1>6, <1>10, <3>1
    <3>3. s[i - p] \in Speech
      BY <1>2, <3>2
    <3> QED
      BY <1>8, <3>1, <3>3
  <2> QED
    BY <2>1, <2>2
<1>11. Laid(R, d, T)
  <2>1. d \in Nat /\ p + Len(s) \in Nat /\ d + l <= p + Len(s)
    BY <1>2, <1>3, <1>6
  <2> QED
    BY <1>6, <1>9, <1>10, <2>1 DEF Laid, l
<1>12. Paired(s)
  BY <1>11, LaidPaired DEF R
<1>13. Whole(s) /\ Stable(s)
  BY <1>2, ToldWhole, ToldStable
<1> QED
  BY <1>12, <1>13 DEF s

--------------------------------------------------------------------------------
(* The states of an exchange                                               *)

\* Only a run has a transcript, and only that of the class that passes tools on.
RunSound ==
    /\ backend \in Backends /\ history \in Seq(Speech) /\ iteration \in Nat
    /\ Ledger(transcript, calls)
    /\ phase # "calling" => calls = <<>>
    /\ phase # "new" => ~inCall
    /\ backend # "openai" \/ phase = "new" => transcript = <<>>

\* Processes of the CLI with any sets in the place of their fields.
Procs(A, R, T, H, E) == [at : A, runs : R, text : T, heard : H, ended : E]
IsProc(c) == c \in Procs({c.at}, {c.runs}, {c.text}, {c.heard}, {c.ended})

CliEvents == {"text", "silent", "result", "bare result", "garbage"}
TextsHeard(heard) == {k \in DOMAIN heard : heard[k] \in {"text", "result"}}

\* What was heard, and the text kept of it.
HeardRight(h, t) ==
    /\ h \in Seq(CliEvents)
    /\ IF TextsHeard(h) = {} THEN t = 0
       ELSE t \in TextsHeard(h) /\ \A k \in TextsHeard(h) : k <= t

\* What is made of it at the end.
Reported(h, t, texts, how) ==
    how \in {"exit", "error"} =>
        IF TextsHeard(h) # {} THEN texts = <<t>> /\ how = "exit" ELSE texts \in {<<>>, <<0>>}

\* The CLI's process is there while a message is under way, and its text is the last it said;
\* a run has none.
CliSound ==
    /\ IsProc(cli)
    /\ HeardRight(cli.heard, cli.text)
    /\ cli.at # "none" \/ cli.ended # "none" =>
          backend = "claude_code" /\ phase = "new" /\ history # <<>>
    /\ cli.at # "none" => inCall /\ cli.ended = "none"
    /\ cli.runs /\ cli.at = "none" => cli.ended \in {"raised", "cancelled"}
    /\ Reported(cli.heard, cli.text, reply.texts, cli.ended)

\* The reply is that to what was returned last, and calls come from the class with tools.
BlocksSound ==
    /\ blocks # <<>> => /\ blocks \in Seq({"text", "call"}) /\ reply = Response(blocks)
                        /\ backend = "openai" \/ "call" \notin ToSet(blocks)
    /\ backend = "claude_code" /\ phase = "new" => blocks = <<>>

\* A check that passed was true of what it saw.
CheckSound ==
    healthy.is =>
        healthy.saw.serves \/ backend \in {"claude_code", "vllm"}
                           \/ (backend \in {"openai", "ollama", "bedrock"} /\ healthy.saw.lists # "others")

ExchangeInv == RunSound /\ CliSound /\ BlocksSound /\ CheckSound

LEMMA SaidSpeech ==
  ASSUME NEW by \in {"user", "assistant"}, NEW n \in Nat \ {0}
  PROVE  Said(by, n) \in Speech
<1> DEFINE B == {"user", "assistant"}
           N == Nat \ {0}
           none == {}
           U == {none}
<1>1. none \in U /\ No \in {No} /\ by \in B /\ n \in N
  OBVIOUS
<1>2. Said(by, n) = Msg(by, n, none, none, No)
  BY SaidIs
<1>3. Speech = MsgsOver(B, N, U, U, {No})
  BY DEF Speech
<1> HIDE DEF B, N, none, U
<1>4. Msg(by, n, none, none, No) \in MsgsOver(B, N, U, U, {No})
  BY <1>1, MsgIn
<1> QED
  BY <1>2, <1>3, <1>4

LEMMA SentRight ==
  ASSUME RunSound
  PROVE  Sent # <<>> => Whole(Sent) /\ Paired(Sent) /\ Stable(Sent)
<1> SUFFICES ASSUME Sent # <<>> PROVE Whole(Sent) /\ Paired(Sent) /\ Stable(Sent)
  OBVIOUS
<1> DEFINE h == history
           asked == <<Said("user", 2)>>
<1>1. backend \in Backends /\ h \in Seq(Speech)
  BY DEF RunSound
<1>2. asked \in Seq(Speech) /\ <<>> \in Seq(Speech)
  BY SaidSpeech
<1>3. RunOf(h, transcript, <<>>) = Messages /\ RunOf(h, transcript, asked) = Append(Messages, Said("user", 2))
  <2> DEFINE q == [i \in DOMAIN transcript |-> Message(transcript[i])]
             x == Said("user", 2)
  <2>1. transcript \in Seq(Entries)
    BY DEF RunSound, Ledger
  <2>2. DOMAIN transcript = 1 .. Len(transcript) /\ Len(transcript) \in Nat
        /\ \A i \in 1 .. Len(transcript) : transcript[i] \in Entries
    BY <2>1
  <2>3. q \in [1 .. Len(transcript) -> Told]
    BY <2>2, EntryTold
  <2> HIDE DEF q, x
  <2>4. q \in Seq(Told) /\ h \in Seq(Told)
    BY <1>1, <2>2, <2>3, SpeechTold
  <2> DEFINE u == h \o q
  <2>5. u \in Seq(Told)
    BY <2>4
  <2>6. Messages = u /\ RunOf(h, transcript, <<>>) = u \o <<>> /\ RunOf(h, transcript, asked) = u \o <<x>>
    BY DEF Messages, RunOf, q, x
  <2> HIDE DEF u
  <2>7. u \o <<>> = u /\ u \o <<x>> = Append(u, x)
    BY <2>5
  <2> QED
    BY <2>6, <2>7 DEF x
<1>4. \/ Sent = Messages /\ (inCall \/ phase = "sending")
      \/ Sent = Append(Messages, Said("user", 2)) /\ ~inCall /\ phase = "summarizing"
  BY DEF Sent
<1>5. PICK e \in Seq(Speech) : Sent = RunOf(h, transcript, e)
  BY <1>2, <1>3, <1>4
<1>6. CASE backend = "openai" /\ phase # "new"
  <2>1. Ledger(transcript, calls) /\ calls = <<>>
    BY <1>4, <1>6 DEF RunSound
  <2> QED
    BY <1>1, <1>5, <1>6, <2>1, RunSent
<1>7. CASE ~(backend = "openai" /\ phase # "new")
  <2>1. transcript = <<>>
    BY <1>7 DEF RunSound
  <2>2. [i \in DOMAIN transcript |-> Message(transcript[i])] = <<>>
    BY <2>1
  <2>3. RunOf(h, transcript, e) = (h \o <<>>) \o e
    BY <2>2 DEF RunOf
  <2>4. (h \o <<>>) \o e \in Seq(Speech)
    BY <1>1
  <2>5. Sent \in Seq(Speech)
    BY <1>5, <2>3, <2>4
  <2> HIDE DEF h
  <2> QED
    BY <1>1, <2>5, SpeechWhole, SpeechPaired, SpeechStable
<1> QED
  BY <1>6, <1>7

LEMMA SentSound == RunSound => RequestWhole /\ ToolsPaired /\ CacheStable
<1> SUFFICES ASSUME RunSound PROVE RequestWhole /\ ToolsPaired /\ CacheStable
  OBVIOUS
<1>1. CASE Sent # <<>>
  <2>1. Whole(Sent) /\ Paired(Sent) /\ Stable(Sent)
    BY <1>1, SentRight
  <2>2. RequestWhole
    BY <2>1 DEF RequestWhole, Whole
  <2>3. ToolsPaired
    BY <2>1 DEF ToolsPaired, Paired
  <2>4. CacheStable
    BY <2>1 DEF CacheStable, Stable, MarkedIn
  <2> QED
    BY <2>2, <2>3, <2>4
<1>2. CASE Sent = <<>>
  <2>1. DOMAIN Sent = {}
    BY <1>2
  <2> QED
    BY <1>2, <2>1 DEF RequestWhole, ToolsPaired, CacheStable
<1> QED
  BY <1>1, <1>2

\* The texts of a response, by their places.
LEMMA TextsAre ==
  ASSUME NEW b \in Seq({"text", "call"})
  PROVE  TextsIn(b) \in Seq(Nat) /\ (TextsIn(b) # <<>> <=> "text" \in ToSet(b))
<1> DEFINE q == [i \in DOMAIN b |-> i]
           S == {i \in DOMAIN b : b[i] = "text"}
<1>1. DOMAIN b = 1 .. Len(b) /\ Len(b) \in Nat
  OBVIOUS
<1>2. q \in [1 .. Len(b) -> Nat] /\ \A i \in 1 .. Len(b) : q[i] = i
  BY <1>1
<1> HIDE DEF q
<1>3. q \in Seq(Nat) /\ DOMAIN q = 1 .. Len(b)
  BY <1>1, <1>2
<1>4. ToSet(q) = 1 .. Len(b)
  BY <1>2, <1>3 DEF ToSet
<1> DEFINE t == Filter(q, S)
<1>5. t \in Seq(Nat) /\ ToSet(t) = ToSet(q) \cap S
  BY <1>3, FilterMembers
<1>6. ToSet(t) = S
  BY <1>1, <1>4, <1>5
<1>7. TextsIn(b) = t
  BY DEF TextsIn, q
<1> HIDE DEF t
<1>8. t # <<>> <=> ToSet(t) # {}
  BY <1>5 DEF ToSet
<1>9. S # {} <=> "text" \in ToSet(b)
  BY DEF ToSet
<1> QED
  BY <1>5, <1>6, <1>7, <1>8, <1>9

LEMMA ResponseIs ==
  ASSUME NEW b \in Seq({"text", "call"}), backend \in Backends,
         backend = "openai" \/ "call" \notin ToSet(b)
  PROVE  /\ Response(b).calls = Calls(b)
         /\ Response(b).texts # <<>> <=> "text" \in ToSet(b)
         /\ backend # "anthropic" => Response(b).texts = TextsIn(b)
<1>1. TextsIn(b) # <<>> <=> "text" \in ToSet(b)
  BY TextsAre
<1> DEFINE t == TextsIn(b)
           n == Calls(b)
<1>2. backend = "ollama" => n = 0
  <2>1. ASSUME backend = "ollama" PROVE {i \in DOMAIN b : b[i] = "call"} = {}
    BY <2>1 DEF ToSet
  <2> QED
    BY <2>1, FS_EmptySet DEF Calls
<1> HIDE DEF t, n
<1>3. FromOpenAI(b).texts = t /\ FromOpenAI(b).calls = n
  BY DEF FromOpenAI, t, n
<1>4. FromOllama(b).texts = t /\ FromOllama(b).calls = 0
  BY DEF FromOllama, t
<1>5. FromAnthropic(b).calls = n /\ FromAnthropic(b).texts = IF t = <<>> THEN <<>> ELSE <<Last(t)>>
  BY DEF FromAnthropic, t, n
<1>6. FromAnthropic(b).texts # <<>> <=> t # <<>>
  BY <1>5
<1>7. CASE backend = "anthropic"
  <2>1. Response(b) = FromAnthropic(b)
    BY <1>7 DEF Response
  <2> QED
    BY <1>1, <1>5, <1>6, <1>7, <2>1 DEF t, n
<1>8. CASE backend = "ollama"
  <2>1. Response(b) = FromOllama(b)
    BY <1>8 DEF Response
  <2> QED
    BY <1>1, <1>2, <1>4, <1>8, <2>1 DEF t, n
<1>9. CASE backend \notin {"anthropic", "ollama"}
  <2>1. Response(b) = FromOpenAI(b)
    BY <1>9 DEF Response, FromVllm, FromGemini, FromBedrock, FromCohere
  <2> QED
    BY <1>1, <1>3, <2>1 DEF t, n
<1> QED
  BY <1>7, <1>8, <1>9

LEMMA LastHeard ==
  ASSUME CliSound, TextsHeard(cli.heard) # {}
  PROVE  Max(TextsHeard(cli.heard)) = cli.text
<1> DEFINE S == TextsHeard(cli.heard)
           n == cli.text
<1>1. S \subseteq Nat /\ n \in S /\ \A k \in S : k <= n
  <2>1. cli.heard \in Seq(CliEvents) /\ n \in S /\ \A k \in S : k <= n
    BY DEF CliSound, HeardRight
  <2>2. DOMAIN cli.heard \subseteq Nat
    BY <2>1
  <2> QED
    BY <2>1, <2>2 DEF TextsHeard
<1> HIDE DEF S, n
<1>2. \A x \in S : (\A y \in S : x >= y) <=> x = n
  BY <1>1
<1>3. Max(S) = CHOOSE x \in S : \A y \in S : x >= y
  BY DEF Max
<1>4. Max(S) = n
  BY <1>1, <1>2, <1>3
<1> QED
  BY <1>4 DEF S, n

LEMMA ReplySound == backend \in Backends /\ CliSound /\ BlocksSound => ReplyWhole
<1> SUFFICES ASSUME backend \in Backends, CliSound, BlocksSound PROVE ReplyWhole
  OBVIOUS
<1>1. ASSUME blocks # <<>>
      PROVE  /\ reply.calls = Calls(blocks)
             /\ reply.texts # <<>> <=> "text" \in ToSet(blocks)
             /\ backend # "anthropic" => reply.texts = TextsIn(blocks)
  <2>1. blocks \in Seq({"text", "call"}) /\ reply = Response(blocks)
        /\ (backend = "openai" \/ "call" \notin ToSet(blocks))
    BY <1>1 DEF BlocksSound
  <2> QED
    BY <2>1, ResponseIs
<1>2. ASSUME cli.ended \in {"exit", "error"}
      PROVE  IF TextsHeard(cli.heard) # {} THEN reply.texts = <<Max(TextsHeard(cli.heard))>> /\ cli.ended = "exit"
             ELSE reply.texts \in {<<>>, <<0>>}
  BY <1>2, LastHeard DEF CliSound, Reported
<1>3. cli.runs /\ ~inCall => cli.ended \in {"raised", "cancelled"}
  BY DEF CliSound
<1> QED
  BY <1>1, <1>2, <1>3 DEF ReplyWhole, TextsHeard

LEMMA ExchangeKept == ExchangeInv => ExchangeSound
<1> SUFFICES ASSUME ExchangeInv PROVE ExchangeSound
  OBVIOUS
<1>1. RunSound /\ CliSound /\ BlocksSound /\ CheckSound /\ backend \in Backends
  BY DEF ExchangeInv, RunSound
<1>2. RequestWhole /\ ToolsPaired /\ CacheStable /\ ReplyWhole
  BY <1>1, SentSound, ReplySound
<1>3. CheckTruthful
  BY <1>1 DEF CheckSound, CheckTruthful
<1> QED
  BY <1>2, <1>3 DEF ExchangeSound

LEMMA ProcReplaced ==
  ASSUME NEW A, NEW R, NEW T, NEW H, NEW E, NEW c \in Procs(A, R, T, H, E), NEW a, NEW r, NEW t, NEW h, NEW e
  PROVE  /\ [c EXCEPT !.at = a] \in Procs({a}, R, T, H, E)
         /\ [c EXCEPT !.text = t, !.heard = h] \in Procs(A, R, {t}, {h}, E)
         /\ [c EXCEPT !.at = a, !.ended = e] \in Procs({a}, R, T, H, {e})
         /\ [c EXCEPT !.at = a, !.runs = r] \in Procs({a}, {r}, T, H, E)
         /\ [c EXCEPT !.at = a, !.runs = r, !.ended = e] \in Procs({a}, {r}, T, H, {e})
<1> USE DEF Procs
<1>1. [c EXCEPT !.at = a] \in Procs({a}, R, T, H, E)
  OBVIOUS
<1>2. [c EXCEPT !.text = t, !.heard = h] \in Procs(A, R, {t}, {h}, E)
  OBVIOUS
<1>3. [c EXCEPT !.at = a, !.ended = e] \in Procs({a}, R, T, H, {e})
  OBVIOUS
<1>4. [c EXCEPT !.at = a, !.runs = r] \in Procs({a}, {r}, T, H, E)
  OBVIOUS
<1>5. [c EXCEPT !.at = a, !.runs = r, !.ended = e] \in Procs({a}, {r}, T, H, {e})
  OBVIOUS
<1> QED
  BY <1>1, <1>2, <1>3, <1>4, <1>5

Becomes(c, a, r, t, h, e) ==
    IsProc(c) /\ c.at = a /\ c.runs = r /\ c.text = t /\ c.heard = h /\ c.ended = e

LEMMA ProcIs ==
  ASSUME NEW a, NEW r, NEW t, NEW h, NEW e, NEW c \in Procs({a}, {r}, {t}, {h}, {e})
  PROVE  Becomes(c, a, r, t, h, e)
<1>1. c.at = a /\ c.runs = r /\ c.text = t /\ c.heard = h /\ c.ended = e
  BY DEF Procs
<1> QED
  BY <1>1 DEF Becomes, IsProc

NotRunning == FALSE

LEMMA NoProcessIs ==
  /\ Becomes(NoProcess, "none", NotRunning, 0, <<>>, "none")
  /\ Started.at = "writing" /\ Started.text = 0 /\ Started.heard = <<>> /\ Started.ended = "none"
  /\ IsProc(Started)
<1> DEFINE n == "none"
           z == 0
           s == <<>>
           w == "writing"
           c == NoProcess
           yes == TRUE
<1>1. c \in Procs({n}, {NotRunning}, {z}, {s}, {n})
  BY DEF NoProcess, Procs, NotRunning
<1> HIDE DEF n, z, s, w, c, yes
<1>2. Becomes(c, n, NotRunning, z, s, n)
  BY <1>1, ProcIs
<1>3. [c EXCEPT !.at = w, !.runs = yes] \in Procs({w}, {yes}, {z}, {s}, {n})
  BY <1>1, ProcReplaced
<1>4. Started \in Procs({w}, {yes}, {z}, {s}, {n})
  BY <1>3 DEF Started, w, c, yes
<1>5. Becomes(Started, w, yes, z, s, n)
  BY <1>4, ProcIs
<1>6. /\ Started.at = w /\ Started.text = z /\ Started.heard = s /\ Started.ended = n
      /\ IsProc(Started)
  BY <1>5 DEF Becomes
<1>7. Becomes(c, n, NotRunning, z, s, n) /\ Started.at = w /\ Started.text = z /\ Started.heard = s
      /\ Started.ended = n /\ IsProc(Started)
  BY <1>2, <1>6
<1> QED
  BY <1>7 DEF n, z, s, w, c

\* Where a process is, and how it ended, changes nothing of what it said.
LEMMA ProcMoves ==
  ASSUME NEW c, IsProc(c), NEW a, NEW r, NEW t, NEW h, NEW e
  PROVE  /\ Becomes([c EXCEPT !.at = a], a, c.runs, c.text, c.heard, c.ended)
         /\ Becomes([c EXCEPT !.text = t, !.heard = h], c.at, c.runs, t, h, c.ended)
         /\ Becomes([c EXCEPT !.at = a, !.ended = e], a, c.runs, c.text, c.heard, e)
         /\ Becomes([c EXCEPT !.at = a, !.runs = r, !.ended = e], a, r, c.text, c.heard, e)
<1>1. c \in Procs({c.at}, {c.runs}, {c.text}, {c.heard}, {c.ended})
  BY DEF IsProc
<1>2. [c EXCEPT !.at = a] \in Procs({a}, {c.runs}, {c.text}, {c.heard}, {c.ended})
  BY <1>1, ProcReplaced
<1>3. [c EXCEPT !.text = t, !.heard = h] \in Procs({c.at}, {c.runs}, {t}, {h}, {c.ended})
  BY <1>1, ProcReplaced
<1>4. [c EXCEPT !.at = a, !.ended = e] \in Procs({a}, {c.runs}, {c.text}, {c.heard}, {e})
  BY <1>1, ProcReplaced
<1>5. [c EXCEPT !.at = a, !.runs = r, !.ended = e] \in Procs({a}, {r}, {c.text}, {c.heard}, {e})
  BY <1>1, ProcReplaced
<1>6. Becomes([c EXCEPT !.at = a], a, c.runs, c.text, c.heard, c.ended)
  BY <1>2, ProcIs
<1>7. Becomes([c EXCEPT !.text = t, !.heard = h], c.at, c.runs, t, h, c.ended)
  BY <1>3, ProcIs
<1>8. Becomes([c EXCEPT !.at = a, !.ended = e], a, c.runs, c.text, c.heard, e)
  BY <1>4, ProcIs
<1>9. Becomes([c EXCEPT !.at = a, !.runs = r, !.ended = e], a, r, c.text, c.heard, e)
  BY <1>5, ProcIs
<1> QED
  BY <1>6, <1>7, <1>8, <1>9

LEMMA HeardOneMore ==
  ASSUME NEW h \in Seq(CliEvents), NEW event \in CliEvents
  PROVE  /\ Append(h, event) \in Seq(CliEvents)
         /\ TextsHeard(Append(h, event)) =
                TextsHeard(h) \cup (IF event \in {"text", "result"} THEN {Len(h) + 1} ELSE {})
         /\ TextsHeard(h) \subseteq 1 .. Len(h)
<1> DEFINE z == Append(h, event)
<1>1. /\ z \in Seq(CliEvents) /\ DOMAIN z = 1 .. Len(h) + 1 /\ z[Len(h) + 1] = event
      /\ \A k \in 1 .. Len(h) : z[k] = h[k]
  OBVIOUS
<1>2. DOMAIN h = 1 .. Len(h) /\ Len(h) \in Nat
  OBVIOUS
<1> HIDE DEF z
<1>3. 1 .. Len(h) + 1 = (1 .. Len(h)) \cup {Len(h) + 1}
  BY <1>2
<1>4. TextsHeard(z) = TextsHeard(h) \cup (IF event \in {"text", "result"} THEN {Len(h) + 1} ELSE {})
  BY <1>1, <1>2, <1>3 DEF TextsHeard
<1>5. TextsHeard(h) \subseteq 1 .. Len(h)
  BY <1>2 DEF TextsHeard
<1> QED
  BY <1>1, <1>4, <1>5 DEF z

--------------------------------------------------------------------------------
(* The steps of an exchange                                                *)

\* An event replaces the text or leaves it.
LEMMA ReadKeeps ==
  ASSUME CliSound, ReadEvent
  PROVE  /\ IsProc(cli') /\ cli'.at = cli.at /\ cli'.runs = cli.runs /\ cli'.ended = cli.ended
         /\ HeardRight(cli'.heard, cli'.text)
<1> DEFINE h == cli.heard
           n == Len(h) + 1
<1>1. IsProc(cli) /\ h \in Seq(CliEvents)
      /\ IF TextsHeard(h) = {} THEN cli.text = 0
         ELSE cli.text \in TextsHeard(h) /\ \A k \in TextsHeard(h) : k <= cli.text
  BY DEF CliSound, HeardRight
<1>2. PICK event \in CliEvents : cli' = [cli EXCEPT !.text = TextAfter(event), !.heard = Append(h, event)]
  BY Zenon DEF ReadEvent, CliEvents
<1> DEFINE g == Append(h, event)
           t == TextAfter(event)
<1>3. /\ g \in Seq(CliEvents)
      /\ TextsHeard(g) = TextsHeard(h) \cup (IF event \in {"text", "result"} THEN {n} ELSE {})
      /\ TextsHeard(h) \subseteq 1 .. Len(h)
  BY <1>1, HeardOneMore
<1>4. t = IF event \in {"text", "result"} THEN n ELSE cli.text
  BY DEF TextAfter
<1>5. Len(h) \in Nat
  BY <1>1
<1> HIDE DEF g, t
<1>6. cli' = [cli EXCEPT !.text = t, !.heard = g]
  BY <1>2 DEF g, t
<1>7. Becomes(cli', cli.at, cli.runs, t, g, cli.ended)
  <2>1. Becomes([cli EXCEPT !.text = t, !.heard = g], cli.at, cli.runs, t, g, cli.ended)
    BY <1>1, ProcMoves
  <2> QED
    BY <1>6, <2>1
<1>8. /\ IsProc(cli') /\ cli'.at = cli.at /\ cli'.runs = cli.runs /\ cli'.text = t /\ cli'.heard = g
      /\ cli'.ended = cli.ended
  BY <1>7 DEF Becomes
<1> HIDE DEF h
<1>9. IF TextsHeard(g) = {} THEN t = 0 ELSE t \in TextsHeard(g) /\ \A k \in TextsHeard(g) : k <= t
  <2>1. CASE event \in {"text", "result"}
    <3>1. TextsHeard(g) = TextsHeard(h) \cup {n} /\ t = n
      BY <1>3, <1>4, <2>1
    <3>2. \A k \in TextsHeard(h) : k <= n
      BY <1>3, <1>5
    <3> QED
      BY <1>5, <3>1, <3>2
  <2>2. CASE event \notin {"text", "result"}
    <3>1. TextsHeard(g) = TextsHeard(h) /\ t = cli.text
      BY <1>3, <1>4, <2>2
    <3> QED
      BY <1>1, <3>1
  <2> QED
    BY <2>1, <2>2
<1> QED
  BY <1>3, <1>8, <1>9 DEF HeardRight

LEMMA CliStep ==
  ASSUME ExchangeInv,
         PromptWritten \/ ReadEvent \/ EndOfOutput \/ TimesOut \/ CliAbandoned \/ \E status \in {0, 1} : Exits(status)
  PROVE  ExchangeInv'
<1>1. /\ UNCHANGED <<phase, iteration, transcript, calls, backend, history, blocks, healthy>>
      /\ cli.at # "none" /\ inCall' \in {inCall, FALSE}
  BY DEF PromptWritten, ReadEvent, EndOfOutput, TimesOut, CliAbandoned, Exits, CliReturns, agentVars,
         givenVars, serviceVars
<1>2. RunSound /\ CliSound /\ BlocksSound /\ CheckSound
  BY DEF ExchangeInv
<1>3. /\ backend = "claude_code" /\ phase = "new" /\ history # <<>> /\ inCall /\ cli.ended = "none"
      /\ IsProc(cli) /\ HeardRight(cli.heard, cli.text)
  BY <1>1, <1>2 DEF CliSound
<1>4. RunSound'
  BY <1>1, <1>2, <1>3 DEF RunSound
<1>5. BlocksSound'
  <2>1. blocks = <<>>
    BY <1>2, <1>3 DEF BlocksSound
  <2> QED
    BY <1>1, <2>1 DEF BlocksSound
<1>6. CheckSound'
  BY <1>1, <1>2 DEF CheckSound
<1>7. ASSUME PromptWritten \/ EndOfOutput PROVE CliSound'
  <2>1. PICK a : cli' = [cli EXCEPT !.at = a] /\ a # "none" /\ inCall' = inCall
    BY <1>7 DEF PromptWritten, EndOfOutput
  <2>2. Becomes([cli EXCEPT !.at = a], a, cli.runs, cli.text, cli.heard, cli.ended)
    BY <1>3, ProcMoves
  <2>3. Becomes(cli', a, cli.runs, cli.text, cli.heard, cli.ended)
    BY <2>1, <2>2
  <2>4. /\ IsProc(cli') /\ cli'.at = a /\ cli'.text = cli.text /\ cli'.heard = cli.heard /\ cli'.ended = cli.ended
    BY <2>3 DEF Becomes
  <2> QED
    BY <1>1, <1>3, <2>1, <2>4 DEF CliSound, Reported
<1>8. ASSUME ReadEvent PROVE CliSound'
  <2>1. /\ IsProc(cli') /\ cli'.at = cli.at /\ cli'.ended = cli.ended
        /\ HeardRight(cli'.heard, cli'.text)
    BY <1>2, <1>8, ReadKeeps
  <2>2. inCall' = inCall
    BY <1>8 DEF ReadEvent
  <2> QED
    BY <1>1, <1>3, <2>1, <2>2 DEF CliSound, Reported
<1>9. ASSUME NEW texts, NEW how, CliReturns(texts, how), how # "none",
             Reported(cli.heard, cli.text, texts, how)
      PROVE  CliSound'
  <2> DEFINE a == "none"
  <2> HIDE DEF a
  <2>1. cli' = [cli EXCEPT !.at = a, !.runs = NotRunning, !.ended = how] /\ reply'.texts = texts
    BY <1>9 DEF CliReturns, a, NotRunning
  <2>2. Becomes([cli EXCEPT !.at = a, !.runs = NotRunning, !.ended = how], a, NotRunning, cli.text, cli.heard, how)
    BY <1>3, ProcMoves
  <2>3. Becomes(cli', a, NotRunning, cli.text, cli.heard, how)
    BY <2>1, <2>2
  <2>4. /\ IsProc(cli') /\ cli'.at = a /\ cli'.text = cli.text /\ cli'.heard = cli.heard /\ cli'.ended = how
        /\ cli'.runs = NotRunning
    BY <2>3 DEF Becomes
  <2>5. ~cli'.runs
    BY <2>4 DEF NotRunning
  <2>6. cli'.at = "none"
    BY <2>4 DEF a
  <2> QED
    BY <1>1, <1>3, <1>9, <2>1, <2>4, <2>5, <2>6 DEF CliSound
<1>10. ASSUME TimesOut PROVE CliSound'
  <2> DEFINE texts == <<0>>
             how == "timeout"
  <2>1. CliReturns(texts, how) /\ how # "none" /\ Reported(cli.heard, cli.text, texts, how)
    BY <1>10 DEF TimesOut, Reported
  <2> HIDE DEF texts, how
  <2> QED
    BY <1>9, <2>1
<1>11. ASSUME NEW status \in {0, 1}, Exits(status) PROVE CliSound'
  <2> DEFINE texts == IF cli.text # 0 THEN <<cli.text>> ELSE IF status # 0 THEN <<0>> ELSE <<>>
             how == IF status # 0 /\ cli.text = 0 THEN "error" ELSE "exit"
  <2>1. CliReturns(texts, how)
    BY <1>11 DEF Exits
  <2>2. TextsHeard(cli.heard) # {} <=> cli.text # 0
    <3>1. \A k \in TextsHeard(cli.heard) : k # 0
      <4>1. DOMAIN cli.heard = 1 .. Len(cli.heard)
        BY <1>3 DEF HeardRight
      <4> QED
        BY <4>1 DEF TextsHeard
    <3> QED
      BY <1>3, <3>1 DEF HeardRight
  <2>3. how # "none" /\ Reported(cli.heard, cli.text, texts, how)
    BY <2>2 DEF Reported
  <2> HIDE DEF texts, how
  <2> QED
    BY <1>9, <2>1, <2>3
<1>12. ASSUME CliAbandoned PROVE CliSound'
  <2> DEFINE a == "none"
  <2>1. PICK how \in {"raised", "cancelled"} : cli' = [cli EXCEPT !.at = a, !.ended = how]
    BY <1>12 DEF CliAbandoned
  <2> HIDE DEF a
  <2>2. Becomes([cli EXCEPT !.at = a, !.ended = how], a, cli.runs, cli.text, cli.heard, how)
    BY <1>3, ProcMoves
  <2>3. Becomes(cli', a, cli.runs, cli.text, cli.heard, how)
    BY <2>1, <2>2
  <2>4. /\ IsProc(cli') /\ cli'.at = a /\ cli'.text = cli.text /\ cli'.heard = cli.heard /\ cli'.ended = how
    BY <2>3 DEF Becomes
  <2>5. cli'.at = "none" /\ cli'.ended \in {"raised", "cancelled"}
    BY <2>4 DEF a
  <2> QED
    BY <1>1, <1>3, <2>4, <2>5 DEF CliSound, Reported
<1>13. CliSound'
  BY <1>7, <1>8, <1>10, <1>11, <1>12
<1> QED
  BY <1>4, <1>5, <1>6, <1>13 DEF ExchangeInv

\* Without a process, and with none that has ended, nothing is claimed of the CLI.
LEMMA NoCli ==
  ASSUME CliSound, cli.at = "none", cli.ended = "none", cli' = cli
  PROVE  CliSound'
<1>1. IsProc(cli) /\ HeardRight(cli.heard, cli.text) /\ ~cli.runs
  BY DEF CliSound
<1> QED
  BY <1>1 DEF CliSound, Reported

\* What is returned comes from the class that was asked.
LEMMA ReturnedIs ==
  ASSUME NEW tooled \in BOOLEAN, NEW b \in Returned(tooled)
  PROVE  b \in Seq({"text", "call"}) /\ (tooled \/ "call" \notin ToSet(b))
<1>1. b \in SeqOf({"text", "call"}, MaxCalls) /\ (tooled \/ "call" \notin ToSet(b))
  BY DEF Returned
<1>2. PICK n \in 0 .. MaxCalls : b \in [1 .. n -> {"text", "call"}]
  BY <1>1 DEF SeqOf
<1> QED
  BY <1>1, <1>2, AgentAssumption

LEMMA SameResponse ==
  ASSUME backend' = backend
  PROVE  Response(blocks)' = Response(blocks')
BY DEF Response, FromOpenAI, FromVllm, FromGemini, FromBedrock, FromCohere, FromOllama, FromAnthropic,
       TextsIn, Calls

LEMMA UserAsksKeeps == ASSUME ExchangeInv, UserAsks PROVE ExchangeInv'
<1> DEFINE x == Said("user", Len(history) + 1)
           y == Said("user", 1)
<1>1. RunSound /\ CliSound /\ BlocksSound /\ CheckSound
  BY DEF ExchangeInv
<1>2. /\ phase = "new" /\ ~inCall /\ inCall'
      /\ history' = IF backend = "claude_code" THEN <<y>> ELSE Append(history, x)
      /\ cli' = IF backend = "claude_code" THEN Started ELSE NoProcess
      /\ UNCHANGED <<phase, iteration, transcript, calls, backend, blocks, reply, healthy>>
  BY DEF UserAsks, agentVars, givenVars, serviceVars
<1>3. history \in Seq(Speech) /\ Len(history) + 1 \in Nat \ {0}
  BY <1>1 DEF RunSound
<1>4. x \in Speech /\ y \in Speech
  BY <1>3, SaidSpeech
<1> HIDE DEF x, y
<1>5. history' \in Seq(Speech) /\ history' # <<>>
  BY <1>2, <1>3, <1>4
<1>6. RunSound'
  BY <1>1, <1>2, <1>5 DEF RunSound
<1>7. BlocksSound'
  BY <1>1, <1>2, SameResponse DEF BlocksSound
<1>8. CheckSound'
  BY <1>1, <1>2 DEF CheckSound
<1>9. HeardRight(<<>>, 0)
  <2>1. <<>> \in Seq(CliEvents) /\ TextsHeard(<<>>) = {}
    BY DEF TextsHeard
  <2> QED
    BY <2>1 DEF HeardRight
<1>10. CASE backend = "claude_code"
  <2>1. /\ cli'.at = "writing" /\ cli'.text = 0 /\ cli'.heard = <<>> /\ cli'.ended = "none"
        /\ IsProc(cli')
    BY <1>2, <1>10, NoProcessIs
  <2>2. HeardRight(cli'.heard, cli'.text)
    BY <1>9, <2>1
  <2>3. CliSound'
    BY <1>2, <1>5, <1>10, <2>1, <2>2 DEF CliSound, Reported
  <2> QED
    BY <1>6, <1>7, <1>8, <2>3 DEF ExchangeInv
<1>11. CASE backend # "claude_code"
  <2>1. Becomes(cli', "none", NotRunning, 0, <<>>, "none")
    BY <1>2, <1>11, NoProcessIs
  <2>2. /\ cli'.at = "none" /\ cli'.text = 0 /\ cli'.heard = <<>> /\ cli'.ended = "none"
        /\ IsProc(cli') /\ cli'.runs = NotRunning
    BY <2>1 DEF Becomes
  <2>3. ~cli'.runs
    BY <2>2 DEF NotRunning
  <2>4. HeardRight(cli'.heard, cli'.text)
    BY <1>9, <2>2
  <2>5. CliSound'
    BY <2>2, <2>3, <2>4 DEF CliSound, Reported
  <2> QED
    BY <1>6, <1>7, <1>8, <2>5 DEF ExchangeInv
<1> QED
  BY <1>10, <1>11

\* A class without a process of its own answers, or fails.
LEMMA AnswersKeeps == ASSUME ExchangeInv, Answers \/ AttemptFails PROVE ExchangeInv'
<1> DEFINE x == Said("assistant", Len(history) + 1)
<1>1. RunSound /\ CliSound /\ BlocksSound /\ CheckSound
  BY DEF ExchangeInv
<1>2. /\ inCall /\ ~inCall' /\ backend # "claude_code"
      /\ UNCHANGED <<phase, iteration, transcript, calls, backend, cli, healthy>>
      /\ \/ blocks' \in Returned(FALSE) /\ reply' = Response(blocks') /\ history' \in {history, Append(history, x)}
         \/ UNCHANGED <<blocks, reply, history>>
  BY DEF Answers, AttemptFails, Remembered, agentVars, givenVars, serviceVars
<1>3. history \in Seq(Speech) /\ Len(history) + 1 \in Nat \ {0}
  BY <1>1 DEF RunSound
<1>4. x \in Speech
  BY <1>3, SaidSpeech
<1> HIDE DEF x
<1>5. history' \in Seq(Speech)
  <2>1. Append(history, x) \in Seq(Speech)
    BY <1>3, <1>4
  <2> QED
    BY <1>2, <1>3, <2>1
<1>6. RunSound'
  BY <1>1, <1>2, <1>5 DEF RunSound
<1>7. CliSound'
  <2>1. cli.at = "none" /\ cli.ended = "none"
    BY <1>1, <1>2 DEF CliSound
  <2> QED
    BY <1>1, <1>2, <2>1, NoCli
<1>8. CheckSound'
  BY <1>1, <1>2 DEF CheckSound
<1>9. BlocksSound'
  <2>1. Response(blocks)' = Response(blocks')
    BY <1>2, SameResponse
  <2>2. CASE blocks' \in Returned(FALSE) /\ reply' = Response(blocks')
    <3>1. blocks' \in Seq({"text", "call"}) /\ "call" \notin ToSet(blocks')
      BY <2>2, ReturnedIs
    <3> QED
      BY <1>2, <2>1, <2>2, <3>1 DEF BlocksSound
  <2>3. CASE UNCHANGED <<blocks, reply, history>>
    BY <1>1, <1>2, <2>1, <2>3 DEF BlocksSound
  <2> QED
    BY <1>2, <2>2, <2>3
<1> QED
  BY <1>6, <1>7, <1>8, <1>9 DEF ExchangeInv

\* The model's turn enters a transcript that owes nothing.
LEMMA CallsToolsKeeps ==
  ASSUME Ledger(transcript, calls), calls = <<>>, iteration \in Nat, CallsTools
  PROVE  Ledger(transcript, calls)' /\ phase' = "calling" /\ iteration' = iteration
<1>1. PICK n \in 1 .. MaxCalls : \E tools \in [1 .. n -> Tools] :
        /\ calls' = [k \in 1 .. n |-> [id |-> <<iteration, k>>, tool |-> tools[k]]]
        /\ transcript' = Append(transcript, [kind |-> "turn", calls |-> {<<iteration, k>> : k \in 1 .. n}])
  BY DEF CallsTools
<1>2. PICK tools \in [1 .. n -> Tools] :
        /\ calls' = [k \in 1 .. n |-> [id |-> <<iteration, k>>, tool |-> tools[k]]]
        /\ transcript' = Append(transcript, [kind |-> "turn", calls |-> {<<iteration, k>> : k \in 1 .. n}])
  BY <1>1
<1>3. n \in Nat \ {0}
  BY AgentAssumption
<1>4. transcript' = Append(transcript, TurnOf(CallIds(n, iteration)))
  BY <1>2 DEF TurnOf, CallIds
<1>5. Fresh(calls', n, iteration)
  <2> DEFINE D == [k \in 1 .. n |-> [id |-> <<iteration, k>>, tool |-> tools[k]]]
  <2>1. \A k \in 1 .. n : D[k] = [id |-> <<iteration, k>>, tool |-> tools[k]] /\ k \in Nat
    BY <1>3
  <2>2. \A k \in 1 .. n : D[k].id = <<iteration, k>> /\ D[k] \in Callings
    <3> TAKE k \in 1 .. n
    <3>1. tools[k] \in Tools /\ <<iteration, k>> \in Nat \X Nat
      BY <2>1
    <3>2. [id |-> <<iteration, k>>, tool |-> tools[k]] \in Callings
      BY <3>1 DEF Callings
    <3> QED
      BY <2>1, <3>2
  <2>3. D \in [1 .. n -> Callings]
    BY <2>2
  <2>4. calls' = D
    BY <1>2
  <2> HIDE DEF D
  <2>5. D \in Seq(Callings) /\ Len(D) = n
    BY <1>3, <2>3
  <2> QED
    BY <2>2, <2>4, <2>5 DEF Fresh
<1>6. Ledger(Append(transcript, TurnOf(CallIds(n, iteration))), calls')
  BY <1>3, <1>5, TurnEnters
<1>7. Ledger(transcript', calls')
  BY <1>4, <1>6
<1> QED
  BY <1>7 DEF CallsTools, Ledger, Booked, Caused, IsTurn

LEMMA SettleKeeps ==
  ASSUME RunSound, NEW how, Settle(how)
  PROVE  /\ Ledger(transcript, calls)' /\ iteration' = iteration /\ phase # "new" /\ phase' # "new"
         /\ phase' # "calling" => calls' = <<>>
         /\ backend = "openai"
<1>1. /\ Ledger(transcript, calls) /\ calls # <<>> /\ phase = "calling"
      /\ transcript' = Append(transcript, [kind |-> "result", id |-> Head(calls).id]) /\ calls' = Tail(calls)
      /\ phase' = (IF Len(calls) = 1 THEN "checking" ELSE "calling") /\ iteration' = iteration
  BY DEF RunSound, Settle, Result
<1>2. transcript' = Append(transcript, ResultOf(Head(calls).id))
  BY <1>1 DEF ResultOf
<1>3. Ledger(Append(transcript, ResultOf(Head(calls).id)), Tail(calls))
  BY <1>1, ResultEnters
<1>4. Ledger(transcript', calls')
  BY <1>1, <1>2, <1>3
<1>5. transcript # <<>> /\ calls \in Seq(Callings)
  BY <1>1 DEF Ledger
<1>6. backend = "openai"
  BY <1>5 DEF RunSound
<1>7. Len(calls) = 1 => Tail(calls) = <<>>
  <2> SUFFICES ASSUME Len(calls) = 1 PROVE Tail(calls) = <<>>
    OBVIOUS
  <2> DEFINE q == Tail(calls)
  <2>1. q \in Seq(Callings) /\ Len(q) = 0
    BY <1>1, <1>5
  <2> HIDE DEF q
  <2>2. q = <<>>
    BY <2>1
  <2> QED
    BY <2>2 DEF q
<1> QED
  BY <1>1, <1>4, <1>6, <1>7 DEF Ledger, Booked, Caused, IsTurn

\* A run has no process, and no conversation is under way.
LEMMA NoCliInRun ==
  ASSUME ExchangeInv, phase # "new" \/ history = <<>>, cli' = cli
  PROVE  CliSound'
<1>1. CliSound /\ cli.at = "none" /\ cli.ended = "none"
  BY DEF ExchangeInv, CliSound
<1> QED
  BY <1>1, NoCli

LEMMA LedgerStays ==
  ASSUME Ledger(transcript, calls), transcript' = transcript, calls' = calls
  PROVE  Ledger(transcript, calls)'
<1>1. Ledger(transcript', calls')
  OBVIOUS
<1> QED
  BY <1>1 DEF Ledger, Booked, Caused, IsTurn

LEMMA RunStep == ASSUME ExchangeInv, RunBegins \/ ModelFails \/ RunGoesOn PROVE ExchangeInv'
<1>1. RunSound /\ BlocksSound /\ CheckSound
  BY DEF ExchangeInv
<1>2. /\ UNCHANGED <<backend, cli, inCall, blocks, reply, healthy>>
      /\ phase # "new" \/ history = <<>>
      /\ phase' # "new"
      /\ \/ UNCHANGED <<iteration, transcript, calls>> /\ phase # "calling" /\ phase' # "calling"
         \/ NextIteration
         \/ \E how : Settle(how)
      /\ history' = history \/ history' = <<Said("user", 1)>>
  BY DEF RunBegins, ModelFails, RunGoesOn, BeginAgent, End, Concludes, NextIteration, IterationsSpent,
         Blocked, Refused, Executed, Settle, Summarize, agentVars, givenVars, callVars, serviceVars
<1>3. CliSound'
  BY <1>2, NoCliInRun
<1>4. BlocksSound'
  BY <1>1, <1>2, SameResponse DEF BlocksSound
<1>5. CheckSound'
  BY <1>1, <1>2 DEF CheckSound
<1>6. history' \in Seq(Speech)
  <2> DEFINE x == Said("user", 1)
  <2>1. x \in Speech
    BY SaidSpeech
  <2>2. history \in Seq(Speech)
    BY <1>1 DEF RunSound
  <2> HIDE DEF x
  <2>3. <<x>> \in Seq(Speech)
    BY <2>1
  <2> QED
    BY <1>2, <2>2, <2>3 DEF x
<1>7. ~inCall
  <2>1. RunBegins => ~inCall
    BY DEF RunBegins
  <2>2. ModelFails \/ RunGoesOn => phase # "new"
    BY DEF ModelFails, RunGoesOn, NextIteration, IterationsSpent, Blocked, Refused, Executed, Settle, Summarize
  <2> QED
    BY <1>1, <2>1, <2>2 DEF RunSound
<1>8. CASE UNCHANGED <<iteration, transcript, calls>> /\ phase # "calling" /\ phase' # "calling"
  <2>1. Ledger(transcript, calls)'
    BY <1>1, <1>8, LedgerStays DEF RunSound
  <2>2. RunSound'
    BY <1>1, <1>2, <1>6, <1>7, <1>8, <2>1 DEF RunSound
  <2> QED
    BY <1>3, <1>4, <1>5, <2>2 DEF ExchangeInv
<1>9. CASE NextIteration
  <2>1. /\ iteration' = iteration + 1 /\ phase = "checking" /\ phase' # "calling"
        /\ UNCHANGED <<transcript, calls>>
    BY <1>9 DEF NextIteration
  <2>2. Ledger(transcript, calls)'
    BY <1>1, <2>1 DEF RunSound, Ledger, Booked, Caused, IsTurn
  <2>3. iteration' \in Nat
    BY <1>1, <2>1 DEF RunSound
  <2>4. RunSound'
    BY <1>1, <1>2, <1>6, <1>7, <2>1, <2>2, <2>3 DEF RunSound
  <2> QED
    BY <1>3, <1>4, <1>5, <2>4 DEF ExchangeInv
<1>10. CASE \E how : Settle(how)
  <2>1. /\ Ledger(transcript, calls)' /\ iteration' = iteration /\ phase' # "new"
        /\ phase' # "calling" => calls' = <<>>
        /\ backend = "openai"
    BY <1>1, <1>10, SettleKeeps
  <2>2. RunSound'
    BY <1>1, <1>2, <1>6, <1>7, <2>1 DEF RunSound
  <2> QED
    BY <1>3, <1>4, <1>5, <2>2 DEF ExchangeInv
<1> QED
  BY <1>2, <1>8, <1>9, <1>10

LEMMA ModelAnswersKeeps == ASSUME ExchangeInv, ModelAnswers PROVE ExchangeInv'
<1>1. RunSound /\ CheckSound
  BY DEF ExchangeInv
<1>2. /\ phase = "sending" /\ blocks' \in Returned(Tooled) /\ reply' = Response(blocks')
      /\ UNCHANGED <<backend, cli, inCall, healthy, history>>
      /\ IF reply'.calls > 0 THEN CallsTools ELSE Concludes
  BY DEF ModelAnswers, givenVars, serviceVars
<1>3. CliSound'
  BY <1>2, NoCliInRun
<1>4. CheckSound'
  BY <1>1, <1>2 DEF CheckSound
<1>5. /\ blocks' \in Seq({"text", "call"}) /\ (backend = "openai" \/ "call" \notin ToSet(blocks'))
  <2>1. Tooled \in BOOLEAN /\ (Tooled <=> backend = "openai")
    BY DEF Tooled
  <2> QED
    BY <1>2, <2>1, ReturnedIs
<1>6. ~inCall /\ calls = <<>> /\ Ledger(transcript, calls) /\ iteration \in Nat /\ backend \in Backends
  BY <1>1, <1>2 DEF RunSound
<1>7. CASE CallsTools /\ reply'.calls > 0
  <2>1. Ledger(transcript, calls)' /\ phase' = "calling" /\ iteration' = iteration
    BY <1>6, <1>7, CallsToolsKeeps
  <2>2. backend = "openai"
    <3>1. ASSUME backend # "openai" PROVE FALSE
      <4>1. Response(blocks').calls = Calls(blocks')
        BY <1>5, <1>6, ResponseIs
      <4>2. {i \in DOMAIN blocks' : blocks'[i] = "call"} = {}
        BY <1>5, <3>1 DEF ToSet
      <4>3. Calls(blocks') = 0
        BY <4>2, FS_EmptySet DEF Calls
      <4>4. reply'.calls = 0
        BY <1>2, <4>1, <4>3
      <4> QED
        BY <1>7, <4>4
    <3> QED
      BY <3>1
  <2>3. RunSound'
    BY <1>1, <1>2, <1>6, <2>1, <2>2 DEF RunSound
  <2>4. BlocksSound'
    BY <1>2, <1>5, <2>1, SameResponse DEF BlocksSound
  <2> QED
    BY <1>3, <1>4, <2>3, <2>4 DEF ExchangeInv
<1>8. CASE Concludes
  <2>1. UNCHANGED <<iteration, transcript, calls>> /\ phase' = "ended"
    BY <1>8 DEF Concludes, End
  <2>2. Ledger(transcript, calls)'
    BY <1>6, <2>1 DEF Ledger, Booked, Caused, IsTurn
  <2>3. RunSound'
    BY <1>1, <1>2, <1>6, <2>1, <2>2 DEF RunSound
  <2>4. BlocksSound'
    BY <1>2, <1>5, <2>1, SameResponse DEF BlocksSound
  <2> QED
    BY <1>3, <1>4, <2>3, <2>4 DEF ExchangeInv
<1> QED
  BY <1>2, <1>7, <1>8

LEMMA NothingSaid ==
  ASSUME RunSound, CliSound, BlocksSound,
         UNCHANGED <<phase, iteration, transcript, calls, backend, history, inCall, blocks, reply, cli>>
  PROVE  RunSound' /\ CliSound' /\ BlocksSound'
<1>1. Ledger(transcript, calls)'
  BY LedgerStays DEF RunSound
<1>2. RunSound'
  BY <1>1 DEF RunSound
<1>3. CliSound'
  BY DEF CliSound
<1>4. BlocksSound'
  BY SameResponse DEF BlocksSound
<1> QED
  BY <1>2, <1>3, <1>4

LEMMA HealthStep == ASSUME ExchangeInv, ServiceChanges \/ HealthCheck PROVE ExchangeInv'
<1>1. RunSound /\ CliSound /\ BlocksSound /\ CheckSound
  BY DEF ExchangeInv
<1>2. UNCHANGED <<phase, iteration, transcript, calls, backend, history, inCall, blocks, reply, cli>>
  BY DEF ServiceChanges, HealthCheck, agentVars, givenVars, callVars
<1>3. RunSound' /\ CliSound' /\ BlocksSound'
  BY <1>1, <1>2, NothingSaid
<1>4. CASE ServiceChanges
  <2>1. healthy' = healthy
    BY <1>4 DEF ServiceChanges
  <2>2. CheckSound'
    BY <1>1, <1>2, <2>1 DEF CheckSound
  <2> QED
    BY <1>3, <2>2 DEF ExchangeInv
<1>5. CASE HealthCheck
  <2>1. backend \in Backends
    BY <1>1 DEF RunSound
  <2>2. PICK passes : /\ healthy' = [is |-> passes, saw |-> endpoint]
                      /\ passes => endpoint.serves \/ backend \in {"claude_code", "vllm"}
                                   \/ (backend \in {"openai", "ollama", "bedrock"} /\ endpoint.lists # "others")
    BY <1>5, <2>1 DEF HealthCheck, Backends, CheckAnthropic, CheckByPing, CheckOpenAI, CheckOllama, CheckBedrock,
       CheckVllm, CheckClaude
  <2>3. (healthy'.is <=> passes) /\ healthy'.saw = endpoint
    BY <2>2
  <2>4. CheckSound'
    BY <1>2, <2>2, <2>3 DEF CheckSound
  <2> QED
    BY <1>3, <2>4 DEF ExchangeInv
<1> QED
  BY <1>4, <1>5

LEMMA ExchangeStep == ExchangeInv /\ [BackendsNext]_backendVars => ExchangeInv'
<1> SUFFICES ASSUME ExchangeInv, [BackendsNext]_backendVars PROVE ExchangeInv'
  OBVIOUS
<1>1. CASE UNCHANGED backendVars
  <2>1. UNCHANGED <<phase, iteration, transcript, calls, backend, history, inCall, blocks, reply, cli, healthy>>
    BY <1>1 DEF backendVars, agentVars
  <2>2. CheckSound'
    BY <2>1 DEF ExchangeInv, CheckSound
  <2> QED
    BY <2>1, <2>2, NothingSaid DEF ExchangeInv
<1> QED
  BY <1>1, UserAsksKeeps, AnswersKeeps, CliStep, RunStep, ModelAnswersKeeps, HealthStep DEF BackendsNext

LEMMA ExchangeBegins == BackendsInit => ExchangeInv
<1> SUFFICES ASSUME BackendsInit PROVE ExchangeInv
  OBVIOUS
<1>1. /\ phase = "new" /\ iteration = 0 /\ transcript = <<>> /\ calls = <<>> /\ backend \in Backends
      /\ history = <<>> /\ inCall = FALSE /\ blocks = <<>> /\ cli = NoProcess
      /\ healthy = [is |-> FALSE, saw |-> endpoint]
  BY DEF BackendsInit, AgentInit
<1>2. RunSound
  <2>1. Ledger(<<>>, <<>>)
    BY DEF Ledger
  <2> QED
    BY <1>1, <2>1 DEF RunSound
<1>3. CliSound
  <2>1. Becomes(cli, "none", NotRunning, 0, <<>>, "none")
    BY <1>1, NoProcessIs
  <2>2. /\ cli.at = "none" /\ cli.text = 0 /\ cli.heard = <<>> /\ cli.ended = "none"
        /\ IsProc(cli) /\ cli.runs = NotRunning
    BY <2>1 DEF Becomes
  <2>3. ~cli.runs
    BY <2>2 DEF NotRunning
  <2>4. HeardRight(<<>>, 0)
    <3>1. <<>> \in Seq(CliEvents) /\ TextsHeard(<<>>) = {}
      BY DEF TextsHeard
    <3> QED
      BY <3>1 DEF HeardRight
  <2> QED
    BY <2>2, <2>3, <2>4 DEF CliSound, Reported
<1>4. BlocksSound
  BY <1>1 DEF BlocksSound
<1>5. CheckSound
  <2>1. ~healthy.is
    BY <1>1
  <2> QED
    BY <2>1 DEF CheckSound
<1> QED
  BY <1>2, <1>3, <1>4, <1>5 DEF ExchangeInv

\* A request carries the turns and results of its conversation in their order, every result
\* after the call it answers; what a provider is reported to have said is what was heard of
\* it; and a check of its health was true of what it saw.
THEOREM ExchangesAreSound == RecordsSpec => []ExchangeSound
<1>1. RecordsInit => ExchangeInv
  BY ExchangeBegins DEF RecordsInit
<1>2. ASSUME ExchangeInv, [RecordsNext]_recordVars
      PROVE  ExchangeInv'
  <2>1. [BackendsNext]_backendVars
    BY <1>2 DEF RecordsNext, recordVars, Still
  <2> QED
    BY <1>2, <2>1, ExchangeStep
<1>3. ExchangeInv /\ [RecordsNext]_recordVars => ExchangeInv'
  BY <1>2
<1> QED
  BY <1>1, <1>3, ExchangeKept, PTL DEF RecordsSpec

--------------------------------------------------------------------------------
(* What a council disagrees on                                             *)

\* A role's own words end where the first look-up begins, so that what grounding appends to a
\* text is none of them.
LEMMA CutAtHeader ==
  ASSUME NEW T, NEW t \in Seq(T), NEW m \in DOMAIN t, t[m].lookup, \A i \in DOMAIN t : t[i].lookup => m <= i
  PROVE  OwnText(t) = SubSeq(t, 1, m - 1)
<1> DEFINE headers == {i \in DOMAIN t : t[i].lookup}
<1>1. headers \in SUBSET Nat /\ m \in headers /\ \A i \in headers : m <= i
  OBVIOUS
<1>2. Min(headers) = m
  <2> HIDE DEF headers
  <2> QED
    BY <1>1, MinIs
<1>3. headers # {}
  BY <1>1
<1>4. OwnText(t) = IF headers = {} THEN t ELSE SubSeq(t, 1, Min(headers) - 1)
  BY DEF OwnText
<1> HIDE DEF headers
<1> QED
  BY <1>2, <1>3, <1>4

\* Without a look-up all of a text is its own.
LEMMA NoHeader ==
  ASSUME NEW T, NEW t \in Seq(T), \A i \in DOMAIN t : ~t[i].lookup
  PROVE  OwnText(t) = t
<1>1. {i \in DOMAIN t : t[i].lookup} = {}
  OBVIOUS
<1> QED
  BY <1>1 DEF OwnText

LEMMA LookUpsCut ==
  ASSUME NEW t \in Seq(Lines), NEW g \in Grounded(t)
  PROVE  OwnText(g) = OwnText(t)
<1> SUFFICES ASSUME g # t PROVE OwnText(g) = OwnText(t)
  OBVIOUS
<1> DEFINE header == [Blank EXCEPT !.lookup = TRUE]
<1>1. PICK l \in Quoted \cup {Blank} : g = t \o <<header, l>>
  BY DEF Grounded
<1>2. header.lookup
  BY DEF Blank
<1> HIDE DEF header
<1> DEFINE U == Lines \cup Quoted \cup {Blank, header}
<1>3. t \in Seq(U) /\ <<header, l>> \in Seq(U) /\ header \in U /\ l \in U
  OBVIOUS
<1> HIDE DEF U
<1>4. /\ g \in Seq(U) /\ Len(g) = Len(t) + 2 /\ Len(t) \in Nat
      /\ \A i \in 1 .. Len(t) : g[i] = t[i]
      /\ g[Len(t) + 1] = header
  BY <1>1, <1>3
<1>5. DOMAIN t = 1 .. Len(t) /\ DOMAIN g = 1 .. Len(t) + 2
  BY <1>4
<1>6. CASE \A i \in DOMAIN t : ~t[i].lookup
  <2>1. OwnText(t) = t
    BY <1>6, NoHeader
  <2>2. Len(t) + 1 \in DOMAIN g /\ g[Len(t) + 1].lookup
    BY <1>2, <1>4, <1>5
  <2>3. \A i \in DOMAIN g : g[i].lookup => Len(t) + 1 <= i
    BY <1>4, <1>5, <1>6
  <2>4. OwnText(g) = SubSeq(g, 1, (Len(t) + 1) - 1)
    BY <1>4, <2>2, <2>3, CutAtHeader
  <2>5. SubSeq(g, 1, Len(t)) = t
    BY <1>4
  <2> QED
    BY <1>4, <2>1, <2>4, <2>5
<1>7. CASE ~\A i \in DOMAIN t : ~t[i].lookup
  <2> DEFINE headers == {i \in DOMAIN t : t[i].lookup}
  <2>1. headers # {} /\ headers \in SUBSET Nat
    BY <1>5, <1>7
  <2>2. PICK m \in headers : \A i \in headers : m <= i
    <3> HIDE DEF headers
    <3> QED
      BY <2>1, Smallest
  <2>3. m \in DOMAIN t /\ t[m].lookup /\ \A i \in DOMAIN t : t[i].lookup => m <= i
    BY <2>2
  <2>4. OwnText(t) = SubSeq(t, 1, m - 1)
    BY <2>3, CutAtHeader
  <2>5. m \in DOMAIN g /\ g[m].lookup
    BY <1>4, <1>5, <2>3
  <2>6. ASSUME NEW i \in DOMAIN g, g[i].lookup PROVE m <= i
    <3>1. CASE i <= Len(t)
      BY <1>4, <1>5, <2>3, <2>6, <3>1
    <3>2. CASE ~(i <= Len(t))
      BY <1>4, <1>5, <2>3, <3>2
    <3> QED
      BY <3>1, <3>2
  <2>7. OwnText(g) = SubSeq(g, 1, m - 1)
    BY <1>4, <2>5, <2>6, CutAtHeader
  <2>8. SubSeq(g, 1, m - 1) = SubSeq(t, 1, m - 1)
    <3>1. m - 1 \in 0 .. Len(t)
      BY <1>5, <2>3
    <3>2. \A i \in 1 .. m - 1 : g[i] = t[i]
      BY <1>4, <3>1
    <3> QED
      BY <1>4, <3>1, <3>2
  <2> QED
    BY <2>4, <2>7, <2>8
<1> QED
  BY <1>6, <1>7

\* A role's own words are among what it wrote.
LEMMA OwnLines == ASSUME NEW t \in Seq(Lines) PROVE OwnText(t) \in Seq(Lines)
<1>1. CASE \A i \in DOMAIN t : ~t[i].lookup
  BY <1>1, NoHeader
<1>2. CASE ~\A i \in DOMAIN t : ~t[i].lookup
  <2> DEFINE headers == {i \in DOMAIN t : t[i].lookup}
  <2>1. headers # {} /\ headers \in SUBSET Nat
    BY <1>2
  <2>2. PICK m \in headers : \A i \in headers : m <= i
    <3> HIDE DEF headers
    <3> QED
      BY <2>1, Smallest
  <2>3. m \in DOMAIN t /\ t[m].lookup /\ \A i \in DOMAIN t : t[i].lookup => m <= i
    BY <2>2
  <2>4. OwnText(t) = SubSeq(t, 1, m - 1)
    BY <2>3, CutAtHeader
  <2> QED
    BY <2>3, <2>4
<1> QED
  BY <1>1, <1>2

\* There is nothing to say of no text.
LEMMA OwnOfNothing == OwnText(<<>>) = <<>>
<1>1. {i \in DOMAIN <<>> : <<>>[i].lookup} = {}
  OBVIOUS
<1> QED
  BY <1>1 DEF OwnText

ValidAbove(text, i) == {j \in Headed(text) : j <= i}

\* The label of the last header up to a line.
LastHeader(text, i) ==
    IF ValidAbove(text, i) = {} THEN NoSubject ELSE text[Max(ValidAbove(text, i))].head

\* A line is a header if a valid label is at its head.
LEMMA HeaderIsLabel ==
  ASSUME NEW text, NEW i \in DOMAIN text
  PROVE  /\ i \in Headed(text) => HeaderLabel(text[i]) = text[i].head /\ text[i].head # NoSubject
         /\ i \notin Headed(text) => HeaderLabel(text[i]) = NoSubject
BY DeliberationAssumption DEF HeaderLabel, Headed, ValidLabels

\* From line to line the last header is this one, or the one before.
LEMMA LastHeaderStep ==
  ASSUME NEW text \in Seq(Lines), NEW i \in 1 .. Len(text)
  PROVE  LastHeader(text, i) = IF HeaderLabel(text[i]) # NoSubject THEN HeaderLabel(text[i])
                               ELSE LastHeader(text, i - 1)
<1>1. DOMAIN text = 1 .. Len(text) /\ Headed(text) \subseteq 1 .. Len(text) /\ i \in DOMAIN text
  BY DEF Headed
<1>2. CASE i \in Headed(text)
  <2>1. i \in ValidAbove(text, i) /\ ValidAbove(text, i) \in SUBSET Nat
        /\ \A j \in ValidAbove(text, i) : j <= i
    BY <1>1, <1>2 DEF ValidAbove
  <2>2. Max(ValidAbove(text, i)) = i
    BY <2>1, MaxIs
  <2>3. LastHeader(text, i) = text[i].head
    BY <2>1, <2>2 DEF LastHeader
  <2> QED
    BY <1>1, <1>2, <2>3, HeaderIsLabel
<1>3. CASE i \notin Headed(text)
  <2>1. ValidAbove(text, i) = ValidAbove(text, i - 1)
    BY <1>1, <1>3 DEF ValidAbove
  <2>2. LastHeader(text, i) = LastHeader(text, i - 1)
    BY <2>1 DEF LastHeader
  <2> QED
    BY <1>1, <1>3, <2>2, HeaderIsLabel
<1> QED
  BY <1>2, <1>3

LastHeaderUpTo(f, text) ==
    f = [n \in 0 .. Len(text) |->
            IF n = 0 THEN NoSubject
            ELSE IF HeaderLabel(text[n]) # NoSubject THEN HeaderLabel(text[n]) ELSE f[n - 1]]

\* The label above, as the scan computes it, is that of the last header.
LEMMA LabelAboveIs ==
  ASSUME NEW text \in Seq(Lines)
  PROVE  \A i \in 0 .. Len(text) : LabelAbove(text)[i] = LastHeader(text, i)
<1> DEFINE f == [i \in 0 .. Len(text) |-> LastHeader(text, i)]
<1>1. Len(text) \in Nat /\ Headed(text) \subseteq 1 .. Len(text)
  BY DEF Headed
<1>2. LastHeader(text, 0) = NoSubject
  <2>1. ValidAbove(text, 0) = {}
    BY <1>1 DEF ValidAbove
  <2> QED
    BY <2>1 DEF LastHeader
<1>3. \A i \in 0 .. Len(text) :
         f[i] = IF i = 0 THEN NoSubject
                ELSE IF HeaderLabel(text[i]) # NoSubject THEN HeaderLabel(text[i]) ELSE f[i - 1]
  <2> TAKE i \in 0 .. Len(text)
  <2>1. CASE i = 0
    BY <1>2, <2>1
  <2>2. CASE i # 0
    <3>1. i \in 1 .. Len(text) /\ i - 1 \in 0 .. Len(text)
      BY <1>1, <2>2
    <3> QED
      BY <2>2, <3>1, LastHeaderStep
  <2> QED
    BY <2>1, <2>2
<1>4. f = [i \in 0 .. Len(text) |-> f[i]]
  OBVIOUS
<1>5. LastHeaderUpTo(f, text)
  <2> HIDE DEF f
  <2> QED
    BY <1>3, <1>4 DEF LastHeaderUpTo
<1> DEFINE c == CHOOSE g : LastHeaderUpTo(g, text)
<1>6. LastHeaderUpTo(c, text)
  <2> HIDE DEF f
  <2> QED
    BY <1>5
<1>7. LabelAbove(text) = c
  BY DEF LabelAbove, LastHeaderUpTo
<1> HIDE DEF c, f
<1> DEFINE Done == {n \in Nat : n <= Len(text) => c[n] = LastHeader(text, n)}
<1>8. 0 \in Done
  <2>1. 0 \in 0 .. Len(text)
    BY <1>1
  <2>2. c[0] = NoSubject
    BY <1>6, <2>1 DEF LastHeaderUpTo
  <2> QED
    BY <1>2, <2>2
<1>9. ASSUME NEW n \in Nat, n \in Done PROVE n + 1 \in Done
  <2> SUFFICES ASSUME n + 1 <= Len(text) PROVE c[n + 1] = LastHeader(text, n + 1)
    OBVIOUS
  <2>1. n + 1 \in 0 .. Len(text) /\ n + 1 # 0 /\ (n + 1) - 1 = n /\ n + 1 \in 1 .. Len(text)
    BY <1>1
  <2>2. c[n + 1] = IF HeaderLabel(text[n + 1]) # NoSubject THEN HeaderLabel(text[n + 1]) ELSE c[n]
    BY <1>6, <2>1 DEF LastHeaderUpTo
  <2>3. c[n] = LastHeader(text, n)
    BY <1>1, <1>9
  <2> QED
    BY <2>1, <2>2, <2>3, LastHeaderStep
<1> HIDE DEF Done
<1>10. Nat \subseteq Done
  BY <1>8, <1>9, Induction
<1>11. ASSUME NEW i \in 0 .. Len(text) PROVE c[i] = LastHeader(text, i)
  <2>1. i \in Nat /\ i <= Len(text)
    BY <1>1
  <2> QED
    BY <1>10, <2>1 DEF Done
<1> QED
  BY <1>7, <1>11

\* What is known of the lines of a text.
LEMMA LinesWritten ==
  ASSUME NEW text \in Seq(Lines), NEW i \in DOMAIN text
  PROVE  /\ i \in 1 .. Len(text) /\ text[i] \in Lines
         /\ text[i].verdicts \subseteq Verdicts /\ IsFiniteSet(text[i].mentions)
<1>1. i \in 1 .. Len(text) /\ text[i] \in Lines
  OBVIOUS
<1> QED
  BY <1>1, DeliberationAssumption

\* What a line is about, as the scan finds it.
LEMMA SubjectIs ==
  ASSUME NEW text \in Seq(Lines), NEW i \in DOMAIN text, NEW s \in Labels \cup Topics
  PROVE  SubjectAt(text, i) = s <=> About(text, i, s)
<1> DEFINE mentioned == text[i].mentions \cap ValidLabels
           one == HeaderLabel(text[i]) = NoSubject /\ Cardinality(mentioned) = 1
           label == IF one THEN CHOOSE m \in mentioned : TRUE ELSE LabelAbove(text)[i]
           above == {j \in Headed(text) : j <= i}
<1>1. SubjectAt(text, i) = IF label # NoSubject THEN label ELSE text[i].topic
  BY DEF SubjectAt
<1>2. About(text, i, s) <=>
         IF i \in Headed(text) THEN text[i].head = s
         ELSE IF \E m \in ValidLabels : mentioned = {m} THEN s \in mentioned
         ELSE IF above # {} THEN text[Max(above)].head = s
         ELSE text[i].topic = s
  BY DEF About
<1>3. i \in 1 .. Len(text) /\ IsFiniteSet(text[i].mentions) /\ Len(text) \in Nat
  BY LinesWritten
<1>4. \A m \in ValidLabels : m # NoSubject
  BY DeliberationAssumption DEF ValidLabels
<1>5. LabelAbove(text)[i] = IF above = {} THEN NoSubject ELSE text[Max(above)].head
  <2>1. i \in 0 .. Len(text)
    BY <1>3
  <2> QED
    BY <2>1, LabelAboveIs DEF LastHeader, ValidAbove
<1>6. IsFiniteSet(mentioned)
  BY <1>3, FS_Subset
<1>7. Cardinality(mentioned) = 1 <=> \E m \in ValidLabels : mentioned = {m}
  <2>1. Cardinality(mentioned) = 1 <=> \E m : mentioned = {m}
    <3> HIDE DEF mentioned
    <3> QED
      BY <1>6, FS_Singleton
  <2>2. \A m : mentioned = {m} => m \in ValidLabels
    OBVIOUS
  <2> HIDE DEF mentioned
  <2> QED
    BY <2>1, <2>2
<1>8. above # {} => text[Max(above)].head \in ValidLabels
  <2> SUFFICES ASSUME above # {} PROVE text[Max(above)].head \in ValidLabels
    OBVIOUS
  <2>1. above \in SUBSET (1 .. Len(text)) /\ above \in SUBSET Nat
    BY DEF Headed
  <2>2. PICK m \in above : \A k \in above : k <= m
    <3> HIDE DEF above
    <3> QED
      BY <1>3, <2>1, Largest
  <2>3. Max(above) = m
    <3> HIDE DEF above
    <3> QED
      BY <2>1, <2>2, MaxIs
  <2>4. text[m].head \in ValidLabels
    BY <2>2 DEF Headed
  <2> QED
    BY <2>3, <2>4
<1> HIDE DEF above
<1>9. CASE i \in Headed(text)
  <2>1. ~one /\ LabelAbove(text)[i] = text[i].head /\ text[i].head # NoSubject
    <3>1. HeaderLabel(text[i]) = text[i].head /\ text[i].head # NoSubject
      BY <1>9, HeaderIsLabel
    <3>2. LabelAbove(text)[i] = LastHeader(text, i)
      BY <1>3, LabelAboveIs
    <3>3. LastHeader(text, i) = HeaderLabel(text[i])
      BY <1>3, <3>1, LastHeaderStep
    <3> QED
      BY <3>1, <3>2, <3>3
  <2>2. label = text[i].head
    BY <2>1
  <2> HIDE DEF label, one, mentioned
  <2> QED
    BY <1>1, <1>2, <1>9, <2>1, <2>2
<1>10. CASE i \notin Headed(text)
  <2>1. HeaderLabel(text[i]) = NoSubject
    BY <1>10, HeaderIsLabel
  <2>2. CASE \E m \in ValidLabels : mentioned = {m}
    <3>1. PICK m \in ValidLabels : mentioned = {m}
      BY <2>2
    <3>2. one
      BY <1>7, <2>1, <2>2
    <3> HIDE DEF mentioned
    <3>3. label = m
      BY <3>1, <3>2
    <3> HIDE DEF label, one
    <3>4. SubjectAt(text, i) = m
      BY <1>1, <1>4, <3>1, <3>3
    <3> QED
      BY <1>2, <1>10, <2>2, <3>1, <3>4
  <2>3. CASE ~\E m \in ValidLabels : mentioned = {m}
    <3>1. ~one
      BY <1>7, <2>3
    <3>2. label = LabelAbove(text)[i]
      BY <3>1
    <3> HIDE DEF label, one, mentioned
    <3>3. SubjectAt(text, i) = IF above = {} THEN text[i].topic ELSE text[Max(above)].head
      BY <1>1, <1>4, <1>5, <1>8, <3>2
    <3> QED
      BY <1>2, <1>10, <2>3, <3>3
  <2> QED
    BY <2>2, <2>3
<1> QED
  BY <1>9, <1>10

\* The one verdict of a line.
LEMMA VerdictIs ==
  ASSUME NEW text \in Seq(Lines), NEW i \in DOMAIN text, NEW v \in Verdicts
  PROVE  VerdictOf(text[i]) = v <=> text[i].verdicts = {v} /\ ~text[i].meta
<1> DEFINE l == text[i]
           K == l.verdicts
<1>1. K \subseteq Verdicts
  BY LinesWritten
<1>2. v # "none"
  BY DEF Verdicts
<1>3. IsFiniteSet(Verdicts)
  <2>1. IsFiniteSet({"CONFIRM"})
    BY FS_Singleton
  <2>2. IsFiniteSet({"CONFIRM"} \cup {"DENY"})
    BY <2>1, FS_AddElement
  <2>3. IsFiniteSet(({"CONFIRM"} \cup {"DENY"}) \cup {"FLAG"})
    BY <2>2, FS_AddElement
  <2>4. Verdicts = ({"CONFIRM"} \cup {"DENY"}) \cup {"FLAG"}
    BY DEF Verdicts
  <2> QED
    BY <2>3, <2>4
<1>4. IsFiniteSet(K)
  BY <1>1, <1>3, FS_Subset
<1>5. VerdictOf(l) = IF l.meta \/ Cardinality(K) # 1 THEN "none" ELSE CHOOSE w \in K : TRUE
  BY DEF VerdictOf
<1> HIDE DEF K
<1>6. Cardinality(K) = 1 <=> \E w : K = {w}
  BY <1>4, FS_Singleton
<1> HIDE DEF l
<1>7. VerdictOf(l) = v <=> K = {v} /\ ~l.meta
  <2>1. CASE l.meta
    BY <1>2, <1>5, <2>1
  <2>2. CASE ~l.meta /\ \E w : K = {w}
    <3>1. PICK w : K = {w}
      BY <2>2
    <3>2. (CHOOSE x \in K : TRUE) = w
      BY <3>1
    <3>3. VerdictOf(l) = w
      BY <1>5, <1>6, <2>2, <3>2
    <3> QED
      BY <2>2, <3>1, <3>3
  <2>3. CASE ~\E w : K = {w}
    BY <1>2, <1>5, <1>6, <2>3
  <2> QED
    BY <2>1, <2>2, <2>3
<1> QED
  BY <1>7 DEF K, l

\* A line has a verdict or none.
LEMMA VerdictValues ==
  ASSUME NEW text \in Seq(Lines), NEW i \in DOMAIN text
  PROVE  VerdictOf(text[i]) \in Verdicts \cup {"none"}
<1> DEFINE K == text[i].verdicts
<1>1. K \subseteq Verdicts
  BY LinesWritten
<1>2. CASE VerdictOf(text[i]) = "none"
  BY <1>2
<1>3. CASE VerdictOf(text[i]) # "none"
  <2>1. Cardinality(K) = 1 /\ VerdictOf(text[i]) = CHOOSE w \in K : TRUE
    BY <1>3 DEF VerdictOf
  <2> HIDE DEF K
  <2>2. Cardinality({}) = 0
    BY FS_EmptySet
  <2>3. K # {}
    <3> SUFFICES ASSUME K = {} PROVE FALSE
      OBVIOUS
    <3>1. Cardinality(K) = 0
      BY <2>2
    <3> QED
      BY <2>1, <3>1
  <2> QED
    BY <1>1, <2>1, <2>3
<1> QED
  BY <1>2, <1>3

\* The verdicts the scan collects are what the role says.
LEMMA VerdictsAre ==
  ASSUME NEW text \in Seq(Lines), NEW s \in Labels \cup Topics
  PROVE  ExtractVerdicts(text)[s] = Says(text, s)
<1> DEFINE lines == {i \in DOMAIN text : SubjectAt(text, i) = s}
           found == {VerdictOf(text[i]) : i \in lines} \ {"none"}
<1>1. ExtractVerdicts(text)[s] = found
  BY DEF ExtractVerdicts
<1>2. ASSUME NEW v \in found PROVE v \in Says(text, s)
  <2>1. PICK i \in lines : v = VerdictOf(text[i])
    OBVIOUS
  <2>2. i \in DOMAIN text /\ About(text, i, s)
    BY SubjectIs
  <2>3. v \in Verdicts
    BY <1>2, <2>1, <2>2, VerdictValues
  <2>4. text[i].verdicts = {v} /\ ~text[i].meta
    BY <2>1, <2>2, <2>3, VerdictIs
  <2> QED
    BY <2>2, <2>3, <2>4 DEF Says
<1>3. ASSUME NEW v \in Says(text, s) PROVE v \in found
  <2>1. v \in Verdicts
    BY DEF Says
  <2>2. PICK i \in DOMAIN text : text[i].verdicts = {v} /\ ~text[i].meta /\ About(text, i, s)
    BY DEF Says
  <2>3. i \in lines /\ VerdictOf(text[i]) = v
    BY <2>1, <2>2, SubjectIs, VerdictIs
  <2>4. v # "none"
    BY <2>1 DEF Verdicts
  <2> QED
    BY <2>3, <2>4
<1> HIDE DEF found
<1> QED
  BY <1>1, <1>2, <1>3

\* Net verdicts that are opposite: one role confirms, the other denies and never confirms.
LEMMA DominantAgainst ==
  ASSUME NEW a, NEW b, NEW s
  PROVE  {Dominant(Says(a, s)), Dominant(Says(b, s))} = {"CONFIRM", "DENY"} <=> Against(a, b, s) \/ Against(b, a, s)
<1> DEFINE A == Says(a, s)
           B == Says(b, s)
           First(K) == Dominant(K) = "CONFIRM"
           Second(K) == Dominant(K) = "DENY"
<1>1. ASSUME NEW K PROVE First(K) <=> K = {"CONFIRM"}
  BY DEF Dominant
<1>2. ASSUME NEW K PROVE Second(K) <=> "DENY" \in K /\ "CONFIRM" \notin K
  BY DEF Dominant
<1>3. \A x, y : {x, y} = {"CONFIRM", "DENY"} <=>
                  (x = "CONFIRM" /\ y = "DENY") \/ (y = "CONFIRM" /\ x = "DENY")
  OBVIOUS
<1>4. /\ Against(a, b, s) <=> A = {"CONFIRM"} /\ "DENY" \in B /\ "CONFIRM" \notin B
      /\ Against(b, a, s) <=> B = {"CONFIRM"} /\ "DENY" \in A /\ "CONFIRM" \notin A
  BY DEF Against
<1>5. /\ First(A) <=> A = {"CONFIRM"}
      /\ First(B) <=> B = {"CONFIRM"}
      /\ Second(A) <=> "DENY" \in A /\ "CONFIRM" \notin A
      /\ Second(B) <=> "DENY" \in B /\ "CONFIRM" \notin B
  BY <1>1, <1>2
<1> HIDE DEF A, B
<1>6. {Dominant(A), Dominant(B)} = {"CONFIRM", "DENY"} <=> (First(A) /\ Second(B)) \/ (First(B) /\ Second(A))
  BY <1>3
<1>7. {Dominant(A), Dominant(B)} = {"CONFIRM", "DENY"} <=> Against(a, b, s) \/ Against(b, a, s)
  BY <1>4, <1>5, <1>6
<1> QED
  BY <1>7 DEF A, B

\* A role without a text is against nobody.
LEMMA SilentSays ==
  ASSUME NEW a, NEW b, NEW s, <<>> \in {a, b}
  PROVE  ~Against(a, b, s) /\ ~Against(b, a, s)
<1>1. \A t : Says(<<>>, t) = {}
  BY DEF Says
<1> QED
  BY <1>1 DEF Against

\* Claims compared are those that are no verdict lines.
LEMMA ClaimPairs ==
  ASSUME NEW a, NEW b
  PROVE  {p \in ClaimLines(a) \X ClaimLines(b) : p[1].claim = p[2].claim}
         = {c \in ToSet(a) \X ToSet(b) :
               /\ c[1].claim = c[2].claim /\ c[1].claim # NoSubject
               /\ c[1].verdicts \cup c[2].verdicts = {}}
<1> DEFINE P == {p \in ClaimLines(a) \X ClaimLines(b) : p[1].claim = p[2].claim}
           C == {c \in ToSet(a) \X ToSet(b) :
                    /\ c[1].claim = c[2].claim /\ c[1].claim # NoSubject
                    /\ c[1].verdicts \cup c[2].verdicts = {}}
<1>1. ASSUME NEW p \in P PROVE p \in C
  <2>1. p \in ToSet(a) \X ToSet(b) /\ p[1] \in ClaimLines(a) /\ p[2] \in ClaimLines(b)
    BY DEF ClaimLines
  <2>2. p[1].claim # NoSubject /\ p[1].verdicts = {} /\ p[2].verdicts = {}
    BY <2>1 DEF ClaimLines
  <2> QED
    BY <2>1, <2>2
<1>2. ASSUME NEW c \in C PROVE c \in P
  <2>1. /\ c \in ToSet(a) \X ToSet(b) /\ c[1].claim = c[2].claim /\ c[1].claim # NoSubject
        /\ c[1].verdicts \cup c[2].verdicts = {}
    OBVIOUS
  <2>2. c[1].verdicts = {} /\ c[2].verdicts = {} /\ c[2].claim # NoSubject
    BY <2>1
  <2>3. c[1] \in ClaimLines(a) /\ c[2] \in ClaimLines(b)
    BY <2>1, <2>2 DEF ClaimLines
  <2> QED
    BY <2>1, <2>3
<1> QED
  BY <1>1, <1>2

\* Two roles that answered: the scan finds what is in conflict between them, and nothing else.
LEMMA ConflictsAreExpected ==
  ASSUME NEW own, NEW pair, own[pair[1]] = Own(pair[1]), own[pair[2]] = Own(pair[2]),
         Own(pair[1]) \in Seq(Lines), Own(pair[2]) \in Seq(Lines)
  PROVE  Conflicts(own, pair) = Expected(pair)
<1> DEFINE a == Own(pair[1])
           b == Own(pair[2])
           claims == {c \in ToSet(a) \X ToSet(b) :
                         /\ c[1].claim = c[2].claim /\ c[1].claim # NoSubject
                         /\ c[1].verdicts \cup c[2].verdicts = {}}
           opposed == {s \in Labels \cup Topics : Against(a, b, s) \/ Against(b, a, s)}
           denials == {Conflict("polarity", c[1].claim, pair) : c \in {c \in claims : c[1].denied # c[2].denied}}
           figures == {Conflict("numeric", c[1].claim, pair) :
                          c \in {c \in claims : /\ c[1].denied = c[2].denied
                                                /\ 0 \notin {c[1].figure, c[2].figure} /\ c[1].figure # c[2].figure}}
           clashes == {Conflict("verdict", s, pair) : s \in opposed}
<1>1. Expected(pair) = (clashes \cup denials) \cup figures
  BY DEF Expected
<1>2. VerdictConflicts(own, pair) = clashes
  <2>1. \A s \in Labels \cup Topics :
           {Dominant(ExtractVerdicts(a)[s]), Dominant(ExtractVerdicts(b)[s])} = {"CONFIRM", "DENY"}
           <=> Against(a, b, s) \/ Against(b, a, s)
    <3> TAKE s \in Labels \cup Topics
    <3>1. ExtractVerdicts(a)[s] = Says(a, s) /\ ExtractVerdicts(b)[s] = Says(b, s)
      BY VerdictsAre
    <3> HIDE DEF a, b
    <3>2. {Dominant(Says(a, s)), Dominant(Says(b, s))} = {"CONFIRM", "DENY"}
          <=> Against(a, b, s) \/ Against(b, a, s)
      BY DominantAgainst
    <3> QED
      BY <3>1, <3>2
  <2>2. VerdictConflicts(own, pair) =
           {Conflict("verdict", s, pair) :
               s \in {s \in Labels \cup Topics :
                         {Dominant(ExtractVerdicts(a)[s]), Dominant(ExtractVerdicts(b)[s])} = {"CONFIRM", "DENY"}}}
    BY DEF VerdictConflicts
  <2>3. {s \in Labels \cup Topics :
            {Dominant(ExtractVerdicts(a)[s]), Dominant(ExtractVerdicts(b)[s])} = {"CONFIRM", "DENY"}} = opposed
    <3> HIDE DEF a, b
    <3> QED
      BY <2>1
  <2> HIDE DEF a, b, opposed
  <2> QED
    BY <2>2, <2>3
<1>3. ClaimConflicts(own, pair) =
         {Conflict(IF p[1].denied # p[2].denied THEN "polarity" ELSE "numeric", p[1].claim, pair) :
            p \in {p \in claims : \/ p[1].denied # p[2].denied
                                  \/ 0 \notin {p[1].figure, p[2].figure} /\ p[1].figure # p[2].figure}}
  <2>1. {p \in ClaimLines(a) \X ClaimLines(b) : p[1].claim = p[2].claim} = claims
    BY ClaimPairs
  <2>2. {p \in ClaimLines(own[pair[1]]) \X ClaimLines(own[pair[2]]) : p[1].claim = p[2].claim} = claims
    BY <2>1
  <2> HIDE DEF claims, a, b
  <2> QED
    BY <2>2 DEF ClaimConflicts
<1>4. ClaimConflicts(own, pair) = denials \cup figures
  <2> HIDE DEF claims
  <2>1. ASSUME NEW x \in ClaimConflicts(own, pair) PROVE x \in denials \cup figures
    <3>1. PICK p \in claims :
             /\ \/ p[1].denied # p[2].denied
                \/ 0 \notin {p[1].figure, p[2].figure} /\ p[1].figure # p[2].figure
             /\ x = Conflict(IF p[1].denied # p[2].denied THEN "polarity" ELSE "numeric", p[1].claim, pair)
      BY <1>3
    <3>2. CASE p[1].denied # p[2].denied
      BY <3>1, <3>2
    <3>3. CASE ~(p[1].denied # p[2].denied)
      <4>1. x = Conflict("numeric", p[1].claim, pair)
        BY <3>1, <3>3
      <4> QED
        BY <3>1, <3>3, <4>1
    <3> QED
      BY <3>2, <3>3
  <2>2. ASSUME NEW x \in denials PROVE x \in ClaimConflicts(own, pair)
    <3>1. PICK c \in claims : c[1].denied # c[2].denied /\ x = Conflict("polarity", c[1].claim, pair)
      OBVIOUS
    <3> QED
      BY <1>3, <3>1
  <2>3. ASSUME NEW x \in figures PROVE x \in ClaimConflicts(own, pair)
    <3>1. PICK c \in claims : /\ c[1].denied = c[2].denied
                              /\ 0 \notin {c[1].figure, c[2].figure} /\ c[1].figure # c[2].figure
                              /\ x = Conflict("numeric", c[1].claim, pair)
      OBVIOUS
    <3> QED
      BY <1>3, <3>1
  <2> HIDE DEF denials, figures
  <2> QED
    BY <2>1, <2>2, <2>3
<1>5. CASE <<>> \notin {a, b}
  <2>1. Conflicts(own, pair) = VerdictConflicts(own, pair) \cup ClaimConflicts(own, pair)
    BY <1>5 DEF Conflicts
  <2> HIDE DEF clashes, denials, figures
  <2> QED
    BY <1>1, <1>2, <1>4, <2>1
<1>6. CASE <<>> \in {a, b}
  <2>1. Conflicts(own, pair) = {}
    BY <1>6 DEF Conflicts
  <2>2. opposed = {}
    <3> HIDE DEF a, b
    <3> QED
      BY <1>6, SilentSays
  <2>3. claims = {}
    <3>1. ToSet(<<>>) = {}
      BY DEF ToSet
    <3>2. ToSet(a) = {} \/ ToSet(b) = {}
      <4> HIDE DEF a, b
      <4> QED
        BY <1>6, <3>1
    <3> HIDE DEF a, b
    <3> QED
      BY <3>2
  <2>4. clashes = {} /\ denials = {} /\ figures = {}
    <3> HIDE DEF opposed, claims
    <3> QED
      BY <2>2, <2>3
  <2> HIDE DEF clashes, denials, figures
  <2> QED
    BY <1>1, <2>1, <2>4
<1> QED
  BY <1>5, <1>6

\* There are as many as there are lines to be about, and pairs of lines.
LEMMA ExpectedFinite ==
  ASSUME NEW pair, Own(pair[1]) \in Seq(Lines), Own(pair[2]) \in Seq(Lines)
  PROVE  IsFiniteSet(Expected(pair))
<1> DEFINE a == Own(pair[1])
           b == Own(pair[2])
           claims == {c \in ToSet(a) \X ToSet(b) :
                         /\ c[1].claim = c[2].claim /\ c[1].claim # NoSubject
                         /\ c[1].verdicts \cup c[2].verdicts = {}}
           opposed == {s \in Labels \cup Topics : Against(a, b, s) \/ Against(b, a, s)}
           clashes == {Conflict("verdict", s, pair) : s \in opposed}
           denials == {Conflict("polarity", c[1].claim, pair) : c \in {c \in claims : c[1].denied # c[2].denied}}
           figures == {Conflict("numeric", c[1].claim, pair) :
                          c \in {c \in claims : /\ c[1].denied = c[2].denied
                                                /\ 0 \notin {c[1].figure, c[2].figure} /\ c[1].figure # c[2].figure}}
<1>1. Expected(pair) = (clashes \cup denials) \cup figures
  BY DEF Expected
<1>2. IsFiniteSet(ToSet(a)) /\ IsFiniteSet(ToSet(b))
  BY MembersFinite
<1>3. IsFiniteSet(ToSet(a) \X ToSet(b))
  <2> HIDE DEF a, b
  <2> QED
    BY <1>2, FS_Product
<1>4. IsFiniteSet(claims)
  <2> HIDE DEF a, b
  <2> QED
    BY <1>3, FS_Subset
<1>5. IsFiniteSet(denials)
  <2> HIDE DEF claims
  <2> DEFINE f == [c \in claims |-> Conflict("polarity", c[1].claim, pair)]
  <2>1. denials \subseteq {f[c] : c \in claims}
    OBVIOUS
  <2>2. DOMAIN f = claims
    OBVIOUS
  <2> HIDE DEF f, denials
  <2> QED
    BY <1>4, <2>1, <2>2, ImageFinite
<1>6. IsFiniteSet(figures)
  <2> HIDE DEF claims
  <2> DEFINE f == [c \in claims |-> Conflict("numeric", c[1].claim, pair)]
  <2>1. figures \subseteq {f[c] : c \in claims}
    OBVIOUS
  <2>2. DOMAIN f = claims
    OBVIOUS
  <2> HIDE DEF f, figures
  <2> QED
    BY <1>4, <2>1, <2>2, ImageFinite
<1>7. IsFiniteSet(clashes)
  <2> DEFINE f == [i \in DOMAIN a |-> Conflict("verdict", SubjectAt(a, i), pair)]
  <2>1. ASSUME NEW s \in opposed PROVE \E i \in DOMAIN a : SubjectAt(a, i) = s
    <3>1. Says(a, s) # {}
      <4> HIDE DEF a, b
      <4> QED
        BY DEF Against
    <3>2. PICK i \in DOMAIN a : About(a, i, s)
      BY <3>1 DEF Says
    <3> QED
      BY <3>2, SubjectIs
  <2>2. clashes \subseteq {f[i] : i \in DOMAIN a}
    <3> HIDE DEF a, b, opposed
    <3> QED
      BY <2>1
  <2>3. IsFiniteSet(DOMAIN a)
    <3>1. DOMAIN a = 1 .. Len(a) /\ Len(a) \in Nat
      OBVIOUS
    <3> QED
      BY <3>1, FS_Interval
  <2>4. DOMAIN f = DOMAIN a
    OBVIOUS
  <2> HIDE DEF f, clashes, a
  <2> QED
    BY <2>2, <2>3, <2>4, ImageFinite
<1> HIDE DEF clashes, denials, figures
<1>8. IsFiniteSet(clashes \cup denials)
  BY <1>5, <1>7, FS_Union
<1> QED
  BY <1>1, <1>6, <1>8, FS_Union

\* The kinds differ, and so do the pairs.
LEMMA KindsDiffer ==
  /\ \A i, j \in 1 .. 3 : Kinds[i] = Kinds[j] => i = j
  /\ \A i, j \in 1 .. 3 : PairOrder[i] = PairOrder[j] => i = j
<1>1. Kinds[1] = "verdict" /\ Kinds[2] = "polarity" /\ Kinds[3] = "numeric"
  BY DEF Kinds
<1>2. /\ PairOrder[1] = <<"advocate", "skeptic">> /\ PairOrder[2] = <<"advocate", "verifier">>
      /\ PairOrder[3] = <<"skeptic", "verifier">>
  BY DEF PairOrder
<1>3. \A i \in 1 .. 3 : i = 1 \/ i = 2 \/ i = 3
  OBVIOUS
<1>4. PairOrder[1] # PairOrder[2] /\ PairOrder[1] # PairOrder[3] /\ PairOrder[2] # PairOrder[3]
  BY <1>2
<1>5. Kinds[1] # Kinds[2] /\ Kinds[1] # Kinds[3] /\ Kinds[2] # Kinds[3]
  BY <1>1
<1> QED
  BY <1>3, <1>4, <1>5

\* The rank of a conflict, by its kind and its pair.
LEMMA RankIs ==
  ASSUME NEW j \in 1 .. 3, NEW k \in 1 .. 3, NEW c, c.kind = Kinds[j], c.roles = PairOrder[k]
  PROVE  RankOf(c) = 3 * j + k
<1>1. (CHOOSE i \in 1 .. 3 : Kinds[i] = c.kind) = j
  BY KindsDiffer
<1>2. (CHOOSE i \in 1 .. 3 : PairOrder[i] = c.roles) = k
  BY KindsDiffer
<1> QED
  BY <1>1, <1>2 DEF RankOf

\* What the scan finds, by kind and pair.
Part(own, j, k) == {c \in Conflicts(own, PairOrder[k]) : c.kind = Kinds[j]}
Found(own) == UNION {Conflicts(own, PairOrder[k]) : k \in 1 .. 3}

WellFormed(own) ==
    \A k \in 1 .. 3 :
        /\ IsFiniteSet(Conflicts(own, PairOrder[k]))
        /\ \A c \in Conflicts(own, PairOrder[k]) : c.roles = PairOrder[k] /\ \E j \in 1 .. 3 : c.kind = Kinds[j]

\* All that is found has a rank, that of its kind and pair.
LEMMA FoundRanks ==
  ASSUME NEW own, WellFormed(own)
  PROVE  /\ [c \in Found(own) |-> RankOf(c)] \in [Found(own) -> Nat]
         /\ \A j, k \in 1 .. 3 : \A c \in Part(own, j, k) : c \in Found(own) /\ RankOf(c) = 3 * j + k
<1>1. ASSUME NEW c \in Found(own) PROVE RankOf(c) \in Nat
  <2>1. PICK k \in 1 .. 3 : c \in Conflicts(own, PairOrder[k])
    BY DEF Found
  <2>2. PICK j \in 1 .. 3 : c.kind = Kinds[j]
    BY <2>1 DEF WellFormed
  <2>3. RankOf(c) = 3 * j + k
    BY <2>1, <2>2, RankIs DEF WellFormed
  <2> QED
    BY <2>3
<1>2. ASSUME NEW j \in 1 .. 3, NEW k \in 1 .. 3, NEW c \in Part(own, j, k)
      PROVE  c \in Found(own) /\ RankOf(c) = 3 * j + k
  <2>1. c \in Conflicts(own, PairOrder[k]) /\ c.kind = Kinds[j] /\ c.roles = PairOrder[k]
    BY DEF Part, WellFormed
  <2> QED
    BY <2>1, RankIs DEF Found
<1> QED
  BY <1>1, <1>2

\* Those of a kind are listed by pair.
LEMMA KindRanked ==
  ASSUME NEW own, WellFormed(own), NEW j \in 1 .. 3
  PROVE  ByRank(OfKind(own, Kinds[j]), (Part(own, j, 1) \cup Part(own, j, 2)) \cup Part(own, j, 3),
                [c \in Found(own) |-> RankOf(c)], 3 * j + 1, 3 * j + 3)
<1> DEFINE rank == [c \in Found(own) |-> RankOf(c)]
           Of(k) == SetToSeq(Part(own, j, k))
<1>1. rank \in [Found(own) -> Nat]
      /\ \A k \in 1 .. 3 : \A c \in Part(own, j, k) : c \in Found(own) /\ rank[c] = 3 * j + k
  BY FoundRanks
<1> HIDE DEF rank
<1>2. ASSUME NEW k \in 1 .. 3 PROVE ByRank(Of(k), Part(own, j, k), rank, 3 * j + k, 3 * j + k)
  <2>1. IsFiniteSet(Part(own, j, k))
    <3>1. Part(own, j, k) \subseteq Conflicts(own, PairOrder[k]) /\ IsFiniteSet(Conflicts(own, PairOrder[k]))
      BY DEF Part, WellFormed
    <3> QED
      BY <3>1, FS_Subset
  <2>2. Of(k) \in Seq(Part(own, j, k)) /\ ToSet(Of(k)) = Part(own, j, k) /\ IsInjective(Of(k))
    BY <2>1, SetIsListed
  <2> HIDE DEF Of
  <2>3. 3 * j + k \in Nat /\ \A c \in Part(own, j, k) : rank[c] \in (3 * j + k) .. (3 * j + k)
    BY <1>1
  <2>4. ASSUME NEW a \in DOMAIN Of(k), NEW b \in DOMAIN Of(k) PROVE rank[Of(k)[a]] <= rank[Of(k)[b]]
    <3>1. Of(k)[a] \in Part(own, j, k) /\ Of(k)[b] \in Part(own, j, k)
      BY <2>2 DEF ToSet
    <3>2. rank[Of(k)[a]] = 3 * j + k /\ rank[Of(k)[b]] = 3 * j + k
      BY <1>1, <3>1
    <3> QED
      BY <2>3, <3>2
  <2> QED
    BY <2>2, <2>3, <2>4 DEF ByRank
<1>3. OfKind(own, Kinds[j]) = (Of(1) \o Of(2)) \o Of(3)
  BY DEF OfKind, Part
<1> HIDE DEF Of
<1>4. \A k \in 1 .. 3 : Part(own, j, k) \in SUBSET Found(own)
  BY <1>1
<1>5. 3 * j + 1 \in Nat /\ 3 * j + 2 \in Nat /\ 3 * j + 3 \in Nat
  OBVIOUS
<1>6. /\ ByRank(Of(1), Part(own, j, 1), rank, 3 * j + 1, 3 * j + 1)
      /\ ByRank(Of(2), Part(own, j, 2), rank, 3 * j + 2, 3 * j + 2)
      /\ ByRank(Of(3), Part(own, j, 3), rank, 3 * j + 3, 3 * j + 3)
  BY <1>2
<1>7. ByRank(Of(1) \o Of(2), Part(own, j, 1) \cup Part(own, j, 2), rank, 3 * j + 1, 3 * j + 2)
  BY <1>1, <1>4, <1>5, <1>6, ConcatByRank
<1>8. Part(own, j, 1) \cup Part(own, j, 2) \in SUBSET Found(own) /\ Part(own, j, 3) \in SUBSET Found(own)
  BY <1>4
<1>9. ByRank((Of(1) \o Of(2)) \o Of(3), (Part(own, j, 1) \cup Part(own, j, 2)) \cup Part(own, j, 3), rank,
             3 * j + 1, 3 * j + 3)
  BY <1>1, <1>5, <1>6, <1>7, <1>8, ConcatByRank
<1> QED
  BY <1>3, <1>9 DEF rank

\* The list for the chairman: as much of what was found as fits, those that rank first.
LEMMA ListedForChairman ==
  ASSUME NEW own, WellFormed(own)
  PROVE  LET list == Contradictions(own)
         IN  /\ ToSet(list) \subseteq Found(own)
             /\ Len(list) = Min({MaxItems, Cardinality(Found(own))})
             /\ Cardinality(ToSet(list)) = Len(list)
             /\ \A c \in Found(own) \ ToSet(list), d \in ToSet(list) : RankOf(d) <= RankOf(c)
<1> DEFINE rank == [c \in Found(own) |-> RankOf(c)]
           Kind(j) == (Part(own, j, 1) \cup Part(own, j, 2)) \cup Part(own, j, 3)
           found == OfKind(own, Kinds[1]) \o OfKind(own, Kinds[2]) \o OfKind(own, Kinds[3])
<1>1. rank \in [Found(own) -> Nat] /\ \A j, k \in 1 .. 3 : Part(own, j, k) \subseteq Found(own)
  BY FoundRanks
<1>2. \A j \in 1 .. 3 : ByRank(OfKind(own, Kinds[j]), Kind(j), rank, 3 * j + 1, 3 * j + 3)
  BY KindRanked
<1>3. Found(own) = (Kind(1) \cup Kind(2)) \cup Kind(3)
  <2>1. ASSUME NEW c \in Found(own) PROVE c \in (Kind(1) \cup Kind(2)) \cup Kind(3)
    <3>1. PICK k \in 1 .. 3 : c \in Conflicts(own, PairOrder[k])
      BY DEF Found
    <3>2. PICK j \in 1 .. 3 : c.kind = Kinds[j]
      BY <3>1 DEF WellFormed
    <3>3. c \in Part(own, j, k)
      BY <3>1, <3>2 DEF Part
    <3>4. (j = 1 \/ j = 2 \/ j = 3) /\ (k = 1 \/ k = 2 \/ k = 3)
      OBVIOUS
    <3> QED
      BY <3>3, <3>4
  <2> QED
    BY <1>1, <2>1
<1>4. \A j \in 1 .. 3 : Kind(j) \in SUBSET Found(own)
  BY <1>1
<1> HIDE DEF rank, Kind
<1>5. /\ ByRank(OfKind(own, Kinds[1]), Kind(1), rank, 4, 6)
      /\ ByRank(OfKind(own, Kinds[2]), Kind(2), rank, 7, 9)
      /\ ByRank(OfKind(own, Kinds[3]), Kind(3), rank, 10, 12)
  <2>1. 3 * 1 + 1 = 4 /\ 3 * 1 + 3 = 6 /\ 3 * 2 + 1 = 7 /\ 3 * 2 + 3 = 9 /\ 3 * 3 + 1 = 10 /\ 3 * 3 + 3 = 12
    OBVIOUS
  <2>2. 1 \in 1 .. 3 /\ 2 \in 1 .. 3 /\ 3 \in 1 .. 3
    OBVIOUS
  <2>3. /\ ByRank(OfKind(own, Kinds[1]), Kind(1), rank, 3 * 1 + 1, 3 * 1 + 3)
        /\ ByRank(OfKind(own, Kinds[2]), Kind(2), rank, 3 * 2 + 1, 3 * 2 + 3)
        /\ ByRank(OfKind(own, Kinds[3]), Kind(3), rank, 3 * 3 + 1, 3 * 3 + 3)
    BY <1>2, <2>2
  <2> QED
    BY <2>1, <2>3
<1>6. ByRank(OfKind(own, Kinds[1]) \o OfKind(own, Kinds[2]), Kind(1) \cup Kind(2), rank, 4, 9)
  BY <1>1, <1>4, <1>5, ConcatByRank
<1>7. Kind(1) \cup Kind(2) \in SUBSET Found(own) /\ Kind(3) \in SUBSET Found(own)
  BY <1>4
<1>8. ByRank(found, Found(own), rank, 4, 12)
  BY <1>1, <1>3, <1>5, <1>6, <1>7, ConcatByRank
<1>9. Contradictions(own) = SubSeq(found, 1, Min({MaxItems, Len(found)}))
  BY DEF Contradictions, Kinds
<1> HIDE DEF found
<1> DEFINE n == Min({MaxItems, Len(found)})
<1>10. Len(found) \in Nat /\ Cardinality(Found(own)) = Len(found)
  BY <1>8, DistinctLength DEF ByRank
<1>11. n \in 0 .. Len(found)
  <2>1. MaxItems \in Nat
    BY DeliberationAssumption
  <2>2. n = IF MaxItems <= Len(found) THEN MaxItems ELSE Len(found)
    BY <1>10, <2>1, MinOfTwo
  <2> HIDE DEF n
  <2> QED
    BY <1>10, <2>1, <2>2
<1> HIDE DEF n
<1> DEFINE list == SubSeq(found, 1, n)
<1>12. /\ ToSet(list) \subseteq Found(own) /\ Len(list) = n /\ Cardinality(ToSet(list)) = n
       /\ \A c \in Found(own) \ ToSet(list), d \in ToSet(list) : rank[d] <= rank[c]
  BY <1>1, <1>8, <1>11, CutByRank
<1>13. \A c \in Found(own) : rank[c] = RankOf(c)
  BY DEF rank
<1>14. Contradictions(own) = list /\ n = Min({MaxItems, Cardinality(Found(own))})
  BY <1>9, <1>10 DEF n
<1> HIDE DEF list
<1>15. ASSUME NEW c \in Found(own) \ ToSet(list), NEW d \in ToSet(list) PROVE RankOf(d) <= RankOf(c)
  BY <1>12, <1>13
<1> QED
  BY <1>12, <1>14, <1>15

\* What the roles wrote is kept until the end of the sitting, as they wrote it; nothing is shown
\* before the scan; and in between each answer is what the role wrote, with what was looked up
\* for it below.
CouncilInv ==
    /\ said \in [CouncilRoles -> Seq(Lines) \cup {Unanswered, Unavailable}]
    /\ sitting = "asking" => conflicts = <<>> /\ recorded = <<>>
    /\ sitting = "grounding" =>
          \A r \in CouncilRoles : IF r \in Heard THEN grounded[r] \in Grounded(Clamped(said[r]))
                                  ELSE grounded[r] = <<>>
    /\ ConflictsShown

\* Who is heard has written lines of its own.
LEMMA HeardWrote ==
  ASSUME said \in [CouncilRoles -> Seq(Lines) \cup {Unanswered, Unavailable}], NEW r \in Heard
  PROVE  Clamped(said[r]) \in Seq(Lines) /\ Own(r) \in Seq(Lines)
<1>1. said[r] \in Seq(Lines)
  BY DEF Heard
<1>2. Clamped(said[r]) \in Seq(Lines)
  BY <1>1, FilterMembers DEF Clamped
<1> QED
  BY <1>2, OwnLines DEF Own

\* A pair is of two roles of the council.
LEMMA PairRoles == \A k \in 1 .. 3 : /\ PairOrder[k][1] \in CouncilRoles /\ PairOrder[k][2] \in CouncilRoles
                                     /\ ToSet(PairOrder[k]) = {PairOrder[k][1], PairOrder[k][2]}
<1>1. /\ PairOrder[1] = <<"advocate", "skeptic">> /\ PairOrder[2] = <<"advocate", "verifier">>
      /\ PairOrder[3] = <<"skeptic", "verifier">>
  BY DEF PairOrder
<1>2. ASSUME NEW p, NEW x \in CouncilRoles, NEW y \in CouncilRoles, p = <<x, y>>
      PROVE  p[1] \in CouncilRoles /\ p[2] \in CouncilRoles /\ ToSet(p) = {p[1], p[2]}
  <2>1. p \in Seq(CouncilRoles) /\ Len(p) = 2 /\ p[1] = x /\ p[2] = y
    BY <1>2
  <2>2. DOMAIN p = {1, 2}
    BY <2>1
  <2>3. ToSet(p) = {p[1], p[2]}
    BY <2>2 DEF ToSet
  <2> QED
    BY <2>1, <2>3
<1>3. "advocate" \in CouncilRoles /\ "skeptic" \in CouncilRoles /\ "verifier" \in CouncilRoles
  BY DEF CouncilRoles
<1>4. /\ PairOrder[1][1] \in CouncilRoles /\ PairOrder[1][2] \in CouncilRoles
      /\ ToSet(PairOrder[1]) = {PairOrder[1][1], PairOrder[1][2]}
  BY <1>1, <1>2, <1>3
<1>5. /\ PairOrder[2][1] \in CouncilRoles /\ PairOrder[2][2] \in CouncilRoles
      /\ ToSet(PairOrder[2]) = {PairOrder[2][1], PairOrder[2][2]}
  BY <1>1, <1>2, <1>3
<1>6. /\ PairOrder[3][1] \in CouncilRoles /\ PairOrder[3][2] \in CouncilRoles
      /\ ToSet(PairOrder[3]) = {PairOrder[3][1], PairOrder[3][2]}
  BY <1>1, <1>2, <1>3
<1>7. \A k \in 1 .. 3 : k = 1 \/ k = 2 \/ k = 3
  OBVIOUS
<1> QED
  BY <1>4, <1>5, <1>6, <1>7

\* A conflict is of its pair and of one of the kinds.
LEMMA ExpectedShape ==
  ASSUME NEW pair, NEW c \in Expected(pair)
  PROVE  c.roles = pair /\ \E j \in 1 .. 3 : c.kind = Kinds[j]
<1>1. \A kind, s : Conflict(kind, s, pair).roles = pair /\ Conflict(kind, s, pair).kind = kind
  BY DEF Conflict
<1>2. \E s : c \in {Conflict("verdict", s, pair), Conflict("polarity", s, pair), Conflict("numeric", s, pair)}
  BY DEF Expected
<1>3. Kinds[1] = "verdict" /\ Kinds[2] = "polarity" /\ Kinds[3] = "numeric"
  BY DEF Kinds
<1> QED
  BY <1>1, <1>2, <1>3

\* The scan of the answers, with or without their look-ups, finds what is in conflict.
LEMMA ScanFinds ==
  ASSUME CouncilInv, sitting = "grounding"
  PROVE  LET own == [r \in CouncilRoles |-> OwnText(grounded[r])]
         IN  Found(own) = AllExpected /\ WellFormed(own)
<1> DEFINE own == [r \in CouncilRoles |-> OwnText(grounded[r])]
<1>1. ASSUME NEW r \in Heard PROVE own[r] = Own(r) /\ Own(r) \in Seq(Lines)
  <2>1. r \in CouncilRoles /\ grounded[r] \in Grounded(Clamped(said[r]))
    BY DEF CouncilInv, Heard
  <2>2. Clamped(said[r]) \in Seq(Lines) /\ Own(r) \in Seq(Lines)
    BY HeardWrote DEF CouncilInv
  <2>3. OwnText(grounded[r]) = Own(r)
    BY <2>1, <2>2, LookUpsCut DEF Own
  <2> QED
    BY <2>1, <2>2, <2>3
<1>2. ASSUME NEW r \in CouncilRoles \ Heard PROVE own[r] = <<>>
  BY OwnOfNothing DEF CouncilInv
<1> HIDE DEF own
<1> DEFINE both(k) == ToSet(PairOrder[k]) \subseteq Heard
<1>3. ASSUME NEW k \in 1 .. 3, both(k)
      PROVE  Conflicts(own, PairOrder[k]) = Expected(PairOrder[k]) /\ IsFiniteSet(Expected(PairOrder[k]))
  <2>1. PairOrder[k][1] \in Heard /\ PairOrder[k][2] \in Heard
    BY <1>3, PairRoles
  <2> QED
    BY <1>1, <2>1, ConflictsAreExpected, ExpectedFinite
<1>4. ASSUME NEW k \in 1 .. 3, ~both(k) PROVE Conflicts(own, PairOrder[k]) = {}
  <2>1. PairOrder[k][1] \in CouncilRoles \ Heard \/ PairOrder[k][2] \in CouncilRoles \ Heard
    BY <1>4, PairRoles
  <2>2. <<>> \in {own[PairOrder[k][1]], own[PairOrder[k][2]]}
    BY <1>2, <2>1
  <2> QED
    BY <2>2 DEF Conflicts
<1>5. Found(own) = AllExpected
  <2> DEFINE ks == {k \in 1 .. 3 : ToSet(PairOrder[k]) \subseteq Heard}
  <2>1. ASSUME NEW c \in Found(own) PROVE c \in AllExpected
    <3>1. PICK k \in 1 .. 3 : c \in Conflicts(own, PairOrder[k])
      BY DEF Found
    <3>2. both(k)
      BY <1>4, <3>1
    <3> QED
      BY <1>3, <3>1, <3>2 DEF AllExpected
  <2>2. ASSUME NEW c \in AllExpected PROVE c \in Found(own)
    <3>1. PICK k \in 1 .. 3 : both(k) /\ c \in Expected(PairOrder[k])
      BY DEF AllExpected
    <3> QED
      BY <1>3, <3>1 DEF Found
  <2> QED
    BY <2>1, <2>2
<1>6. WellFormed(own)
  <2>1. ASSUME NEW k \in 1 .. 3
        PROVE  /\ IsFiniteSet(Conflicts(own, PairOrder[k]))
               /\ \A c \in Conflicts(own, PairOrder[k]) : c.roles = PairOrder[k] /\ \E j \in 1 .. 3 : c.kind = Kinds[j]
    <3>1. CASE both(k)
      BY <1>3, <3>1, ExpectedShape
    <3>2. CASE ~both(k)
      BY <1>4, <3>2, FS_EmptySet
    <3> QED
      BY <3>1, <3>2
  <2> QED
    BY <2>1 DEF WellFormed
<1> QED
  BY <1>5, <1>6 DEF own

\* Before anyone answers.
LEMMA CouncilBegins == DeliberationInit => CouncilInv
BY DEF DeliberationInit, CouncilInv, ConflictsShown

\* An answer is taken as it is written.
LEMMA RoleAnswersKeeps == ASSUME CouncilInv, NEW r \in CouncilRoles, RoleAnswers(r) PROVE CouncilInv'
<1>1. sitting = "asking" /\ UNCHANGED <<grounded, conflicts, recorded, sitting>>
  BY DEF RoleAnswers
<1>2. said' \in [CouncilRoles -> Seq(Lines) \cup {Unanswered, Unavailable}]
  <2>1. PICK text \in BoundedSeq(Lines, MaxLines[r]) \cup {Unavailable} : said' = [said EXCEPT ![r] = text]
    BY DEF RoleAnswers
  <2>2. text \in Seq(Lines) \cup {Unanswered, Unavailable}
    <3>1. MaxLines[r] \in Nat
      BY DeliberationAssumption
    <3> QED
      BY <2>1, <3>1 DEF BoundedSeq, SeqOf
  <2> QED
    BY <2>1, <2>2 DEF CouncilInv
<1> QED
  BY <1>1, <1>2 DEF CouncilInv, ConflictsShown

\* Without an answer there is nothing in conflict.
LEMMA NoneExpected == Heard = {} => AllExpected = {}
<1>1. \A k \in 1 .. 3 : ToSet(PairOrder[k]) # {}
  BY PairRoles
<1> QED
  BY <1>1 DEF AllExpected

\* The look-ups are appended; without an answer the sitting is over.
LEMMA GatherKeeps == ASSUME CouncilInv, Gather PROVE CouncilInv'
<1>1. sitting = "asking" /\ UNCHANGED <<reviewing, said, conflicts, recorded>> /\ Heard' = Heard
  BY DEF Gather, Heard
<1>2. conflicts = <<>> /\ recorded = <<>>
  BY <1>1 DEF CouncilInv
<1>3. CASE Heard = {}
  <2>1. sitting' = "over"
    BY <1>3 DEF Gather
  <2>2. AllExpected = {}
    BY <1>3, NoneExpected
  <2>3. AllExpected' = {}
    <3>1. AllExpected' = AllExpected
      BY <1>1 DEF AllExpected, Expected, Own, Against, Says, About, Headed, ValidLabels
    <3> QED
      BY <2>2, <3>1
  <2>4. ToSet(<<>>) = {} /\ Cardinality({}) = 0 /\ Len(<<>>) = 0
    BY FS_EmptySet DEF ToSet
  <2>5. Min({MaxItems, 0}) = 0
    <3>1. MaxItems \in Nat
      BY DeliberationAssumption
    <3>2. Min({MaxItems, 0}) = IF MaxItems <= 0 THEN MaxItems ELSE 0
      BY <3>1, MinOfTwo
    <3> QED
      BY <3>1, <3>2
  <2>6. conflicts' = <<>> /\ recorded' = <<>>
    BY <1>1, <1>2
  <2>7. ConflictsShown'
    BY <2>3, <2>4, <2>5, <2>6 DEF ConflictsShown
  <2> QED
    BY <1>1, <2>1, <2>7 DEF CouncilInv
<1>4. CASE Heard # {}
  <2>1. /\ sitting' = "grounding"
        /\ \A r \in CouncilRoles : IF r \in Heard THEN grounded'[r] \in Grounded(Clamped(said[r]))
                                   ELSE grounded'[r] = <<>>
    BY <1>4 DEF Gather
  <2> QED
    BY <1>1, <2>1 DEF CouncilInv, ConflictsShown
<1> QED
  BY <1>3, <1>4

\* The list that is shown is that of the scan.
LEMMA ConcludeKeeps == ASSUME CouncilInv, Conclude PROVE CouncilInv'
<1> DEFINE own == [r \in CouncilRoles |-> OwnText(grounded[r])]
           list == Contradictions(own)
<1>1. /\ sitting = "grounding" /\ sitting' = "over" /\ UNCHANGED <<reviewing, said, grounded>>
      /\ conflicts' = list /\ recorded' = list
  BY DEF Conclude
<1>2. Found(own) = AllExpected /\ WellFormed(own)
  BY <1>1, ScanFinds
<1>3. AllExpected' = AllExpected
  BY <1>1 DEF AllExpected, Heard, Expected, Own, Against, Says, About, Headed, ValidLabels
<1> HIDE DEF own
<1>4. /\ ToSet(list) \subseteq Found(own)
      /\ Len(list) = Min({MaxItems, Cardinality(Found(own))})
      /\ Cardinality(ToSet(list)) = Len(list)
      /\ \A c \in Found(own) \ ToSet(list), d \in ToSet(list) : RankOf(d) <= RankOf(c)
  BY <1>2, ListedForChairman
<1> HIDE DEF list
<1>5. ConflictsShown'
  BY <1>1, <1>2, <1>3, <1>4 DEF ConflictsShown
<1> QED
  BY <1>1, <1>5 DEF CouncilInv

\* A scan that fails shows nothing.
LEMMA ScanFailsKeeps == ASSUME CouncilInv, ScanFails PROVE CouncilInv'
BY DEF CouncilInv, ScanFails, ConflictsShown

\* Every step of a sitting keeps the invariant.
LEMMA CouncilStep == CouncilInv /\ [DeliberationNext]_deliberationVars => CouncilInv'
<1> SUFFICES ASSUME CouncilInv, [DeliberationNext]_deliberationVars PROVE CouncilInv'
  OBVIOUS
<1>1. CASE UNCHANGED deliberationVars
  <2>1. AllExpected' = AllExpected /\ Heard' = Heard
    BY <1>1 DEF deliberationVars, AllExpected, Heard, Expected, Own, Against, Says, About, Headed, ValidLabels
  <2> QED
    BY <1>1, <2>1 DEF deliberationVars, CouncilInv, ConflictsShown
<1> QED
  BY <1>1, RoleAnswersKeeps, GatherKeeps, ConcludeKeeps, ScanFailsKeeps DEF DeliberationNext

\* The list in the chairman's prompt holds just what is in conflict between two roles that
\* answered, in their own words and not in those of a look-up, as much as fits and those that
\* rank first; the session record has the same list.
THEOREM ConflictsAreShown == RecordsSpec => []ConflictsShown
<1>1. RecordsInit => CouncilInv
  BY CouncilBegins DEF RecordsInit
<1>2. CouncilInv /\ [RecordsNext]_recordVars => CouncilInv'
  <2> SUFFICES ASSUME CouncilInv, [RecordsNext]_recordVars PROVE CouncilInv'
    OBVIOUS
  <2>1. [DeliberationNext]_deliberationVars
    BY DEF RecordsNext, recordVars, Still
  <2> QED
    BY <2>1, CouncilStep
<1>3. CouncilInv => ConflictsShown
  BY DEF CouncilInv
<1> QED
  BY <1>1, <1>2, <1>3, PTL DEF RecordsSpec
================================================================================
