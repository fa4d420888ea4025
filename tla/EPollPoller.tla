---------------------------- MODULE EPollPoller ----------------------------
(***************************************************************************)
(* The channels of one loop: their registration with its EPollPoller, and  *)
(* the round of event handling in EventLoop::loop, in which the handler of *)
(* one channel may change, remove and free others.  All of it runs on the  *)
(* loop thread.                                                            *)
(*                                                                         *)
(* The callers (connections, acceptor, connector, timer) are any code that *)
(* meets the assertions of the calls: a failed assertion aborts, so it is  *)
(* a guard here.  Channels freed are not created again, which is what      *)
(* distinguishes two channels of one file descriptor.                      *)
(***************************************************************************)
EXTENDS Naturals, FiniteSets, Channel

CONSTANTS
    Channels,
    MaxEvents         \* size of m_events (m_epollEventSize): it never grows,
                      \* as poll compares numEvents with sizeof(m_events)

ASSUME MaxEventsAssumption == MaxEvents \in Nat \ {0}

None == "none"

ASSUME NoneAssumption == None \notin Channels

VARIABLES
    chan,             \* every channel as the poller holds it
    live,             \* the channels created and not freed
    freed,            \* the channels freed
    activeChannels,   \* m_activeChannels
    todo,             \* those the loop over m_activeChannels has not reached
    current,          \* m_currentActiveChannel
    handling          \* m_eventHandling

pollerVars == <<chan, live, freed, activeChannels, todo, current, handling>>

round == <<activeChannels, todo, current, handling>>

PollerInit ==
    /\ chan = [c \in Channels |-> NewChannel]
    /\ live = {} /\ freed = {}
    /\ activeChannels = {} /\ todo = {} /\ current = None /\ handling = FALSE

-----------------------------------------------------------------------------
(* The loop.                                                               *)

\* poll: epoll_wait returns at most MaxEvents registered channels, and
\* fillActiveChannels lists them.
Poll(A) ==
    /\ ~handling
    /\ A \subseteq {c \in Channels : chan[c].epoll}
    /\ Cardinality(A) <= MaxEvents
    /\ activeChannels' = A /\ todo' = A
    /\ handling' = TRUE
    /\ UNCHANGED <<chan, live, freed, current>>

\* The loop reaches the next active channel; its handler runs until the next
\* HandleEvent or HandleDone.
HandleEvent(c) ==
    /\ handling /\ c \in todo
    /\ current' = c
    /\ todo' = todo \ {c}
    /\ UNCHANGED <<chan, live, freed, activeChannels, handling>>

HandleDone ==
    /\ handling /\ todo = {}
    /\ current' = None
    /\ handling' = FALSE
    /\ UNCHANGED <<chan, live, freed, activeChannels, todo>>

-----------------------------------------------------------------------------
(* Calls from handlers and functors.                                       *)

Create(c) ==
    /\ c \notin live \cup freed
    /\ live' = live \cup {c}
    /\ UNCHANGED <<chan, freed, round>>

\* updateToLoop after a change of m_event: n is the channel after it.
Update(c, n) ==
    /\ c \in live
    /\ updateAsserts(chan[c])
    /\ chan' = [chan EXCEPT ![c] = n]
    /\ UNCHANGED <<live, freed, round>>

AddListenEvents(c, e) == Update(c, addListenEvents(chan[c], e))
DelListenEvents(c, e) == Update(c, delListenEvents(chan[c], e))
DelAllListenEvents(c) == Update(c, delAllListenEvents(chan[c]))

\* Variant: the assertion of EventLoop::removeChannel on the active channels
\* is missing.
RemovalAllowed_Always(c) == TRUE

\* The assertion of EventLoop::removeChannel during event handling.
RemovalAllowed(c) == handling => current = c \/ c \notin activeChannels

\* removeFromLoop.
Remove(c) ==
    /\ c \in live
    /\ RemovalAllowed(c)
    /\ removeAsserts(chan[c])
    /\ chan' = [chan EXCEPT ![c] = removeChannel(@)]
    /\ UNCHANGED <<live, freed, round>>

\* The owner frees a channel it has removed, not inside the channel's own
\* handler (Channel::tie keeps the owner there).
Free(c) ==
    /\ c \in live /\ chan[c].status = "NEW"
    /\ current # c
    /\ live' = live \ {c}
    /\ freed' = freed \cup {c}
    /\ UNCHANGED <<chan, round>>

-----------------------------------------------------------------------------
Calls(c) ==
    \/ Create(c) \/ DelAllListenEvents(c) \/ Remove(c) \/ Free(c)
    \/ \E e \in Events : AddListenEvents(c, e) \/ DelListenEvents(c, e)

PollerNext ==
    \/ \E A \in SUBSET Channels : Poll(A)
    \/ HandleDone
    \/ \E c \in Channels : HandleEvent(c) \/ Calls(c)

PollerSpec == PollerInit /\ [][PollerNext]_pollerVars

-----------------------------------------------------------------------------
(* Properties.                                                             *)

PollerTypeOK ==
    /\ chan \in [Channels -> ChannelType]
    /\ live \subseteq Channels
    /\ freed \subseteq Channels
    /\ activeChannels \subseteq Channels
    /\ todo \subseteq activeChannels
    /\ current \in Channels \cup {None}
    /\ handling \in BOOLEAN

\* Through every sequence of calls, m_status, m_channelMap and the kernel's
\* epoll set agree on every channel: one that wants events gets them, one in
\* status NEW or DELETE is not in the epoll set.
RegistrationConsistent == \A c \in Channels : Consistent(chan[c])

\* The poller holds no channel that was freed, in its map or in the epoll
\* set: epoll_wait returns no dangling pointer.
NoFreedRegistered ==
    \A c \in Channels \ live : ~chan[c].mapped /\ ~chan[c].epoll

\* The loop over m_activeChannels never reaches a freed channel, although
\* handlers earlier in the round remove and free channels.
NoFreedActive == handling => todo \subseteq live

\* Neither epoll_wait nor a round of the loop reaches a freed channel, however
\* handlers and functors create, remove and free channels.
NoFreedReached == NoFreedRegistered /\ NoFreedActive
=============================================================================
