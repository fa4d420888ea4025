------------------------------ MODULE Channel ------------------------------
(***************************************************************************)
(* A Channel (src/shero/net/Channel.cc) as its loop's EPollPoller          *)
(* (src/shero/net/EPollPoller.cc) keeps it.  A channel is a record:        *)
(*   status  m_status                                                      *)
(*   event   m_event, the set of events it wants                           *)
(*   mapped  m_channelMap[fd] is this channel                              *)
(*   epoll   the kernel's epoll set holds fd, with interest m_event        *)
(* The kernel's interest is always m_event: update() passes getEvent(), and*)
(* every assignment to m_event is followed by updateToLoop().              *)
(* The operators below are pure; the modules EPollPoller and TcpConnection *)
(* apply them to the channels they hold.                                   *)
(***************************************************************************)
READ == "READ"
WRITE == "WRITE"
Events == {READ, WRITE}

Statuses == {"NEW", "ADD", "DELETE"}

ChannelType == [status : Statuses, event : SUBSET Events,
                mapped : BOOLEAN, epoll : BOOLEAN]

NewChannel == [status |-> "NEW", event |-> {}, mapped |-> FALSE,
               epoll |-> FALSE]

isWriting(c) == WRITE \in c.event

isNoneEvent(c) == c.event = {}

\* The assertions of EPollPoller::updateChannel.
updateAsserts(c) == c.mapped <=> c.status # "NEW"

\* Variant: a channel that wants nothing leaves the epoll set in status ADD.
updateChannel_KeepStatus(c) ==
    IF c.status \in {"NEW", "DELETE"}
    THEN [c EXCEPT !.mapped = TRUE, !.status = "ADD", !.epoll = TRUE]
    ELSE IF isNoneEvent(c)
    THEN [c EXCEPT !.epoll = FALSE]
    ELSE c

\* EPollPoller::updateChannel: a channel that is not in the epoll set is
\* added, with whatever m_event it has, the empty set included.
updateChannel(c) ==
    IF c.status \in {"NEW", "DELETE"}
    THEN [c EXCEPT !.mapped = TRUE, !.status = "ADD", !.epoll = TRUE]
    ELSE IF isNoneEvent(c)
    THEN [c EXCEPT !.status = "DELETE", !.epoll = FALSE]
    ELSE c

addListenEvents(c, e) == updateChannel([c EXCEPT !.event = @ \cup {e}])

delListenEvents(c, e) == updateChannel([c EXCEPT !.event = @ \ {e}])

delAllListenEvents(c) == updateChannel([c EXCEPT !.event = {}])

\* The assertions of EPollPoller::removeChannel.
removeAsserts(c) ==
    c.mapped /\ isNoneEvent(c) /\ c.status \in {"ADD", "DELETE"}

\* EPollPoller::removeChannel.
removeChannel(c) ==
    [c EXCEPT !.mapped = FALSE, !.status = "NEW", !.epoll = FALSE]

\* Status, map and epoll set agree: a channel is in the map once it has been
\* added, in the epoll set exactly in status ADD, and wants nothing while it
\* is out of it.
Consistent(c) ==
    /\ c.mapped <=> c.status # "NEW"
    /\ c.epoll <=> c.status = "ADD"
    /\ c.event # {} => c.epoll
=============================================================================
