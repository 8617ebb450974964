---------------------------- MODULE RelayChannels ----------------------------
(***************************************************************************)
(* A channel: created, joined, left, posted to and read.  None of the      *)
(* calls is a transaction: each SQL statement commits on its own, and the  *)
(* statements of other processes come between.  A member sees what is      *)
(* stamped no earlier than its join, in pages, with a flag for more.       *)
(*                                                                         *)
(* One channel name; what a message says and its priority are left out,    *)
(* the order of a page with them: any Limit of the visible messages.       *)
(***************************************************************************)
EXTENDS Naturals, FiniteSets

CONSTANTS ChanAgents,      \* callers
          ChanProcs,       \* relay processes, one call each at a time
          Limit,           \* bound: messages of a page
          MaxPosts,        \* bound: messages
          MaxClock         \* bound: distinct timestamps

Nobody == "nobody"   \* no channel, no caller

ASSUME ChanBounds == /\ IsFiniteSet(ChanProcs) /\ Nobody \notin ChanAgents
                     /\ {Limit, MaxPosts} \subseteq Nat /\ MaxClock \in Nat \ {0}

VARIABLES created,         \* the channel row: its creator, or Nobody
          joined,          \* channel_members: joined_at of an agent, or 0
          posts,           \* channel_messages
          chcall,          \* the call each process is in
          chclock,         \* now()
          chcrashed        \* a process died in the middle of a call

chanVars == <<created, joined, posts, chcall, chclock, chcrashed>>

Times == 1 .. MaxClock
NoChanCall == [op |-> "none", who |-> Nobody, at |-> 0, page |-> {}, saw |-> {}, then |-> {}, moved |-> FALSE]
\* then: for the properties only, the members when the post was checked that have not left since.
Posts == [id : 1 .. MaxPosts, at : Times, then : SUBSET ChanAgents]

Member(a) == joined[a] > 0
Call(p, op, a) == chcall' = [chcall EXCEPT ![p] = [NoChanCall EXCEPT !.op = op, !.who = a, !.at = chclock]]
Returns(p) == chcall' = [chcall EXCEPT ![p] = NoChanCall]
Free(p) == chcall[p] = NoChanCall
At(p, op) == chcall[p].op = op

ChanInit ==
  /\ created = Nobody
  /\ joined = [a \in ChanAgents |-> 0]
  /\ posts = {}
  /\ chcall = [p \in ChanProcs |-> NoChanCall]
  /\ chclock = 1
  /\ chcrashed = FALSE

\* A change of a's membership, noticed by a read of a's that is under way.
Noticed(a) == [p \in ChanProcs |->
  IF chcall[p].who = a /\ chcall[p].op = "count" THEN [chcall[p] EXCEPT !.moved = TRUE] ELSE chcall[p]]

-----------------------------------------------------------------------------
(* createChannel: look, insert the channel, insert the creator.            *)

CreateLook(p, a) ==
  /\ Free(p) /\ created = Nobody
  /\ Call(p, "create", a)
  /\ UNCHANGED <<created, joined, posts, chclock, chcrashed>>

\* The UNIQUE name lets one of two creators through; the other's insert throws.
CreateInsert(p) ==
  /\ At(p, "create")
  /\ IF created = Nobody
       THEN /\ created' = chcall[p].who
            /\ chcall' = [chcall EXCEPT ![p].op = "enrol"]
       ELSE Returns(p) /\ UNCHANGED created
  /\ UNCHANGED <<joined, posts, chclock, chcrashed>>

\* The creator may have joined by itself in between: then this insert throws.
CreateEnrol(p) ==
  LET a == chcall[p].who IN
  /\ At(p, "enrol")
  /\ joined' = IF Member(a) THEN joined ELSE [joined EXCEPT ![a] = chcall[p].at]
  /\ Returns(p)
  /\ UNCHANGED <<created, posts, chclock, chcrashed>>

-----------------------------------------------------------------------------
(* joinChannel and leaveChannel.                                           *)

JoinLook(p, a) ==
  /\ Free(p) /\ created # Nobody /\ ~Member(a)
  /\ Call(p, "join", a)
  /\ UNCHANGED <<created, joined, posts, chclock, chcrashed>>

\* The primary key keeps the first of two joins.
JoinRow(a, t) == IF Member(a) THEN joined ELSE [joined EXCEPT ![a] = t]

JoinInsert(p) ==
  /\ At(p, "join")
  /\ joined' = JoinRow(chcall[p].who, chclock)
  /\ chcall' = [Noticed(chcall[p].who) EXCEPT ![p] = NoChanCall]
  /\ UNCHANGED <<created, posts, chclock, chcrashed>>

Leave(p, a) ==
  /\ Free(p) /\ Member(a)
  /\ joined' = [joined EXCEPT ![a] = 0]
  /\ posts' = {[m EXCEPT !.then = @ \ {a}] : m \in posts}
  /\ chcall' = [q \in ChanProcs |-> [Noticed(a)[q] EXCEPT !.then = @ \ {a}]]
  /\ UNCHANGED <<created, chclock, chcrashed>>

-----------------------------------------------------------------------------
(* postToChannel and getChannelMessages.                                   *)

PostLook(p, a) ==
  /\ Free(p) /\ Member(a)
  /\ Cardinality(posts) + Cardinality({q \in ChanProcs : At(q, "post")}) < MaxPosts
  /\ chcall' = [chcall EXCEPT ![p] = [NoChanCall EXCEPT !.op = "post", !.who = a, !.at = chclock,
                                                        !.then = {b \in ChanAgents : Member(b)}]]
  /\ UNCHANGED <<created, joined, posts, chclock, chcrashed>>

\* The sender may have left, and the stamp is older than the insert.
PostInsert(p) ==
  /\ At(p, "post")
  /\ posts' = posts \cup {[id |-> Cardinality(posts) + 1, at |-> chcall[p].at, then |-> chcall[p].then]}
  /\ Returns(p)
  /\ UNCHANGED <<created, joined, chclock, chcrashed>>

\* resolveChannelReadScope with CHANNEL_MSG_WHERE: what a member may see.
Visible(a) == {m.id : m \in {m \in posts : m.at >= joined[a]}}

ReadPage(p, a) ==
  /\ Free(p) /\ Member(a)
  /\ \E page \in SUBSET Visible(a) :
       /\ Cardinality(page) = (IF Cardinality(Visible(a)) < Limit THEN Cardinality(Visible(a)) ELSE Limit)
       /\ chcall' = [chcall EXCEPT ![p] = [NoChanCall EXCEPT !.op = "count", !.who = a,
                                             !.page = page, !.saw = Visible(a)]]
  /\ UNCHANGED <<created, joined, posts, chclock, chcrashed>>

\* Mutant: the count is of the page.
Total_OfPage(p) == Cardinality(chcall[p].page)
\* countChannelMessages.
Total(p) == Cardinality(Visible(chcall[p].who))
HasMore(p) == Total(p) > Cardinality(chcall[p].page)

\* A caller that has left gets an error and no page.
ReadCount(p) ==
  /\ At(p, "count")
  /\ Returns(p)
  /\ UNCHANGED <<created, joined, posts, chclock, chcrashed>>

Dies(p) ==
  /\ ~Free(p) /\ ~chcrashed
  /\ Returns(p)
  /\ chcrashed' = TRUE
  /\ UNCHANGED <<created, joined, posts, chclock>>

ClockTicks ==
  /\ chclock < MaxClock
  /\ chclock' = chclock + 1
  /\ UNCHANGED <<created, joined, posts, chcall, chcrashed>>

ChanNext ==
  \/ \E p \in ChanProcs :
       \/ CreateInsert(p) \/ CreateEnrol(p) \/ JoinInsert(p) \/ PostInsert(p) \/ ReadCount(p) \/ Dies(p)
       \/ \E a \in ChanAgents :
            CreateLook(p, a) \/ JoinLook(p, a) \/ Leave(p, a) \/ PostLook(p, a) \/ ReadPage(p, a)
  \/ ClockTicks

ChanSpec == ChanInit /\ [][ChanNext]_chanVars

-----------------------------------------------------------------------------
(* Correctness.                                                            *)

ChanTypeOK ==
  /\ created \in ChanAgents \cup {Nobody}
  /\ joined \in [ChanAgents -> 0 .. MaxClock]
  /\ posts \subseteq Posts
  /\ \A m \in posts : m.id <= Cardinality(posts)
  /\ \A p \in ChanProcs : chcall[p].op \in {"none", "create", "enrol", "join", "post", "count"}
  /\ chclock \in Times /\ chcrashed \in BOOLEAN
  /\ created = Nobody => \A a \in ChanAgents : ~Member(a)

\* Who is a member when a post begins sees the message, for as long as it stays one:
\* joining again, from another session or in the middle of the post, does not move
\* the point from which it sees messages.
MembersSeePosts == \A m \in posts : \A a \in m.then : m.id \in Visible(a)

\* An answer that says there is no more holds everything that was visible when its
\* page was read, unless the reader itself left and joined again between the page
\* and the count.
NoMoreMeansAll ==
  [][\A p \in ChanProcs : At(p, "count") /\ Free(p)' /\ Member(chcall[p].who) /\ ~chcall[p].moved /\ ~HasMore(p)
       => chcall[p].saw \subseteq chcall[p].page]_chanVars

\* The promises of a channel: members see what is posted after their join, and a page that
\* says there is no more has shown all of it (db.ts, tools/channels.ts).
PostsReadable ==
  /\ []ChanTypeOK /\ []MembersSeePosts /\ NoMoreMeansAll

=============================================================================
