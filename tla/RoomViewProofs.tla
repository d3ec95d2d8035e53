--------------------------- MODULE RoomViewProofs ---------------------------
(***************************************************************************)
(* Proofs about RoomView: every variable keeps to its type; the two lists  *)
(* agree; pages have no gap and no message twice; who only reads and is    *)
(* connected misses nothing; one WebSocket client at most dispatches; and  *)
(* others' messages stay on screen: for any number of messages, sends,     *)
(* openings of the room and troubles.                                      *)
(*                                                                         *)
(* Why it holds: requests, frames and pages name messages of the log       *)
(* (Places); whoever is not the client in state.ws is closed (Wires); a    *)
(* place of the data is a place of the tiles, counted from the end, and an *)
(* optimistic entry of the one is the user's own in the other (Lists); who *)
(* only reads has pages that follow each other (Paged), and a message that *)
(* is newer than the first page is on its way or on screen (Followed).     *)
(***************************************************************************)
EXTENDS RoomView, FiniteSetTheorems, SequenceTheorems, WellFoundedInduction, TLAPS

\* Sequences of messages of the log, and those of a page, which follow each other.
Within(s) == \A i \in DOMAIN s : s[i] <= Len(log)
Run(s)    == \A i \in DOMAIN s : s[i] = s[1] + i - 1

Places ==
    /\ Within(load.page) /\ Within(older.page) /\ Run(load.page) /\ Run(older.page)
    /\ \A f \in Feed : Within(feed[f].inbox)
    /\ minId <= Len(log)
    /\ ws <= view.n + 1
    /\ older.pc # "idle" => minId # 0
    /\ \A k \in Sent : send[k].pc = "none" => send[k].asked = {}

Wires ==
    /\ \A f \in Feed : f # ws => feed[f].st = "off" \/ feed[f].closed
    /\ ~feed[ws].closed
    /\ view.open => feed[ws].wired = view.n

\* The place in the tiles that corresponds to place i of the data.
Across(i) == i + (Len(tiles) - Len(data))

Lists ==
    /\ ListsAgree
    /\ \A i \in DOMAIN data : IsOptimistic(data[i]) => IsMine(tiles[Across(i)])

\* The first page is shown before older ones are asked for.
Loaded == minId # 0 => load.pc = "done" /\ load.page # <<>>

\* For who only reads: the log has no message of the user, what the data has is on screen,
\* and the pages in the data are the ids from the oldest to the newest, each once, with a
\* page that is to come right before them.
Quiet ==
    /\ \A n \in DOMAIN log : log[n] = 0
    /\ Range(data) \subseteq Range(tiles)
IsPage(i) == data[i].via = "page"
Whole ==
    /\ minId..Newest \subseteq Ids(data)
    /\ \A i, j \in DOMAIN data : IsPage(i) /\ IsPage(j) /\ data[i].id = data[j].id => i = j
Span ==
    minId # 0 =>
       /\ minId <= Newest
       /\ Whole
       /\ \A i \in DOMAIN data : IsPage(i) => data[i].id >= minId
       /\ older.pc = "show" /\ older.page # <<>> => Last(older.page) = minId - 1
Paged == Loaded /\ (Reader => Quiet /\ Span)

\* A socket that is prompt is on the room; what is newer than the first page is on its way
\* or on screen.
Live ==
    /\ load.pc # "done" => view.open
    /\ prompt => view.open /\ feed[ws].st = "open" /\ feed[ws].heard
Heard(n) == n \in untold \union opening \union Range(feed[ws].inbox) \union Ids(tiles)
Caught ==
    (prompt /\ load.pc \in {"show", "done"} /\ load.page # <<>>) =>
       \A n \in DOMAIN log : n > Last(load.page) => Heard(n)
Followed == Live /\ (Reader => Caught)

Author   == 0..MaxSends
LoadRec  == [pc : {"join", "ask", "show", "done"}, page : Seq(Id)]
OlderRec == [pc : {"idle", "ask", "show"}, page : Seq(Id)]
ViewRec  == [n : 0..MaxViews, open : BOOLEAN]
Asks     == SUBSET (1..MaxTries)
SendRec == [pc : {"none", "wait", "sent", "failed", "left"},
            asked : Asks, stored : Asks,
            at : 0..(MaxViews + 1)]
FeedRec == [st : {"off", "connecting", "open"}, room : BOOLEAN, wired : 0..MaxViews,
            closed : BOOLEAN, heard : BOOLEAN, inbox : Seq(Id)]

Flags == {sealed, personal, member, parted, prompt} \subseteq BOOLEAN
Typed ==
    /\ log \in Seq(Author) /\ Len(log) <= MaxLog
    /\ untold \subseteq DOMAIN log
    /\ view \in ViewRec /\ load \in LoadRec /\ older \in OlderRec
    /\ minId \in 0..MaxLog
    /\ data \in Seq(Entry) /\ tiles \in Seq(Entry)
    /\ opening \subseteq DOMAIN log
    /\ send \in [Sent -> SendRec] /\ feed \in [Feed -> FeedRec]
    /\ ws \in Feed
    /\ troubles \in 0..MaxTroubles
TypeInv == Flags /\ Typed /\ Places

-----------------------------------------------------------------------------
(* Operators.                                                               *)

LEMMA PageFacts ==
    ASSUME RoomViewAssumption, log \in Seq(Author), Len(log) <= MaxLog,
           NEW before \in Nat \ {0}
    PROVE  LET last == IF before > Len(log) THEN Len(log) ELSE before - 1
               page == Page(before)
           IN  /\ page \in Seq(Id) /\ Within(page) /\ Run(page)
               /\ page # <<>> <=> last # 0
               /\ page # <<>> => Last(page) = last /\ Head(page) = page[1]
                                 /\ Len(page) \in Nat \ {0} /\ page[1] = last - Len(page) + 1
                                 /\ DOMAIN page = 1..Len(page) /\ page[1] >= 1
<1> DEFINE last == IF before > Len(log) THEN Len(log) ELSE before - 1
           size == IF last < PageSize THEN last ELSE PageSize
           page == Page(before)
<1>1. last \in Nat /\ last <= Len(log) /\ size \in Nat /\ size <= last /\ Len(log) \in Nat
  BY DEF RoomViewAssumption
<1>2. size = 0 <=> last = 0 BY <1>1 DEF RoomViewAssumption
<1>3. page = [i \in 1..size |-> last - size + i] BY DEF Page
<1> HIDE DEF last, size, page
<1>4. \A i \in 1..size : last - size + i \in Id BY <1>1 DEF Id, RoomViewAssumption
<1>5. page \in [1..size -> Id] BY <1>3, <1>4
<1>6. page \in Seq(Id) /\ Len(page) = size /\ DOMAIN page = 1..size BY <1>1, <1>5
<1>7. Within(page) BY <1>1, <1>3, <1>6 DEF Within
<1>8. Run(page) BY <1>1, <1>3, <1>6 DEF Run
<1>9. page # <<>> <=> size # 0 BY <1>1, <1>6
<1>10. ASSUME page # <<>>
       PROVE  /\ Last(page) = last /\ Head(page) = page[1]
              /\ Len(page) \in Nat \ {0} /\ page[1] = last - Len(page) + 1
              /\ page[1] >= 1
  <2>1. size >= 1 BY <1>1, <1>9, <1>10
  <2>2. page[size] = last /\ page[1] = last - size + 1 BY <1>1, <1>3, <2>1
  <2>3. Head(page) = page[1] BY <1>6, <1>10
  <2> QED BY <1>1, <1>6, <2>1, <2>2, <2>3 DEF Last
<1> QED BY <1>2, <1>6, <1>7, <1>8, <1>9, <1>10 DEF last, page

LEMMA AsPageFacts ==
    ASSUME NEW page \in Seq(Id), log \in Seq(Author), Within(page),
           MaxLog \in Nat
    PROVE  /\ AsPage(page) \in Seq(Entry) /\ Len(AsPage(page)) = Len(page)
           /\ \A i \in 1..Len(page) : AsPage(page)[i] = Shown(page[i], "page")
<1>1. AsPage(page) = [i \in 1..Len(page) |-> Shown(page[i], "page")] BY DEF AsPage
<1>2. ASSUME NEW n \in Id, n <= Len(log) PROVE Shown(n, "page") \in Entry
  <2>1. log[n] \in Author BY <1>2 DEF Id
  <2>2. TextOf(n) \in {"theirs", "mine"} \X (Id \union Sent) BY <2>1 DEF TextOf, Sent, Author
  <2> QED BY <2>2 DEF Shown, Entry, Id
<1>3. \A i \in 1..Len(page) : page[i] \in Id /\ page[i] <= Len(log) BY DEF Within
<1>4. \A i \in 1..Len(page) : Shown(page[i], "page") \in Entry BY <1>2, <1>3
<1>5. AsPage(page) \in [1..Len(page) -> Entry] BY <1>1, <1>4
<1> QED BY <1>1, <1>5

-----------------------------------------------------------------------------
(* Types.                                                                   *)

LEMMA TypedIs == TypeOK <=> Flags /\ Typed
BY DEF TypeOK, Flags, Typed, Author, LoadRec, OlderRec, ViewRec, SendRec, FeedRec, Asks

\* The parts of records.
LEMMA FeedParts ==
    ASSUME NEW c \in FeedRec
    PROVE  /\ c.st \in {"off", "connecting", "open"} /\ c.room \in BOOLEAN /\ c.wired \in 0..MaxViews
           /\ c.closed \in BOOLEAN /\ c.heard \in BOOLEAN /\ c.inbox \in Seq(Id)
           /\ \A x \in Seq(Id) : [c EXCEPT !.inbox = x] \in FeedRec /\ [c EXCEPT !.inbox = x].inbox = x
           /\ \A x \in {"off", "connecting", "open"} :
                 [c EXCEPT !.st = x] \in FeedRec /\ [c EXCEPT !.st = x].inbox = c.inbox
           /\ \A x \in 0..MaxViews :
                 [c EXCEPT !.wired = x] \in FeedRec /\ [c EXCEPT !.wired = x].inbox = c.inbox
           /\ \A x \in BOOLEAN :
                 [c EXCEPT !.heard = x] \in FeedRec /\ [c EXCEPT !.heard = x].inbox = c.inbox
           /\ \A x \in BOOLEAN :
                 [c EXCEPT !.room = x] \in FeedRec /\ [c EXCEPT !.room = x].inbox = c.inbox
           /\ \A x \in BOOLEAN :
                 [c EXCEPT !.closed = x] \in FeedRec /\ [c EXCEPT !.closed = x].inbox = c.inbox
BY DEF FeedRec

LEMMA FeedMade ==
    /\ NoFeed \in FeedRec /\ NoFeed.inbox = <<>>
    /\ \A v \in 0..MaxViews : NewFeed(v) \in FeedRec /\ NewFeed(v).inbox = <<>>
    /\ \A c \in FeedRec : Closed(c) \in FeedRec /\ Closed(c).inbox \in {c.inbox, <<>>}
<1> USE RoomViewAssumption DEF RoomViewAssumption
<1>1. NoFeed \in FeedRec /\ NoFeed.inbox = <<>> BY DEF NoFeed, FeedRec
<1>2. ASSUME NEW v \in 0..MaxViews PROVE NewFeed(v) \in FeedRec /\ NewFeed(v).inbox = <<>>
  <2> DEFINE a == [NoFeed EXCEPT !.st = "connecting"]
             b == [a EXCEPT !.room = TRUE]
             c == [b EXCEPT !.wired = v]
             d == [c EXCEPT !.heard = TRUE]
  <2>1. a \in FeedRec /\ a.inbox = <<>> BY <1>1, FeedParts
  <2>2. NewFeed(v) = d BY <1>1 DEF NewFeed
  <2> HIDE DEF a
  <2>3. b \in FeedRec /\ b.inbox = <<>> BY <2>1, FeedParts
  <2> HIDE DEF b
  <2>4. c \in FeedRec /\ c.inbox = <<>> BY <2>3, FeedParts
  <2> HIDE DEF c
  <2>5. d \in FeedRec /\ d.inbox = <<>> BY <2>4, FeedParts
  <2> QED BY <2>2, <2>5
<1>3. ASSUME NEW c \in FeedRec PROVE Closed(c) \in FeedRec /\ Closed(c).inbox \in {c.inbox, <<>>}
  <2>1. CASE c.st = "open" BY <1>1, <2>1 DEF Closed
  <2>2. CASE c.st # "open"
    <3> DEFINE d == [c EXCEPT !.wired = 0]
    <3>1. d \in FeedRec /\ d.inbox = c.inbox
      <4>1. 0 \in 0..MaxViews OBVIOUS
      <4> QED BY <4>1, FeedParts
    <3>2. Closed(c) = [d EXCEPT !.closed = TRUE] BY <2>2 DEF Closed, FeedRec
    <3> HIDE DEF d
    <3>3. [d EXCEPT !.closed = TRUE] \in FeedRec BY <3>1, FeedParts
    <3>4. [d EXCEPT !.closed = TRUE].inbox = d.inbox BY <3>1 DEF FeedRec
    <3> QED BY <3>1, <3>2, <3>3, <3>4
  <2> QED BY <2>1, <2>2
<1> QED BY <1>1, <1>2, <1>3

LEMMA SendParts ==
    ASSUME NEW c \in SendRec
    PROVE  /\ c.pc \in {"none", "wait", "sent", "failed", "left"} /\ c.asked \in Asks
           /\ c.stored \in Asks /\ c.at \in 0..(MaxViews + 1)
BY DEF SendRec

LEMMA SetPc ==
    ASSUME NEW c \in SendRec, NEW x \in {"none", "wait", "sent", "failed", "left"}
    PROVE  /\ [c EXCEPT !.pc = x] \in SendRec /\ [c EXCEPT !.pc = x].pc = x
           /\ [c EXCEPT !.pc = x].asked = c.asked
BY DEF SendRec

LEMMA SetAsked ==
    ASSUME NEW c \in SendRec, NEW x \in Asks
    PROVE  /\ [c EXCEPT !.asked = x] \in SendRec /\ [c EXCEPT !.asked = x].pc = c.pc
           /\ [c EXCEPT !.asked = x].asked = x
BY DEF SendRec

LEMMA SetStored ==
    ASSUME NEW c \in SendRec, NEW x \in Asks
    PROVE  [c EXCEPT !.stored = x] \in SendRec /\ [c EXCEPT !.stored = x].pc = c.pc
BY DEF SendRec

LEMMA SetAt ==
    ASSUME NEW c \in SendRec, NEW x \in 0..(MaxViews + 1)
    PROVE  [c EXCEPT !.at = x] \in SendRec /\ [c EXCEPT !.at = x].pc = c.pc
BY DEF SendRec


LEMMA TypeInit == Init => TypeInv
<1> SUFFICES ASSUME Init PROVE TypeInv OBVIOUS
<1> USE RoomViewAssumption DEF RoomViewAssumption
<1>1. log \in Seq(Author) /\ Len(log) = History BY DEF Init, Author
<1>2. feed \in [Feed -> FeedRec] /\ \A f \in Feed : feed[f].inbox = <<>>
  <2>1. [NoFeed EXCEPT !.st = "open"] \in FeedRec /\ [NoFeed EXCEPT !.st = "open"].inbox = <<>>
    BY FeedMade, FeedParts
  <2> QED BY <2>1, FeedMade DEF Init
<1>3. NoSend \in SendRec /\ NoSend.asked = {} BY DEF SendRec, NoSend, Asks
<1>4. send \in [Sent -> SendRec] /\ \A k \in Sent : send[k].asked = {} BY <1>3 DEF Init
<1>5. load \in LoadRec /\ load.page = <<>> /\ older \in OlderRec /\ older.page = <<>> /\ older.pc = "idle"
  BY DEF Init, NoLoad, NoOlder, LoadRec, OlderRec
<1>6. view \in ViewRec /\ view.n = 0 BY DEF Init, ViewRec
<1>a. Flags BY DEF Init, Flags
<1>b. data \in Seq(Entry) /\ tiles \in Seq(Entry) BY DEF Init
<1>c. ws \in Feed /\ troubles \in 0..MaxTroubles /\ minId \in 0..MaxLog BY DEF Init, Feed
<1>7. Typed
  <2>1. untold = {} /\ opening = {} /\ Len(log) <= MaxLog BY <1>1 DEF Init
  <2> QED BY <1>1, <1>2, <1>4, <1>5, <1>6, <1>b, <1>c, <2>1 DEF Typed
<1>8. Places BY <1>1, <1>2, <1>4, <1>5, <1>6 DEF Init, Places, Within, Run
<1> QED BY <1>a, <1>7, <1>8 DEF TypeInv

\* A message of the log that is shown is an entry of the lists.
LEMMA ShownEntry ==
    ASSUME TypeInv, NEW n \in Id, n <= Len(log), NEW via \in {"page", "frame"}
    PROVE  /\ Shown(n, via) \in Entry /\ TextOf(n) \in {"theirs", "mine"} \X (Id \union Sent)
           /\ log[n] \in Author
<1>1. log[n] \in Author BY DEF TypeInv, Typed, Id
<1>2. log[n] # 0 => log[n] \in Sent BY <1>1, RoomViewAssumption DEF Sent, Author, RoomViewAssumption
<1>3. TextOf(n) \in {"theirs", "mine"} \X (Id \union Sent) BY <1>2 DEF TextOf
<1> QED BY <1>1, <1>3 DEF Shown, Entry, Id

LEMMA PageShown ==
    ASSUME TypeInv, NEW page \in Seq(Id), Within(page)
    PROVE  /\ AsPage(page) \in Seq(Entry) /\ Len(AsPage(page)) = Len(page)
           /\ \A i \in 1..Len(page) : AsPage(page)[i] = Shown(page[i], "page")
BY AsPageFacts, RoomViewAssumption DEF TypeInv, Typed, RoomViewAssumption

\* Steps that put in the lists what fits and leave the log and the requests alone.
LEMMA ListsType ==
    ASSUME TypeInv, data' \in Seq(Entry), tiles' \in Seq(Entry), opening' \subseteq DOMAIN log,
           UNCHANGED <<sealed, personal, member, log, untold, view, load, older, minId, send, feed, ws,
                       troubles, parted, prompt>>
    PROVE  TypeInv'
<1>1. Flags' BY DEF TypeInv, Flags
<1>2. Typed' BY DEF TypeInv, Typed
<1>3. Places' BY DEF TypeInv, Places, Within, Run
<1> QED BY <1>1, <1>2, <1>3 DEF TypeInv

LEMMA EnterType == TypeInv /\ Enter => TypeInv'
<1> SUFFICES ASSUME TypeInv, Enter PROVE TypeInv' OBVIOUS
<1> DEFINE v == view.n + 1
<1>1. view \in ViewRec /\ ws \in Feed /\ ws <= view.n + 1
      /\ feed \in [Feed -> FeedRec] /\ view.n < MaxViews
  BY DEF TypeInv, Typed, Places, Enter
<1>2. v \in 0..MaxViews /\ view' \in ViewRec /\ view'.n = v
  <2>1. view.n \in 0..MaxViews BY <1>1 DEF ViewRec
  <2>2. v \in 0..MaxViews BY <1>1, <2>1, RoomViewAssumption DEF RoomViewAssumption
  <2>3. view' = [n |-> v, open |-> TRUE] BY DEF Enter
  <2> QED BY <2>2, <2>3 DEF ViewRec
<1>3. ws + 1 \in Feed BY <1>1, <1>2, RoomViewAssumption DEF Feed, RoomViewAssumption, ViewRec
<1>6. feed' \in [Feed -> FeedRec] /\ \A f \in Feed : feed'[f].inbox \in {feed[f].inbox, <<>>}
  <2>1. CASE feed[ws].room
    <3>1. feed' = [feed EXCEPT ![ws].wired = v] BY <2>1 DEF Enter
    <3>2. feed' = [feed EXCEPT ![ws] = [feed[ws] EXCEPT !.wired = v]] BY <3>1
    <3>3. [feed[ws] EXCEPT !.wired = v] \in FeedRec
          /\ [feed[ws] EXCEPT !.wired = v].inbox = feed[ws].inbox
      <4> HIDE DEF v
      <4>1. feed[ws] \in FeedRec BY <1>1
      <4> QED BY <1>2, <4>1, FeedParts
    <3> QED BY <1>1, <3>2, <3>3
  <2>2. CASE ~feed[ws].room
    <3>1. feed' = [feed EXCEPT ![ws] = Closed(@), ![ws + 1] = NewFeed(v)]
      BY <2>2 DEF Enter
    <3>2. \A f \in Feed : feed'[f] = IF f = ws + 1 THEN NewFeed(v)
                                     ELSE IF f = ws THEN Closed(feed[ws]) ELSE feed[f]
      BY <1>1, <1>3, <3>1 DEF Feed
    <3>3. \A f \in Feed : feed'[f] \in FeedRec BY <1>1, <1>2, <3>2, FeedMade
    <3>4. feed' \in [Feed -> FeedRec] BY <1>1, <3>1, <3>3
    <3> QED BY <1>1, <1>2, <3>2, <3>4, FeedMade
  <2> QED BY <2>1, <2>2
<1>7. ws' \in Feed /\ ws' <= view'.n + 1 BY <1>1, <1>2, <1>3 DEF Enter, Feed, ViewRec
<1>8. /\ load' \in LoadRec /\ load'.page = <<>>
      /\ older' \in OlderRec /\ older'.page = <<>> /\ older'.pc = "idle"
  BY DEF Enter, NoOlder, LoadRec, OlderRec
<1>a. Flags' BY DEF TypeInv, Flags, Enter
<1>9. Typed' BY <1>2, <1>6, <1>7, <1>8, RoomViewAssumption DEF TypeInv, Typed, Enter, RoomViewAssumption
<1>10. \A f \in Feed : Within(feed[f].inbox)'
  BY <1>6 DEF TypeInv, Places, Within, Enter
<1>11. Places'
  BY <1>7, <1>8, <1>10, RoomViewAssumption
    DEF TypeInv, Typed, Places, Within, Run, Enter, RoomViewAssumption
<1> QED BY <1>a, <1>9, <1>11 DEF TypeInv

LEMMA LeaveType == TypeInv /\ (GoBack \/ GoSettings) => TypeInv'
<1> SUFFICES ASSUME TypeInv, GoBack \/ GoSettings PROVE TypeInv' OBVIOUS
<1>1. Gone BY DEF GoBack, GoSettings
<1>2. feed' \in [Feed -> FeedRec] /\ \A f \in Feed : feed'[f].inbox = feed[f].inbox
  <2>1. feed \in [Feed -> FeedRec] /\ ws \in Feed BY DEF TypeInv, Typed
  <2>2. CASE UNCHANGED feed BY <2>1, <2>2
  <2>3. CASE GoBack
    <3> DEFINE c == [feed[ws] EXCEPT !.wired = 0]
               d == [c EXCEPT !.room = FALSE]
    <3>1. c \in FeedRec /\ c.inbox = feed[ws].inbox
      <4>1. 0 \in 0..MaxViews BY RoomViewAssumption DEF RoomViewAssumption
      <4> QED BY <2>1, <4>1, FeedParts
    <3>2. d \in FeedRec /\ d.inbox = c.inbox
      <4> HIDE DEF c
      <4> QED BY <3>1, FeedParts
    <3>3. feed' = [feed EXCEPT ![ws] = d] BY <2>1, <2>3 DEF GoBack
    <3> HIDE DEF c, d
    <3> QED BY <2>1, <3>1, <3>2, <3>3
  <2> QED BY <2>2, <2>3 DEF GoSettings
<1>3. send' \in [Sent -> SendRec]
      /\ \A k \in Sent : send'[k].asked = send[k].asked /\ (send'[k].pc = "none" => send[k].pc = "none")
  <2>1. send \in [Sent -> SendRec] BY DEF TypeInv, Typed
  <2>2. \A k \in Sent : [send[k] EXCEPT !.pc = "left"] \in SendRec
           /\ [send[k] EXCEPT !.pc = "left"].asked = send[k].asked
           /\ [send[k] EXCEPT !.pc = "left"].pc = "left"
    <3> TAKE k \in Sent
    <3>1. send[k] \in SendRec BY <2>1
    <3> QED BY <3>1, SetPc
  <2> QED BY <1>1, <2>1, <2>2 DEF Gone
<1>4. view' \in ViewRec /\ view'.n = view.n BY <1>1 DEF Gone, TypeInv, Typed, ViewRec
<1>5. /\ load' \in LoadRec /\ load'.page = <<>>
      /\ older' \in OlderRec /\ older'.page = <<>> /\ older'.pc = "idle"
  BY <1>1 DEF Gone, NoOlder, NoLoad, LoadRec, OlderRec
<1>a. Flags' BY <1>1 DEF TypeInv, Flags, Gone
<1>6. Typed'
  BY <1>1, <1>2, <1>3, <1>4, <1>5, RoomViewAssumption DEF TypeInv, Typed, Gone, RoomViewAssumption
<1>7. \A f \in Feed : Within(feed[f].inbox)' BY <1>1, <1>2 DEF TypeInv, Places, Within, Gone
<1>8. Places'
  BY <1>1, <1>3, <1>4, <1>5, <1>7, RoomViewAssumption
    DEF TypeInv, Typed, Places, Within, Run, Gone, RoomViewAssumption
<1> QED BY <1>a, <1>6, <1>8 DEF TypeInv

-----------------------------------------------------------------------------
(* Which steps keep to the types.                                           *)

\* Steps of sends, frames and connections that leave the log alone.
LEMMA TrafficType ==
    ASSUME TypeInv, Flags', UNCHANGED <<log, view, load, older, minId, ws>>,
           untold' \subseteq untold, opening' \subseteq DOMAIN log,
           data' \in Seq(Entry), tiles' \in Seq(Entry), troubles' \in 0..MaxTroubles,
           send' \in [Sent -> SendRec],
           \A k \in Sent : send'[k].pc = "none" => send'[k].asked = {},
           feed' \in [Feed -> FeedRec], \A f \in Feed : Within(feed'[f].inbox)
    PROVE  TypeInv'
<1>1. Typed' BY DEF TypeInv, Typed
<1>2. Places' BY DEF TypeInv, Places, Within, Run
<1> QED BY <1>1, <1>2 DEF TypeInv

\* Steps of the loads of pages.
LEMMA LoadsType ==
    ASSUME TypeInv, Flags', UNCHANGED <<log, untold, view, opening, send, feed, ws>>,
           load' \in LoadRec, Within(load'.page), Run(load'.page),
           older' \in OlderRec, Within(older'.page), Run(older'.page),
           minId' \in 0..MaxLog, minId' <= Len(log), older'.pc # "idle" => minId' # 0,
           data' \in Seq(Entry), tiles' \in Seq(Entry), troubles' \in 0..MaxTroubles
    PROVE  TypeInv'
<1>1. Typed' BY DEF TypeInv, Typed
<1>2. Places' BY DEF TypeInv, Places, Within, Run
<1> QED BY <1>1, <1>2 DEF TypeInv

\* Steps that store a message.
LEMMA StoredType ==
    ASSUME TypeInv, NEW x \in Author, Len(log) < MaxLog, log' = Append(log, x),
           untold' = untold \union {Len(log) + 1},
           UNCHANGED <<sealed, personal, member, view, load, older, minId, data, tiles, opening, ws,
                       troubles, parted, prompt>>,
           send' \in [Sent -> SendRec],
           \A k \in Sent : send'[k].pc = "none" => send'[k].asked = {},
           feed' \in [Feed -> FeedRec], \A f \in Feed : feed'[f].inbox = feed[f].inbox
    PROVE  TypeInv'
<1>1. log \in Seq(Author) /\ Len(log) \in Nat /\ MaxLog \in Nat
  BY RoomViewAssumption DEF TypeInv, Typed, RoomViewAssumption
<1>2. /\ log' \in Seq(Author) /\ Len(log') = Len(log) + 1
      /\ DOMAIN log = 1..Len(log) /\ DOMAIN log' = 1..(Len(log) + 1)
  BY <1>1
<1>3. Flags' BY DEF TypeInv, Flags
<1>4. Typed'
  <2>1. untold' \subseteq DOMAIN log' /\ opening' \subseteq DOMAIN log'
    BY <1>1, <1>2 DEF TypeInv, Typed
  <2>2. Len(log') <= MaxLog BY <1>1, <1>2
  <2> QED BY <1>2, <2>1, <2>2 DEF TypeInv, Typed
<1>5. ASSUME NEW s \in Seq(Id), Within(s) PROVE Within(s)'
  BY <1>1, <1>2, <1>5 DEF Within, Id
<1>6. \A f \in Feed : Within(feed[f].inbox)'
  <2> TAKE f \in Feed
  <2>1. feed[f].inbox \in Seq(Id) BY FeedParts DEF TypeInv, Typed
  <2>2. Within(feed[f].inbox) BY DEF TypeInv, Places
  <2>3. feed'[f].inbox = feed[f].inbox OBVIOUS
  <2>4. \A i \in DOMAIN feed[f].inbox : feed[f].inbox[i] <= Len(log')
    BY <1>1, <1>2, <2>1, <2>2 DEF Within, Id
  <2> QED BY <2>3, <2>4 DEF Within
<1>7. Within(load.page)' /\ Within(older.page)' /\ minId' <= Len(log')
  <2>1. load.page \in Seq(Id) /\ older.page \in Seq(Id) /\ minId \in Nat /\ minId <= Len(log)
    BY RoomViewAssumption DEF TypeInv, Typed, Places, LoadRec, OlderRec, RoomViewAssumption
  <2> QED BY <1>1, <1>2, <2>1 DEF TypeInv, Places, Within, Id
<1>8. Places' BY <1>6, <1>7 DEF TypeInv, Places, Run
<1> QED BY <1>3, <1>4, <1>8 DEF TypeInv

LEMMA TroubleType ==
    ASSUME TypeInv, Trouble \/ troubles' = troubles
    PROVE  troubles' \in 0..MaxTroubles
BY RoomViewAssumption DEF TypeInv, Typed, Trouble, RoomViewAssumption

LEMMA EmptyFacts == <<>> \in Seq(Id) /\ Within(<<>>) /\ Run(<<>>) /\ EmptyPage = <<>>
BY DEF Within, Run, EmptyPage

LEMMA Answer ==
    ASSUME NEW x \in Seq(Id)
    PROVE  LET a == [pc |-> "show", page |-> x] IN a \in LoadRec /\ a \in OlderRec /\ a.page = x
BY DEF LoadRec, OlderRec

LEMMA PagesOk ==
    ASSUME TypeInv, NEW b \in Nat \ {0}
    PROVE  Page(b) \in Seq(Id) /\ Within(Page(b)) /\ Run(Page(b))
BY PageFacts, RoomViewAssumption DEF TypeInv, Typed

LEMMA JoinType == TypeInv /\ Join => TypeInv'
<1> SUFFICES ASSUME TypeInv, Join PROVE TypeInv' OBVIOUS
<1>1. Flags' BY DEF Join, TypeInv, Flags
<1>2. load' \in LoadRec /\ load'.page = load.page BY DEF Join, TypeInv, Typed, LoadRec
<1>3. troubles' \in 0..MaxTroubles BY TroubleType DEF Join
<1>4. minId \in 0..MaxLog /\ minId <= Len(log) /\ older \in OlderRec
      /\ data \in Seq(Entry) /\ tiles \in Seq(Entry) BY DEF TypeInv, Typed, Places
<1>5. Within(load.page) /\ Run(load.page) /\ Within(older.page) /\ Run(older.page)
      /\ (older.pc # "idle" => minId # 0)
  BY DEF TypeInv, Places
<1> QED BY <1>1, <1>2, <1>3, <1>4, <1>5, LoadsType DEF Join

LEMMA ReadFirstType == TypeInv /\ ReadFirst => TypeInv'
<1> SUFFICES ASSUME TypeInv, ReadFirst PROVE TypeInv' OBVIOUS
<1>1. Flags' BY DEF ReadFirst, TypeInv, Flags
<1>2. MaxLog + 1 \in Nat \ {0} BY RoomViewAssumption DEF RoomViewAssumption
<1>3. load' \in LoadRec /\ Within(load'.page) /\ Run(load'.page)
  <2>1. load' = [pc |-> "show", page |-> Page(MaxLog + 1)]
        \/ load' = [pc |-> "show", page |-> EmptyPage] BY DEF ReadFirst
  <2>2. Page(MaxLog + 1) \in Seq(Id) /\ Within(Page(MaxLog + 1)) /\ Run(Page(MaxLog + 1))
    BY <1>2, PagesOk
  <2> QED BY <2>1, <2>2, Answer, EmptyFacts
<1>4. troubles' \in 0..MaxTroubles BY TroubleType DEF ReadFirst
<1>5. minId \in 0..MaxLog /\ minId <= Len(log) /\ older \in OlderRec
      /\ data \in Seq(Entry) /\ tiles \in Seq(Entry) BY DEF TypeInv, Typed, Places
<1>6. Within(older.page) /\ Run(older.page) /\ (older.pc # "idle" => minId # 0)
  BY DEF TypeInv, Places
<1> QED BY <1>1, <1>3, <1>4, <1>5, <1>6, LoadsType DEF ReadFirst

LEMMA ReadOlderType == TypeInv /\ (LoadOlder \/ ReadOlder) => TypeInv'
<1> SUFFICES ASSUME TypeInv, LoadOlder \/ ReadOlder PROVE TypeInv' OBVIOUS
<1>1. Flags' BY DEF LoadOlder, ReadOlder, TypeInv, Flags
<1>2. minId # 0 BY DEF LoadOlder, ReadOlder, TypeInv, Places
<1>3. minId \in 0..MaxLog /\ minId <= Len(log) /\ load \in LoadRec /\ older \in OlderRec
      /\ data \in Seq(Entry) /\ tiles \in Seq(Entry) BY DEF TypeInv, Typed, Places
<1>4. older' \in OlderRec /\ Within(older'.page) /\ Run(older'.page)
  <2>1. CASE LoadOlder
    <3>1. older' = [older EXCEPT !.pc = "ask"] BY <2>1 DEF LoadOlder
    <3>2. Within(older.page) /\ Run(older.page) BY DEF TypeInv, Places
    <3> QED BY <1>3, <3>1, <3>2 DEF OlderRec
  <2>2. CASE ReadOlder
    <3>1. older' = [pc |-> "show", page |-> Page(minId)]
          \/ older' = [pc |-> "show", page |-> EmptyPage] BY <2>2 DEF ReadOlder
    <3>2. minId \in Nat \ {0} BY <1>2, <1>3, RoomViewAssumption DEF RoomViewAssumption
    <3>3. Page(minId) \in Seq(Id) /\ Within(Page(minId)) /\ Run(Page(minId))
      BY <3>2, PagesOk
    <3> QED BY <3>1, <3>3, Answer, EmptyFacts
  <2> QED BY <2>1, <2>2
<1>5. troubles' \in 0..MaxTroubles BY TroubleType DEF LoadOlder, ReadOlder
<1>6. Within(load.page) /\ Run(load.page) BY DEF TypeInv, Places
<1>7. UNCHANGED <<log, untold, view, opening, send, feed, ws, load, minId, data, tiles>>
  BY DEF LoadOlder, ReadOlder
<1> QED BY <1>1, <1>2, <1>3, <1>4, <1>5, <1>6, <1>7, LoadsType

LEMMA HeadIn ==
    ASSUME NEW page \in Seq(Id), page # <<>>, Within(page)
    PROVE  Head(page) \in Id /\ Head(page) = page[1] /\ Head(page) <= Len(log)
BY DEF Within

LEMMA ShowFirstType == TypeInv /\ ShowFirst => TypeInv'
<1> SUFFICES ASSUME TypeInv, ShowFirst PROVE TypeInv' OBVIOUS
<1>1. Flags'
  <2>1. parted' \in BOOLEAN BY DEF ShowFirst, TypeInv, Flags
  <2> QED BY <2>1 DEF ShowFirst, TypeInv, Flags
<1>2. minId \in 0..MaxLog /\ minId <= Len(log) /\ load \in LoadRec /\ older \in OlderRec
      /\ data \in Seq(Entry) /\ tiles \in Seq(Entry) BY DEF TypeInv, Typed, Places
<1>3. load' \in LoadRec /\ load'.page = load.page BY <1>2 DEF ShowFirst, LoadRec, NoLoad
<1>4. Within(load.page) /\ Run(load.page) /\ Within(older.page) /\ Run(older.page)
      /\ load.page \in Seq(Id) /\ (older.pc # "idle" => minId # 0)
  BY <1>2 DEF TypeInv, Places, LoadRec
<1>5. AsPage(load.page) \in Seq(Entry) BY <1>4, PageShown
<1>6. minId' \in 0..MaxLog /\ minId' <= Len(log) /\ (older.pc # "idle" => minId' # 0)
      /\ data' \in Seq(Entry) /\ tiles' \in Seq(Entry)
  <2>1. CASE load.page = EmptyPage BY <1>2, <1>4, <2>1 DEF ShowFirst
  <2>2. CASE load.page # EmptyPage
    <3>1. Head(load.page) \in Id /\ Head(load.page) <= Len(log) BY <1>4, <2>2, HeadIn, EmptyFacts
    <3>2. minId' = Head(load.page) /\ data' = AsPage(load.page) /\ tiles' = tiles \o AsPage(load.page)
      BY <2>2 DEF ShowFirst
    <3>3. tiles' \in Seq(Entry) BY <1>2, <1>5, <3>2
    <3> QED BY <1>5, <3>1, <3>2, <3>3 DEF Id
  <2> QED BY <2>1, <2>2
<1>7. troubles' \in 0..MaxTroubles BY TroubleType DEF ShowFirst
<1> QED BY <1>1, <1>2, <1>3, <1>4, <1>6, <1>7, LoadsType DEF ShowFirst

LEMMA ShowOlderType == TypeInv /\ ShowOlder => TypeInv'
<1> SUFFICES ASSUME TypeInv, ShowOlder PROVE TypeInv' OBVIOUS
<1>1. Flags' BY DEF ShowOlder, TypeInv, Flags
<1>2. minId \in 0..MaxLog /\ minId <= Len(log) /\ load \in LoadRec /\ older \in OlderRec
      /\ data \in Seq(Entry) /\ tiles \in Seq(Entry) BY DEF TypeInv, Typed, Places
<1>3. older' \in OlderRec /\ older'.page = <<>> /\ older'.pc = "idle"
  BY DEF ShowOlder, OlderRec, NoOlder
<1>4. Within(load.page) /\ Run(load.page) /\ Within(older.page) /\ older.page \in Seq(Id)
  BY <1>2 DEF TypeInv, Places, OlderRec
<1>5. AsPage(older.page) \in Seq(Entry) BY <1>4, PageShown
<1>6. minId' \in 0..MaxLog /\ minId' <= Len(log)
      /\ data' \in Seq(Entry) /\ tiles' \in Seq(Entry)
  <2>1. CASE older.page = EmptyPage BY <1>2, <2>1 DEF ShowOlder
  <2>2. CASE older.page # EmptyPage
    <3>1. Head(older.page) \in Id /\ Head(older.page) <= Len(log) BY <1>4, <2>2, HeadIn, EmptyFacts
    <3>2. minId' = Head(older.page) /\ data' = AsPage(older.page) \o data
          /\ tiles' = AsPage(older.page) \o tiles
      BY <2>2 DEF ShowOlder
    <3>3. data' \in Seq(Entry) /\ tiles' \in Seq(Entry) BY <1>2, <1>5, <3>2
    <3> QED BY <3>1, <3>2, <3>3 DEF Id
  <2> QED BY <2>1, <2>2
<1>7. troubles' \in 0..MaxTroubles BY TroubleType DEF ShowOlder
<1>8. Within(<<>>) /\ Run(<<>>) BY EmptyFacts
<1> QED BY <1>1, <1>2, <1>3, <1>4, <1>6, <1>7, <1>8, LoadsType DEF ShowOlder

LEMMA TextOk ==
    ASSUME TypeInv, NEW i \in DOMAIN data, NEW e \in Entry
    PROVE  [e EXCEPT !.text = data[i].text] \in Entry
<1>1. data[i] \in Entry BY DEF TypeInv, Typed
<1> QED BY <1>1 DEF Entry

LEMMA AppendType ==
    ASSUME TypeInv, NEW e \in Entry, Append2(e)
    PROVE  data' \in Seq(Entry) /\ tiles' \in Seq(Entry)
BY DEF TypeInv, Typed, Append2

\* A set of numbers that is not empty has a smallest one.
LEMMA MinFacts ==
    ASSUME NEW M \in SUBSET Nat, M # {}
    PROVE  Min(M) \in M /\ \A y \in M : Min(M) <= y
<1> DEFINE R == {ss \in Nat \X Nat : ss[1] < ss[2]}
<1>1. IsWellFoundedOn(R, Nat) BY NatLessThanWellFounded DEF OpToRel
<1> HIDE DEF R
<1>2. PICK x \in M : \A y \in M : ~(<<y, x>> \in R) BY <1>1, WFMin
<1>3. ASSUME NEW y \in M PROVE x <= y
  <2>1. <<y, x>> \in Nat \X Nat OBVIOUS
  <2>2. ~(<<y, x>>[1] < <<y, x>>[2]) BY <1>2, <2>1 DEF R
  <2> QED BY <2>2
<1> QED BY <1>3 DEF Min

\* The first entry an echo may replace.
LEMMA MatchFacts ==
    ASSUME TypeInv, NEW n, Matches(n) # {}
    PROVE  Min(Matches(n)) \in Matches(n) /\ Min(Matches(n)) \in DOMAIN data
<1>1. Matches(n) \subseteq DOMAIN data BY DEF Matches
<1>2. DOMAIN data = 1..Len(data) /\ Len(data) \in Nat BY DEF TypeInv, Typed
<1>3. Matches(n) \subseteq Nat BY <1>1, <1>2
<1> QED BY <1>1, <1>3, MinFacts

\* Replacing an entry.
LEMMA Replaced ==
    ASSUME NEW S, NEW s \in Seq(S), NEW i, NEW e \in S
    PROVE  [s EXCEPT ![i] = e] \in Seq(S) /\ Len([s EXCEPT ![i] = e]) = Len(s)
<1> DEFINE t == [s EXCEPT ![i] = e]
<1>1. s \in [1..Len(s) -> S] /\ Len(s) \in Nat OBVIOUS
<1>2. t \in [1..Len(s) -> S] BY <1>1
<1> HIDE DEF t
<1>3. t \in Seq(S) /\ Len(t) = Len(s) BY <1>1, <1>2
<1> QED BY <1>3 DEF t

LEMMA EchoType ==
    ASSUME TypeInv, NEW n \in Id, n <= Len(log), ShowEcho(n)
    PROVE  data' \in Seq(Entry) /\ tiles' \in Seq(Entry)
<1>1. Shown(n, "frame") \in Entry BY ShownEntry
<1>2. CASE Matches(n) = {} BY <1>1, <1>2, AppendType DEF ShowEcho
<1>3. CASE Matches(n) # {}
  <2> DEFINE i == Min(Matches(n))
             e == IF sealed THEN [Shown(n, "frame") EXCEPT !.text = data[i].text]
                            ELSE Shown(n, "frame")
  <2>1. i \in DOMAIN data BY <1>3, MatchFacts
  <2>2. e \in Entry BY <1>1, <2>1, TextOk
  <2>3. data' = [data EXCEPT ![i] = e] /\ tiles' = [tiles EXCEPT ![i] = e]
    BY <1>3 DEF ShowEcho
  <2> HIDE DEF i, e
  <2>4. data \in Seq(Entry) /\ tiles \in Seq(Entry) BY DEF TypeInv, Typed
  <2> QED BY <2>2, <2>3, <2>4, Replaced
<1> QED BY <1>2, <1>3

LEMMA ReceiveType == ASSUME TypeInv, NEW f \in Feed, Receive(f) PROVE TypeInv'
<1> DEFINE n == Head(feed[f].inbox)
<1>1. Flags' BY DEF Receive, TypeInv, Flags
<1>2. feed \in [Feed -> FeedRec] /\ feed[f] \in FeedRec BY DEF TypeInv, Typed
<1>3. feed[f].inbox \in Seq(Id) /\ feed[f].inbox # <<>> /\ Within(feed[f].inbox)
  BY <1>2, FeedParts DEF Receive, TypeInv, Places
<1>4. n \in Id /\ n <= Len(log) BY <1>3, HeadIn
<1>5. feed' \in [Feed -> FeedRec] /\ \A g \in Feed : Within(feed'[g].inbox)
  <2>1. Tail(feed[f].inbox) \in Seq(Id) BY <1>3
  <2>2. Within(Tail(feed[f].inbox)) BY <1>3 DEF Within
  <2>3. feed' = [feed EXCEPT ![f] = NoFeed]
        \/ feed' = [feed EXCEPT ![f] = [feed[f] EXCEPT !.inbox = Tail(feed[f].inbox)]]
    BY <1>2 DEF Receive
  <2> DEFINE c == [feed[f] EXCEPT !.inbox = Tail(feed[f].inbox)]
  <2>4. c \in FeedRec /\ c.inbox = Tail(feed[f].inbox) BY <1>2, <2>1, FeedParts
  <2> HIDE DEF c
  <2>5. feed' \in [Feed -> FeedRec] BY <1>2, <2>3, <2>4, FeedMade DEF c
  <2>6. ASSUME NEW g \in Feed PROVE Within(feed'[g].inbox)
    <3>1. Within(feed[g].inbox) /\ Within(<<>>) BY EmptyFacts DEF TypeInv, Places
    <3>2. feed'[g] \in {NoFeed, c, feed[g]} /\ (feed'[g] = c \/ feed'[g] = NoFeed \/ feed'[g] = feed[g])
      BY <1>2, <2>3 DEF c
    <3>3. CASE feed'[g] = NoFeed BY <3>1, <3>3, FeedMade
    <3>4. CASE feed'[g] = c BY <2>2, <2>4, <3>4
    <3> QED BY <3>1, <3>2, <3>3, <3>4
  <2> QED BY <2>5, <2>6
<1>6. data' \in Seq(Entry) /\ tiles' \in Seq(Entry) /\ opening' \subseteq DOMAIN log
  <2>1. data \in Seq(Entry) /\ tiles \in Seq(Entry) /\ opening \subseteq DOMAIN log
        /\ DOMAIN log = 1..Len(log)
    BY DEF TypeInv, Typed
  <2>2. CASE UNCHANGED <<data, tiles, opening>> BY <2>1, <2>2
  <2>3. CASE ShowEcho(n) /\ UNCHANGED opening BY <1>4, <2>1, <2>3, EchoType
  <2>4. CASE opening' = opening \union {n} /\ UNCHANGED <<data, tiles>>
    BY <1>4, <2>1, <2>4 DEF Id
  <2>5. CASE Append2(Shown(n, "frame")) /\ UNCHANGED opening
    BY <1>4, <2>1, <2>5, ShownEntry, AppendType
  <2> QED BY <2>2, <2>3, <2>4, <2>5 DEF Receive
<1>7. send' \in [Sent -> SendRec] /\ \A k \in Sent : send'[k].pc = "none" => send'[k].asked = {}
  BY DEF Receive, TypeInv, Typed, Places
<1>8. troubles' \in 0..MaxTroubles BY TroubleType DEF Receive
<1>9. UNCHANGED <<log, view, load, older, minId, ws, untold>> BY DEF Receive
<1> QED BY <1>1, <1>5, <1>6, <1>7, <1>8, <1>9, TrafficType

LEMMA OpenType == ASSUME TypeInv, NEW n \in Id, Open(n) PROVE TypeInv'
<1>1. n <= Len(log) BY DEF Open, TypeInv, Typed
<1>2. data' \in Seq(Entry) /\ tiles' \in Seq(Entry) BY <1>1, ShownEntry, AppendType DEF Open
<1>3. opening' \subseteq DOMAIN log BY DEF Open, TypeInv, Typed
<1> QED BY <1>2, <1>3, ListsType DEF Open

\* What connections and the server do to a client's connection.
LEMMA LinesType ==
    ASSUME TypeInv, Flags', UNCHANGED <<log, view, load, older, minId, ws, data, tiles, opening>>,
           untold' \subseteq untold, Trouble \/ troubles' = troubles,
           send' \in [Sent -> SendRec],
           \A k \in Sent : send'[k].pc = "none" => send'[k].asked = {},
           feed' \in [Feed -> FeedRec], \A f \in Feed : Within(feed'[f].inbox)
    PROVE  TypeInv'
<1>1. data' \in Seq(Entry) /\ tiles' \in Seq(Entry) /\ opening' \subseteq DOMAIN log
  BY DEF TypeInv, Typed
<1>2. troubles' \in 0..MaxTroubles BY TroubleType
<1> QED BY <1>1, <1>2, TrafficType

LEMMA ConnectType == ASSUME TypeInv, NEW f \in Feed, Connect(f) PROVE TypeInv'
<1>1. Flags' BY DEF Connect, TypeInv, Flags
<1>2. feed \in [Feed -> FeedRec] /\ feed[f] \in FeedRec BY DEF TypeInv, Typed
<1>3. feed' \in [Feed -> FeedRec] /\ \A g \in Feed : feed'[g].inbox = feed[g].inbox
  <2> DEFINE a == [feed[f] EXCEPT !.st = "open"]
             b == [a EXCEPT !.heard = feed[f].heard /\ member]
  <2>1. a \in FeedRec /\ a.inbox = feed[f].inbox BY <1>2, FeedParts
  <2>2. (feed[f].heard /\ member) \in BOOLEAN OBVIOUS
  <2>3. feed' = [feed EXCEPT ![f] = b] BY <1>2 DEF Connect
  <2> HIDE DEF a
  <2>4. b \in FeedRec /\ b.inbox = a.inbox BY <2>1, <2>2, FeedParts
  <2> HIDE DEF b
  <2> QED BY <1>2, <2>1, <2>3, <2>4
<1>4. \A g \in Feed : Within(feed'[g].inbox) BY <1>3 DEF TypeInv, Places, Within
<1>5. send' \in [Sent -> SendRec] /\ \A k \in Sent : send'[k].pc = "none" => send'[k].asked = {}
  BY DEF Connect, TypeInv, Typed, Places
<1> QED BY <1>1, <1>3, <1>4, <1>5, LinesType DEF Connect

LEMMA DropType == ASSUME TypeInv, NEW f \in Feed, Drop(f) PROVE TypeInv'
<1>1. Flags'
  <2>1. prompt' \in BOOLEAN BY DEF Drop
  <2> QED BY <2>1 DEF Drop, TypeInv, Flags
<1>2. feed \in [Feed -> FeedRec] /\ feed[f] \in FeedRec BY DEF TypeInv, Typed
<1>3. feed' \in [Feed -> FeedRec] /\ \A g \in Feed : feed'[g].inbox \in {feed[g].inbox, <<>>}
  <2> DEFINE a == [feed[f] EXCEPT !.st = "connecting"]
             b == [a EXCEPT !.heard = feed[f].room]
             c == [b EXCEPT !.inbox = <<>>]
  <2>1. a \in FeedRec BY <1>2, FeedParts
  <2>2. feed[f].room \in BOOLEAN BY <1>2, FeedParts
  <2>3. feed' = [feed EXCEPT ![f] = NoFeed] \/ feed' = [feed EXCEPT ![f] = c] BY <1>2 DEF Drop
  <2> HIDE DEF a
  <2>4. b \in FeedRec BY <2>1, <2>2, FeedParts
  <2> HIDE DEF b
  <2>5. c \in FeedRec /\ c.inbox = <<>> BY <2>4, FeedParts, EmptyFacts
  <2> HIDE DEF c
  <2> QED BY <1>2, <2>3, <2>5, FeedMade
<1>4. \A g \in Feed : Within(feed'[g].inbox) BY <1>3, EmptyFacts DEF TypeInv, Places
<1>5. send' \in [Sent -> SendRec] /\ \A k \in Sent : send'[k].pc = "none" => send'[k].asked = {}
  <2>1. send \in [Sent -> SendRec] BY DEF TypeInv, Typed
  <2>2. \A k \in Sent : [send[k] EXCEPT !.asked = {}] \in SendRec
          /\ [send[k] EXCEPT !.asked = {}].asked = {}
    <3> TAKE k \in Sent
    <3>1. send[k] \in SendRec BY <2>1
    <3>2. {} \in Asks BY DEF Asks
    <3> QED BY <3>1, <3>2, SetAsked
  <2> QED BY <2>1, <2>2 DEF Drop, Unsent, TypeInv, Places
<1> QED BY <1>1, <1>3, <1>4, <1>5, LinesType DEF Drop

LEMMA TellType == ASSUME TypeInv, NEW n \in Id, Tell(n) PROVE TypeInv'
<1>1. Flags' BY DEF Tell, TypeInv, Flags
<1>2. feed \in [Feed -> FeedRec] /\ n <= Len(log) BY DEF TypeInv, Typed, Tell
<1>3. feed' \in [Feed -> FeedRec] /\ \A g \in Feed : Within(feed'[g].inbox)
  <2>1. ASSUME NEW g \in Feed
        PROVE  LET c == [feed[g] EXCEPT !.inbox = Append(@, n)]
               IN  c \in FeedRec /\ Within(c.inbox)
    <3>1. feed[g] \in FeedRec /\ feed[g].inbox \in Seq(Id) /\ Within(feed[g].inbox)
      BY <1>2, FeedParts DEF TypeInv, Places
    <3>2. Append(feed[g].inbox, n) \in Seq(Id) BY <3>1
    <3>3. Within(Append(feed[g].inbox, n)) BY <1>2, <3>1 DEF Within
    <3> QED BY <3>1, <3>2, <3>3, FeedParts
  <2>2. \A g \in Feed : Within(feed[g].inbox) BY DEF TypeInv, Places
  <2> QED BY <1>2, <2>1, <2>2 DEF Tell, Hears
<1>4. send' \in [Sent -> SendRec] /\ \A k \in Sent : send'[k].pc = "none" => send'[k].asked = {}
  BY DEF Tell, TypeInv, Typed, Places
<1> QED BY <1>1, <1>3, <1>4, LinesType DEF Tell

LEMMA PostType == TypeInv /\ Post => TypeInv'
<1> SUFFICES ASSUME TypeInv, Post PROVE TypeInv' OBVIOUS
<1>1. 0 \in Author BY RoomViewAssumption DEF Author, RoomViewAssumption
<1>2. send \in [Sent -> SendRec] /\ feed \in [Feed -> FeedRec]
      /\ \A k \in Sent : send[k].pc = "none" => send[k].asked = {}
  BY DEF TypeInv, Typed, Places
<1> QED BY <1>1, <1>2, StoredType DEF Post

LEMMA SendType == ASSUME TypeInv, NEW k \in Sent, Send(k) PROVE TypeInv'
<1>1. Flags' BY DEF Send, TypeInv, Flags
<1>2. send \in [Sent -> SendRec] /\ feed \in [Feed -> FeedRec] /\ send[k] \in SendRec
      /\ ws \in 0..(MaxViews + 1)
  BY DEF TypeInv, Typed, Feed
<1>3. Optimistic(k) \in Entry BY RoomViewAssumption DEF Optimistic, Entry, RoomViewAssumption
<1>4. data' \in Seq(Entry) /\ tiles' \in Seq(Entry) BY <1>3, AppendType DEF Send
<1>5. send' \in [Sent -> SendRec] /\ \A j \in Sent : send'[j].pc = "none" => send'[j].asked = {}
  <2> DEFINE a == [send[k] EXCEPT !.pc = "wait"]
             b == [a EXCEPT !.asked = {1}]
             c == [send[k] EXCEPT !.pc = "sent"]
             d == [c EXCEPT !.asked = {1}]
             e == [d EXCEPT !.at = ws]
  <2>1. {1} \in Asks BY RoomViewAssumption DEF RoomViewAssumption, Asks
  <2>2. a \in SendRec /\ a.pc = "wait" /\ c \in SendRec /\ c.pc = "sent"
    BY <1>2, SetPc
  <2>3. send' = [send EXCEPT ![k] = b] \/ send' = [send EXCEPT ![k] = e]
        \/ send' = [send EXCEPT ![k] = c]
    <3>1. CASE sealed BY <1>2, <3>1 DEF Send
    <3>2. CASE ~sealed /\ feed[ws].st = "open" BY <1>2, <3>2 DEF Send
    <3>3. CASE ~sealed /\ feed[ws].st # "open" BY <1>2, <3>3 DEF Send
    <3> QED BY <3>1, <3>2, <3>3
  <2> HIDE DEF a, c
  <2>a. b \in SendRec /\ b.pc = a.pc BY <2>1, <2>2, SetAsked
  <2>b. d \in SendRec /\ d.pc = c.pc BY <2>1, <2>2, SetAsked
  <2>4. b \in SendRec /\ b.pc = a.pc /\ d \in SendRec /\ d.pc = c.pc BY <2>a, <2>b
  <2> HIDE DEF b, d
  <2>5. e \in SendRec /\ e.pc = d.pc
    <3>1. e \in SendRec BY <1>2, <2>4, SetAt
    <3>2. e.pc = d.pc BY <2>4 DEF SendRec
    <3> QED BY <3>1, <3>2
  <2> HIDE DEF e
  <2>6. \A j \in Sent : send[j].pc = "none" => send[j].asked = {} BY DEF TypeInv, Places
  <2> QED BY <1>2, <2>2, <2>3, <2>4, <2>5, <2>6
<1>6. opening' \subseteq DOMAIN log /\ troubles' \in 0..MaxTroubles
  BY TroubleType DEF Send, TypeInv, Typed
<1>7. \A f \in Feed : Within(feed[f].inbox) BY DEF TypeInv, Places
<1> QED BY <1>1, <1>2, <1>4, <1>5, <1>6, <1>7, TrafficType DEF Send

LEMMA StoreType == ASSUME TypeInv, NEW k \in Sent, Store(k) PROVE TypeInv'
<1>1. send \in [Sent -> SendRec] /\ feed \in [Feed -> FeedRec] /\ send[k] \in SendRec
      /\ \A j \in Sent : send[j].pc = "none" => send[j].asked = {}
  BY DEF TypeInv, Typed, Places
<1>2. PICK r \in send[k].asked :
        /\ send' = [send EXCEPT ![k].asked = @ \ {r}, ![k].stored = @ \union {r}]
        /\ IF member /\ Len(log) < MaxLog
              THEN /\ log' = Append(log, k)
                   /\ untold' = untold \union {Len(log) + 1}
              ELSE ~member /\ UNCHANGED <<log, untold>>
  BY DEF Store
<1>3. send' \in [Sent -> SendRec] /\ \A j \in Sent : send'[j].pc = "none" => send'[j].asked = {}
  <2> DEFINE rest == send[k].asked \ {r}
             all  == send[k].stored \union {r}
             a == [send[k] EXCEPT !.asked = rest]
             b == [a EXCEPT !.stored = all]
  <2>1. send[k].asked \in Asks BY <1>1, SendParts
  <2>2. rest \in Asks /\ all \in Asks
    <3>1. send[k].stored \in Asks BY <1>1, SendParts
    <3> QED BY <1>2, <2>1, <3>1 DEF Asks
  <2>3. send' = [send EXCEPT ![k] = b] BY <1>1, <1>2
  <2> HIDE DEF rest, all
  <2>4. a \in SendRec /\ a.pc = send[k].pc
    <3>1. a \in SendRec BY <1>1, <2>2, SetAsked
    <3>2. a.pc = send[k].pc BY <1>1 DEF SendRec
    <3> QED BY <3>1, <3>2
  <2> HIDE DEF a
  <2>5. b \in SendRec /\ b.pc = a.pc
    <3>1. b \in SendRec BY <2>2, <2>4, SetStored
    <3>2. b.pc = a.pc BY <2>4 DEF SendRec
    <3> QED BY <3>1, <3>2
  <2> HIDE DEF b
  <2>6. send[k].pc # "none" BY <1>1, <1>2
  <2> QED BY <1>1, <2>3, <2>4, <2>5, <2>6
<1>4. feed' \in [Feed -> FeedRec] /\ \A f \in Feed : feed'[f].inbox = feed[f].inbox
  <2>1. CASE sealed BY <1>1, <2>1 DEF Store
  <2>2. CASE ~sealed
    <3> DEFINE s == send[k].at
               h == feed[s].heard \/ (member /\ feed[s].st = "open")
               c == [feed[s] EXCEPT !.heard = h]
    <3>1. feed' = [feed EXCEPT ![s] = c] BY <2>2 DEF Store
    <3>2. CASE s \in Feed
      <4>1. feed[s] \in FeedRec /\ h \in BOOLEAN BY <1>1, <3>2
      <4> HIDE DEF h
      <4>2. c \in FeedRec /\ c.inbox = feed[s].inbox BY <4>1, FeedParts
      <4> HIDE DEF c
      <4> QED BY <1>1, <3>1, <3>2, <4>2
    <3>3. CASE s \notin Feed
      <4> HIDE DEF c, s
      <4> QED BY <1>1, <3>1, <3>3
    <3> QED BY <3>2, <3>3
  <2> QED BY <2>1, <2>2
<1>5. CASE member /\ Len(log) < MaxLog
  <2>1. k \in Author BY RoomViewAssumption DEF Sent, Author, RoomViewAssumption
  <2> QED BY <1>2, <1>3, <1>4, <1>5, <2>1, StoredType DEF Store
<1>6. CASE UNCHANGED <<log, untold>>
  <2>1. Flags' BY DEF Store, TypeInv, Flags
  <2>2. \A f \in Feed : Within(feed'[f].inbox) BY <1>4 DEF TypeInv, Places, Within
  <2> QED BY <1>3, <1>4, <1>6, <2>1, <2>2, LinesType DEF Store
<1> QED BY <1>2, <1>5, <1>6

LEMMA TriesFacts ==
    ASSUME TypeInv, NEW k \in Sent
    PROVE  Tries(k) \in Nat
<1>1. send[k].asked \union send[k].stored \subseteq 1..MaxTries
  BY SendParts DEF TypeInv, Typed, Asks
<1>2. IsFiniteSet(1..MaxTries)
  BY FS_Interval, RoomViewAssumption DEF RoomViewAssumption
<1>3. IsFiniteSet(send[k].asked \union send[k].stored) BY <1>1, <1>2, FS_Subset
<1> QED BY <1>3, FS_CardinalityType DEF Tries

LEMMA AnsweredType ==
    ASSUME TypeInv, NEW k \in Sent, Answered(k) \/ TryAgain(k) \/ GiveUp(k)
    PROVE  TypeInv'
<1>1. send \in [Sent -> SendRec] /\ feed \in [Feed -> FeedRec] /\ send[k] \in SendRec
      /\ \A j \in Sent : send[j].pc = "none" => send[j].asked = {}
  BY DEF TypeInv, Typed, Places
<1>2. Flags' BY DEF Answered, TryAgain, GiveUp, TypeInv, Flags
<1>3. send' \in [Sent -> SendRec] /\ \A j \in Sent : send'[j].pc = "none" => send'[j].asked = {}
  <2> DEFINE more == send[k].asked \union {Tries(k) + 1}
             less == send[k].asked \ {Tries(k)}
             a == [send[k] EXCEPT !.pc = "sent"]
             b == [send[k] EXCEPT !.asked = more]
             c == [send[k] EXCEPT !.pc = "failed"]
             d == [c EXCEPT !.asked = less]
  <2>1. TryAgain(k) => more \in Asks
    <3> SUFFICES ASSUME TryAgain(k) PROVE more \in Asks OBVIOUS
    <3>1. Tries(k) + 1 \in 1..MaxTries
      BY TriesFacts, RoomViewAssumption DEF TryAgain, RoomViewAssumption
    <3>2. send[k].asked \in Asks BY <1>1, SendParts
    <3> QED BY <3>1, <3>2 DEF Asks
  <2>2. less \in Asks
    <3>1. send[k].asked \in Asks BY <1>1, SendParts
    <3> QED BY <3>1 DEF Asks
  <2>3. send[k].pc = "wait" BY DEF Answered, TryAgain, GiveUp
  <2>4. \/ send' = [send EXCEPT ![k] = a] \/ send' = [send EXCEPT ![k] = c]
        \/ send' = [send EXCEPT ![k] = d]
        \/ (TryAgain(k) /\ send' = [send EXCEPT ![k] = b])
    <3>1. c.asked = send[k].asked BY <1>1 DEF SendRec
    <3> HIDE DEF more
    <3> QED BY <1>1, <3>1 DEF Answered, TryAgain, GiveUp, more
  <2> HIDE DEF more, less
  <2>5. a \in SendRec /\ a.pc = "sent" /\ c \in SendRec /\ c.pc = "failed"
    BY <1>1, SetPc
  <2>6. TryAgain(k) => b \in SendRec /\ b.pc = "wait"
    <3> SUFFICES ASSUME TryAgain(k) PROVE b \in SendRec /\ b.pc = "wait" OBVIOUS
    <3>1. b \in SendRec /\ b.pc = send[k].pc BY <1>1, <2>1, SetAsked
    <3> QED BY <2>3, <3>1
  <2> HIDE DEF a, b, c
  <2>7. d \in SendRec /\ d.pc = "failed" BY <2>2, <2>5, SetAsked
  <2> HIDE DEF d
  <2> QED BY <1>1, <2>4, <2>5, <2>6, <2>7
<1>4. data' \in Seq(Entry) /\ tiles' \in Seq(Entry)
  <2>1. data \in Seq(Entry) /\ tiles \in Seq(Entry) BY DEF TypeInv, Typed
  <2>2. CASE UNCHANGED <<data, tiles>> BY <2>1, <2>2
  <2>3. CASE data # <<>> /\ data' = Front(data) /\ tiles' = Front(tiles)
    <3>1. \A s \in Seq(Entry) : Front(s) \in Seq(Entry)
      <4> TAKE s \in Seq(Entry)
      <4>1. \A i \in 1..(Len(s) - 1) : s[i] \in Entry OBVIOUS
      <4> QED BY <4>1, SubSeqProperties DEF Front
    <3> QED BY <2>1, <2>3, <3>1
  <2> QED BY <2>2, <2>3 DEF Answered, TryAgain, GiveUp, TakeBack
<1>5. opening' \subseteq DOMAIN log BY DEF Answered, TryAgain, GiveUp, TypeInv, Typed
<1>6. troubles' \in 0..MaxTroubles BY TroubleType DEF Answered, TryAgain, GiveUp
<1>7. \A f \in Feed : Within(feed[f].inbox) BY DEF TypeInv, Places
<1>8. UNCHANGED <<log, view, load, older, minId, ws, untold, feed>> BY DEF Answered, TryAgain, GiveUp
<1> QED BY <1>1, <1>2, <1>3, <1>4, <1>5, <1>6, <1>7, <1>8, TrafficType

LEMMA TypeNext == TypeInv /\ [Next]_vars => TypeInv'
<1> SUFFICES ASSUME TypeInv, [Next]_vars PROVE TypeInv' OBVIOUS
<1>1. CASE UNCHANGED vars
  BY <1>1 DEF vars, TypeInv, Flags, Typed, Places, Within, Run
<1>2. CASE Enter \/ GoBack \/ GoSettings BY <1>2, EnterType, LeaveType
<1>3. CASE Join \/ ReadFirst \/ ShowFirst BY <1>3, JoinType, ReadFirstType, ShowFirstType
<1>4. CASE LoadOlder \/ ReadOlder \/ ShowOlder BY <1>4, ReadOlderType, ShowOlderType
<1>5. CASE Post BY <1>5, PostType
<1>6. ASSUME NEW n \in Id, Open(n) \/ Tell(n) PROVE TypeInv' BY <1>6, OpenType, TellType
<1>7. ASSUME NEW f \in Feed, Receive(f) \/ Connect(f) \/ Drop(f) PROVE TypeInv'
  BY <1>7, ReceiveType, ConnectType, DropType
<1>8. ASSUME NEW k \in Sent, Send(k) \/ Store(k) \/ Answered(k) \/ TryAgain(k) \/ GiveUp(k)
      PROVE  TypeInv'
  BY <1>8, SendType, StoreType, AnsweredType
<1> QED BY <1>1, <1>2, <1>3, <1>4, <1>5, <1>6, <1>7, <1>8 DEF Next

-----------------------------------------------------------------------------
\* Every variable of the view, its loads, its sends and the WebSocket clients keeps to its
\* type (room_view.py, ws_client.py), for any number of messages, sends and openings.
THEOREM RoomViewTypes == Spec => []TypeOK
<1>1. TypeInv => TypeOK BY TypedIs DEF TypeInv
<1> QED BY <1>1, TypeInit, TypeNext, PTL DEF Spec

-----------------------------------------------------------------------------
(* The WebSocket clients.                                                   *)

\* The connections whose clients are closed, or were never opened.
Idle(c) == c.st = "off" \/ c.closed

LEMMA WiresInit == Init => Wires
BY RoomViewAssumption DEF Init, Wires, NoFeed, Feed, RoomViewAssumption

\* Steps that leave the clients alone but for what they have been sent.
LEMMA WiresKept ==
    ASSUME TypeInv, Wires, UNCHANGED ws,
           view' = view \/ (~view'.open /\ view'.n = view.n),
           \A f \in Feed : feed'[f].st = feed[f].st /\ feed'[f].closed = feed[f].closed,
           view'.open => feed'[ws].wired = feed[ws].wired
    PROVE  Wires'
BY DEF TypeInv, Typed, Wires

LEMMA WiresNext == TypeInv /\ Wires /\ [Next]_vars => Wires'
<1> SUFFICES ASSUME TypeInv, Wires, [Next]_vars PROVE Wires' OBVIOUS
<1>1. feed \in [Feed -> FeedRec] /\ ws \in Feed /\ view \in ViewRec BY DEF TypeInv, Typed
<1>2. CASE UNCHANGED <<view, feed, ws>> BY <1>2 DEF Wires
<1>3. CASE Enter
  <2> DEFINE v == view.n + 1
  <2>1. view' = [n |-> v, open |-> TRUE] BY <1>3 DEF Enter
  <2>2. CASE feed[ws].room
    <3>1. feed' = [feed EXCEPT ![ws].wired = v] /\ ws' = ws BY <1>3, <2>2 DEF Enter
    <3>2. \A f \in Feed : feed'[f].st = feed[f].st /\ feed'[f].closed = feed[f].closed
      BY <1>1, <3>1 DEF FeedRec
    <3>3. feed'[ws].wired = v BY <1>1, <3>1 DEF FeedRec
    <3> QED BY <1>1, <2>1, <3>1, <3>2, <3>3 DEF Wires
  <2>3. CASE ~feed[ws].room
    <3>1. feed' = [feed EXCEPT ![ws] = Closed(@), ![ws + 1] = NewFeed(v)] /\ ws' = ws + 1
      BY <1>3, <2>3 DEF Enter
    <3>2. ws + 1 \in Feed /\ ws + 1 # ws
      <4>1. view.n < MaxViews /\ ws <= view.n + 1 /\ view.n \in Nat
        BY <1>1, <1>3 DEF Enter, TypeInv, Places, ViewRec
      <4> QED BY <1>1, <4>1, RoomViewAssumption DEF Feed, RoomViewAssumption
    <3>3. \A f \in Feed : feed'[f] = IF f = ws + 1 THEN NewFeed(v)
                                     ELSE IF f = ws THEN Closed(feed[ws]) ELSE feed[f]
      BY <1>1, <3>1, <3>2
    <3>4. ~NewFeed(v).closed /\ NewFeed(v).wired = v BY DEF NewFeed, NoFeed
    <3>5. Idle(Closed(feed[ws]))
      <4>1. CASE feed[ws].st = "open" BY <4>1 DEF Closed, NoFeed, Idle
      <4>2. CASE feed[ws].st # "open"
        <5>1. Closed(feed[ws]) = [feed[ws] EXCEPT !.wired = 0, !.closed = TRUE]
          BY <4>2 DEF Closed
        <5>2. Closed(feed[ws]).closed BY <1>1, <5>1 DEF FeedRec
        <5> QED BY <5>2 DEF Idle
      <4> QED BY <4>1, <4>2
    <3> QED BY <1>1, <2>1, <3>1, <3>2, <3>3, <3>4, <3>5 DEF Wires, Idle
  <2> QED BY <2>2, <2>3
<1>4. CASE GoBack \/ GoSettings
  <2>1. UNCHANGED ws /\ ~view'.open /\ view'.n = view.n
    BY <1>1, <1>4 DEF GoBack, GoSettings, Gone, ViewRec
  <2>2. \A f \in Feed : feed'[f].st = feed[f].st /\ feed'[f].closed = feed[f].closed
    <3>1. CASE UNCHANGED feed BY <3>1
    <3>2. CASE GoBack
      <4> DEFINE c == [feed[ws] EXCEPT !.wired = 0, !.room = FALSE]
      <4>1. feed' = [feed EXCEPT ![ws] = c] BY <1>1, <3>2 DEF GoBack
      <4>2. c.st = feed[ws].st /\ c.closed = feed[ws].closed BY <1>1 DEF FeedRec
      <4> HIDE DEF c
      <4> QED BY <1>1, <4>1, <4>2
    <3> QED BY <1>4, <3>1, <3>2 DEF GoSettings
  <2> QED BY <2>1, <2>2, WiresKept
<1>5. ASSUME NEW f \in Feed, Receive(f) PROVE Wires'
  <2>1. CASE feed[f].closed
    <3>1. feed' = [feed EXCEPT ![f] = NoFeed] /\ UNCHANGED <<view, ws>> BY <1>5, <2>1 DEF Receive
    <3>2. f # ws BY <2>1 DEF Wires
    <3>3. NoFeed.st = "off" BY DEF NoFeed
    <3> QED BY <1>1, <3>1, <3>2, <3>3 DEF Wires
  <2>2. CASE ~feed[f].closed
    <3>1. feed' = [feed EXCEPT ![f].inbox = Tail(@)] /\ UNCHANGED <<view, ws>>
      BY <1>5, <2>2 DEF Receive
    <3>2. \A g \in Feed : /\ feed'[g].st = feed[g].st /\ feed'[g].closed = feed[g].closed
                          /\ feed'[g].wired = feed[g].wired
      BY <1>1, <3>1 DEF FeedRec
    <3> QED BY <1>1, <3>1, <3>2, WiresKept
  <2> QED BY <2>1, <2>2
<1>6. ASSUME NEW f \in Feed, Connect(f) PROVE Wires'
  <2>1. feed[f].st = "connecting" /\ UNCHANGED <<view, ws>>
        /\ feed' = [feed EXCEPT ![f].st = "open", ![f].heard = @ /\ member]
    BY <1>6 DEF Connect
  <2>2. \A g \in Feed : /\ feed'[g].closed = feed[g].closed /\ feed'[g].wired = feed[g].wired
                        /\ g # f => feed'[g] = feed[g]
    BY <1>1, <2>1 DEF FeedRec
  <2>3. ASSUME NEW g \in Feed, g # ws PROVE feed'[g].st = "off" \/ feed'[g].closed
    BY <2>1, <2>2, <2>3 DEF Wires
  <2> QED BY <1>1, <2>1, <2>2, <2>3 DEF Wires
<1>7. ASSUME NEW f \in Feed, Drop(f) PROVE Wires'
  <2>1. UNCHANGED <<view, ws>> /\ feed[f].st # "off" BY <1>7 DEF Drop
  <2>2. CASE feed[f].closed
    <3>1. feed' = [feed EXCEPT ![f] = NoFeed] BY <1>1, <1>7, <2>2 DEF Drop
    <3>2. f # ws BY <2>2 DEF Wires
    <3>3. NoFeed.st = "off" BY DEF NoFeed
    <3> QED BY <1>1, <2>1, <3>1, <3>2, <3>3 DEF Wires
  <2>3. CASE ~feed[f].closed
    <3>1. f = ws BY <2>1, <2>3 DEF Wires
    <3> DEFINE c == [feed[f] EXCEPT !.st = "connecting", !.heard = feed[f].room, !.inbox = <<>>]
    <3>2. feed' = [feed EXCEPT ![f] = c] BY <1>1, <1>7, <2>3 DEF Drop
    <3>3. c.closed = feed[f].closed /\ c.wired = feed[f].wired BY <1>1 DEF FeedRec
    <3> HIDE DEF c
    <3> QED BY <1>1, <2>1, <3>1, <3>2, <3>3 DEF Wires
  <2> QED BY <2>2, <2>3
<1>8. ASSUME NEW n \in Id, Tell(n) PROVE Wires'
  <2>1. \A g \in Feed : /\ feed'[g].st = feed[g].st /\ feed'[g].closed = feed[g].closed
                        /\ feed'[g].wired = feed[g].wired
    BY <1>1, <1>8 DEF Tell, Hears, FeedRec
  <2> QED BY <1>1, <1>8, <2>1, WiresKept DEF Tell
<1>9. ASSUME NEW k \in Sent, Store(k) PROVE Wires'
  <2>1. UNCHANGED <<view, ws>> BY <1>9 DEF Store
  <2>2. UNCHANGED feed \/ \E h : feed' = [feed EXCEPT ![send[k].at].heard = h]
    BY <1>9 DEF Store
  <2>3. \A g \in Feed : /\ feed'[g].st = feed[g].st /\ feed'[g].closed = feed[g].closed
                        /\ feed'[g].wired = feed[g].wired
    <3>1. CASE UNCHANGED feed BY <3>1
    <3>2. ASSUME NEW h, feed' = [feed EXCEPT ![send[k].at].heard = h]
          PROVE  \A g \in Feed : /\ feed'[g].st = feed[g].st /\ feed'[g].closed = feed[g].closed
                                 /\ feed'[g].wired = feed[g].wired
      BY <1>1, <3>2 DEF FeedRec
    <3> QED BY <2>2, <3>1, <3>2
  <2> QED BY <1>1, <2>1, <2>3, WiresKept
<1> QED
  <2>1. CASE UNCHANGED vars BY <1>2, <2>1 DEF vars
  <2>2. CASE Join \/ ReadFirst \/ ShowFirst \/ LoadOlder \/ ReadOlder \/ ShowOlder \/ Post
    BY <1>2, <2>2 DEF Join, ReadFirst, ShowFirst, LoadOlder, ReadOlder, ShowOlder, Post
  <2>3. ASSUME NEW n \in Id, Open(n) PROVE Wires' BY <1>2, <2>3 DEF Open
  <2>4. ASSUME NEW k \in Sent, Send(k) \/ Answered(k) \/ TryAgain(k) \/ GiveUp(k) PROVE Wires'
    BY <1>2, <2>4 DEF Send, Answered, TryAgain, GiveUp
  <2> QED BY <1>3, <1>4, <1>5, <1>6, <1>7, <1>8, <1>9, <2>1, <2>2, <2>3, <2>4 DEF Next

\* Of all WebSocket clients that were made one at most dispatches, also when one is closed
\* before it is connected (ws_client.py close, _loop; room_view.py _start_ws).
THEOREM OneClientDispatches == Spec => []OneFeed
<1>1. TypeInv /\ Wires => OneFeed
  <2> SUFFICES ASSUME TypeInv, Wires PROVE OneFeed OBVIOUS
  <2>1. {f \in Feed : feed[f].st # "off" /\ ~feed[f].closed} \subseteq {ws} BY DEF Wires
  <2>2. IsFiniteSet({ws}) /\ Cardinality({ws}) = 1 BY FS_Singleton
  <2>3. Cardinality({f \in Feed : feed[f].st # "off" /\ ~feed[f].closed}) <= Cardinality({ws})
    BY <2>1, <2>2, FS_Subset
  <2> QED BY <2>2, <2>3 DEF OneFeed
<1>2. Init => TypeInv /\ Wires BY TypeInit, WiresInit
<1>3. TypeInv /\ Wires /\ [Next]_vars => (TypeInv /\ Wires)' BY TypeNext, WiresNext
<1> QED BY <1>1, <1>2, <1>3, PTL DEF Spec

-----------------------------------------------------------------------------
(* The two lists.                                                           *)

LEMMA ListsInit == Init => Lists
BY DEF Init, Lists, ListsAgree

LEMMA ListsAppend ==
    ASSUME TypeInv, Lists, NEW e \in Entry, Append2(e), parted' = parted,
           IsOptimistic(e) => IsMine(e)
    PROVE  Lists'
<1>1. data \in Seq(Entry) /\ tiles \in Seq(Entry) BY DEF TypeInv, Typed
<1>2. data' = Append(data, e) /\ tiles' = Append(tiles, e) BY DEF Append2
<1>3. ListsAgree' BY <1>1, <1>2 DEF Lists, ListsAgree
<1>4. ASSUME NEW i \in DOMAIN data', IsOptimistic(data'[i]) PROVE IsMine(tiles'[Across(i)'])
  <2>1. Len(data') = Len(data) + 1 /\ Len(tiles') = Len(tiles) + 1
        /\ Len(data) \in Nat /\ Len(tiles) \in Nat /\ Len(data) <= Len(tiles)
    BY <1>1, <1>2 DEF Lists, ListsAgree
  <2>2. Across(i)' = i + (Len(tiles) - Len(data)) BY <2>1, <1>4, <1>1, <1>2 DEF Across
  <2>3. CASE i = Len(data) + 1
    <3>1. tiles'[Len(tiles) + 1] = e /\ data'[i] = e BY <1>1, <1>2, <2>3
    <3>2. Across(i)' = Len(tiles) + 1 BY <2>1, <2>2, <2>3
    <3> QED BY <1>4, <3>1, <3>2
  <2>4. CASE i # Len(data) + 1
    <3>1. i \in 1..Len(data) /\ data'[i] = data[i] BY <1>1, <1>2, <1>4, <2>1, <2>4
    <3>2. Across(i)' \in 1..Len(tiles) /\ Across(i)' = Across(i)
      BY <2>1, <2>2, <3>1 DEF Across
    <3>3. tiles'[Across(i)'] = tiles[Across(i)] BY <1>1, <1>2, <3>2
    <3>4. i \in DOMAIN data BY <1>1, <3>1
    <3> QED BY <1>4, <3>1, <3>3, <3>4 DEF Lists
  <2> QED BY <2>3, <2>4
<1> QED BY <1>3, <1>4 DEF Lists

LEMMA ListsEcho ==
    ASSUME TypeInv, Lists, NEW n \in Id, n <= Len(log), log[n] # 0, ShowEcho(n), parted' = parted
    PROVE  Lists'
<1>1. data \in Seq(Entry) /\ tiles \in Seq(Entry) BY DEF TypeInv, Typed
<1>2. Shown(n, "frame") \in Entry BY ShownEntry
<1>3. CASE Matches(n) = {}
  <2>1. Append2(Shown(n, "frame")) BY <1>3 DEF ShowEcho
  <2>2. ~IsOptimistic(Shown(n, "frame")) BY DEF IsOptimistic, Shown
  <2> QED BY <1>2, <2>1, <2>2, ListsAppend
<1>4. CASE Matches(n) # {}
  <2> DEFINE i == Min(Matches(n))
             s == Shown(n, "frame")
             e == IF sealed THEN [s EXCEPT !.text = data[i].text] ELSE s
  <2>1. i \in DOMAIN data /\ i \in Matches(n) BY <1>4, MatchFacts
  <2>2. data' = [data EXCEPT ![i] = e] /\ tiles' = [tiles EXCEPT ![i] = e]
    BY <1>4 DEF ShowEcho
  <2>3. e \in Entry BY <1>2, <2>1, TextOk
  <2>4. e.via = "frame" BY DEF Shown
  <2>5. e = s \/ sealed OBVIOUS
  <2> HIDE DEF e
  <2>a. i \in Nat \ {0} /\ i <= Len(data) BY <1>1, <2>1
  <2>b. i \in DOMAIN tiles
    <3>1. Len(data) <= Len(tiles) /\ Len(data) \in Nat /\ Len(tiles) \in Nat
      BY <1>1 DEF Lists, ListsAgree
    <3> HIDE DEF i
    <3> QED BY <1>1, <2>a, <3>1
  <2>6. data' \in Seq(Entry) /\ tiles' \in Seq(Entry) /\ Len(data') = Len(data) /\ Len(tiles') = Len(tiles)
    <3> HIDE DEF i, s
    <3>1. data' \in Seq(Entry) /\ Len(data') = Len(data) BY <1>1, <2>1, <2>2, <2>3
    <3>2. tiles' \in Seq(Entry) /\ Len(tiles') = Len(tiles) BY <1>1, <2>b, <2>2, <2>3
    <3> QED BY <3>1, <3>2
  <2>7. ListsAgree' BY <1>1, <2>2, <2>6 DEF Lists, ListsAgree
  <2>8. ASSUME NEW j \in DOMAIN data', IsOptimistic(data'[j]) PROVE IsMine(tiles'[Across(j)'])
    <3>1. Across(j)' = Across(j) BY <2>6 DEF Across
    <3>2. j # i /\ j \in DOMAIN data /\ data'[j] = data[j]
      BY <1>1, <2>1, <2>2, <2>4, <2>8 DEF IsOptimistic
    <3>3. IsMine(tiles[Across(j)]) BY <2>8, <3>2 DEF Lists
    <3>4. CASE Across(j) # i BY <1>1, <2>2, <3>1, <3>3, <3>4
    <3>5. CASE Across(j) = i
      <4>1. j < i
        <5>1. j \in 1..Len(data) /\ i \in 1..Len(data) /\ Len(data) <= Len(tiles)
              /\ Len(data) \in Nat /\ Len(tiles) \in Nat
          BY <1>1, <2>1, <3>2 DEF Lists, ListsAgree
        <5> QED BY <3>2, <3>5, <5>1 DEF Across
      <4>2. ~sealed
        <5>1. SUFFICES ASSUME sealed PROVE FALSE OBVIOUS
        <5>2. Matches(n) = DOMAIN data BY <5>1 DEF Matches
        <5>3. DOMAIN data = 1..Len(data) /\ j \in 1..Len(data) BY <1>1, <3>2
        <5>4. i <= j BY <1>4, <5>2, <5>3, MinFacts
        <5>5. i \in Nat /\ j \in Nat BY <2>1, <5>3
        <5> HIDE DEF i
        <5> QED BY <4>1, <5>4, <5>5
      <4>3. e = s /\ IsMine(e)
        <5>1. e = s BY <2>5, <4>2
        <5>2. s.text = <<"mine", log[n]>> BY DEF Shown, TextOf
        <5> QED BY <5>1, <5>2 DEF IsMine
      <4>4. Across(j) \in DOMAIN tiles
        <5>1. i \in 1..Len(data) /\ Len(data) <= Len(tiles) /\ Len(tiles) \in Nat /\ Len(data) \in Nat
          BY <1>1, <2>1 DEF Lists, ListsAgree
        <5> QED BY <1>1, <3>5, <5>1
      <4> QED BY <1>1, <2>2, <3>1, <3>5, <4>3, <4>4
    <3> QED BY <3>4, <3>5
  <2> QED BY <2>7, <2>8 DEF Lists
<1> QED BY <1>3, <1>4

LEMMA ListsTakeBack ==
    ASSUME TypeInv, Lists, data # <<>>, IsOptimistic(Last(data)), parted' = parted,
           data' = Front(data), tiles' = Front(tiles)
    PROVE  Lists' /\ IsMine(Last(tiles)) /\ tiles # <<>>
<1>1. data \in Seq(Entry) /\ tiles \in Seq(Entry) BY DEF TypeInv, Typed
<1>2. Len(data) \in Nat \ {0} /\ Len(tiles) \in Nat \ {0} /\ Len(data) <= Len(tiles)
  BY <1>1 DEF Lists, ListsAgree
<1>3. IsMine(Last(tiles)) /\ tiles # <<>>
  <2>1. Len(data) \in DOMAIN data /\ Across(Len(data)) = Len(tiles) BY <1>1, <1>2 DEF Across
  <2> QED BY <1>1, <1>2, <2>1 DEF Last, Lists
<1>4. ASSUME NEW s \in Seq(Entry), s # <<>>
      PROVE  /\ Front(s) \in Seq(Entry) /\ Len(Front(s)) = Len(s) - 1
             /\ \A i \in 1..(Len(s) - 1) : Front(s)[i] = s[i]
  <2> DEFINE m == Len(s) - 1
  <2>1. m \in Nat /\ Len(s) = m + 1 BY <1>4
  <2>2. Front(s) = SubSeq(s, 1, m) BY DEF Front
  <2>3. \A i \in 1..m : s[i] \in Entry BY <1>4, <2>1
  <2> HIDE DEF m
  <2>4. /\ SubSeq(s, 1, m) \in Seq(Entry) /\ Len(SubSeq(s, 1, m)) = m
        /\ \A i \in 1..m : SubSeq(s, 1, m)[i] = s[i]
    BY <1>4, <2>1, <2>3
  <2> QED BY <2>1, <2>2, <2>4
<1>5. /\ data' \in Seq(Entry) /\ Len(data') = Len(data) - 1 /\ \A i \in 1..(Len(data) - 1) : data'[i] = data[i]
      /\ tiles' \in Seq(Entry) /\ Len(tiles') = Len(tiles) - 1
      /\ \A i \in 1..(Len(tiles) - 1) : tiles'[i] = tiles[i]
  BY <1>1, <1>3, <1>4
<1>6. ListsAgree' BY <1>2, <1>5 DEF Lists, ListsAgree
<1>7. ASSUME NEW i \in DOMAIN data', IsOptimistic(data'[i]) PROVE IsMine(tiles'[Across(i)'])
  <2>1. i \in 1..(Len(data) - 1) BY <1>2, <1>5
  <2>2. data'[i] = data[i] /\ i \in DOMAIN data BY <1>1, <1>2, <1>5, <2>1
  <2>3. Across(i)' = Across(i) /\ Across(i) \in 1..(Len(tiles) - 1) BY <1>2, <1>5, <2>1 DEF Across
  <2> QED BY <1>5, <1>7, <2>2, <2>3 DEF Lists
<1> QED BY <1>3, <1>6, <1>7 DEF Lists

\* A page is put before both lists, or replaces the one and is put after the other.
LEMMA ListsPage ==
    ASSUME TypeInv, Lists, NEW page \in Seq(Id), Within(page),
           \/ /\ data' = AsPage(page) \o data /\ tiles' = AsPage(page) \o tiles
              /\ parted' = parted
           \/ /\ data' = AsPage(page) /\ tiles' = tiles \o AsPage(page)
              /\ parted' = (tiles # <<>>)
    PROVE  Lists'
<1> DEFINE p == AsPage(page)
<1>1. data \in Seq(Entry) /\ tiles \in Seq(Entry) BY DEF TypeInv, Typed
<1>2. p \in Seq(Entry) /\ Len(p) = Len(page) /\ \A i \in 1..Len(p) : ~IsOptimistic(p[i])
  <2>1. \A n : ~IsOptimistic(Shown(n, "page")) BY DEF IsOptimistic, Shown
  <2> QED BY <2>1, PageShown
<1> HIDE DEF p
<1>3. Len(p) \in Nat /\ Len(data) \in Nat /\ Len(tiles) \in Nat /\ Len(data) <= Len(tiles)
  BY <1>1, <1>2 DEF Lists, ListsAgree
<1>4. CASE data' = p \o data /\ tiles' = p \o tiles /\ parted' = parted
  <2>1. /\ data' \in Seq(Entry) /\ Len(data') = Len(p) + Len(data)
        /\ tiles' \in Seq(Entry) /\ Len(tiles') = Len(p) + Len(tiles)
        /\ \A i \in 1..(Len(p) + Len(data)) :
              data'[i] = IF i <= Len(p) THEN p[i] ELSE data[i - Len(p)]
        /\ \A i \in 1..(Len(p) + Len(tiles)) :
              tiles'[i] = IF i <= Len(p) THEN p[i] ELSE tiles[i - Len(p)]
    <3>1. p \o data \in Seq(Entry) /\ p \o tiles \in Seq(Entry) BY <1>1, <1>2
    <3>2. /\ Len(p \o data) = Len(p) + Len(data)
          /\ \A i \in 1..(Len(p) + Len(data)) :
                (p \o data)[i] = IF i <= Len(p) THEN p[i] ELSE data[i - Len(p)]
      BY <1>1, <1>2, ConcatProperties
    <3>3. /\ Len(p \o tiles) = Len(p) + Len(tiles)
          /\ \A i \in 1..(Len(p) + Len(tiles)) :
                (p \o tiles)[i] = IF i <= Len(p) THEN p[i] ELSE tiles[i - Len(p)]
      BY <1>1, <1>2, ConcatProperties
    <3> QED BY <1>4, <3>1, <3>2, <3>3
  <2>2. ListsAgree' BY <1>3, <1>4, <2>1 DEF Lists, ListsAgree
  <2>3. ASSUME NEW i \in DOMAIN data', IsOptimistic(data'[i]) PROVE IsMine(tiles'[Across(i)'])
    <3>1. i \in 1..(Len(p) + Len(data)) BY <2>1
    <3>2. ~(i <= Len(p))
      <4>1. i <= Len(p) => i \in 1..Len(p) /\ data'[i] = p[i] BY <1>3, <2>1, <3>1
      <4> QED BY <1>2, <2>3, <4>1
    <3>3. data'[i] = data[i - Len(p)] /\ i - Len(p) \in DOMAIN data
      BY <1>1, <1>3, <2>1, <3>1, <3>2
    <3>4. Across(i)' = Across(i - Len(p)) + Len(p) /\ Across(i)' \in 1..(Len(p) + Len(tiles))
          /\ ~(Across(i)' <= Len(p))
      BY <1>3, <2>1, <3>1, <3>2 DEF Across
    <3>5. tiles'[Across(i)'] = tiles[Across(i)' - Len(p)] BY <2>1, <3>4
    <3>6. Across(i)' - Len(p) = Across(i - Len(p)) BY <1>3, <2>1, <3>1 DEF Across
    <3> QED BY <2>3, <3>3, <3>5, <3>6 DEF Lists
  <2> QED BY <2>2, <2>3 DEF Lists
<1>5. CASE data' = p /\ tiles' = tiles \o p /\ parted' = (tiles # <<>>)
  <2>1. tiles' \in Seq(Entry) /\ Len(tiles') = Len(tiles) + Len(p)
    <3>1. tiles \o p \in Seq(Entry) BY <1>1, <1>2
    <3>2. Len(tiles \o p) = Len(tiles) + Len(p) BY <1>1, <1>2, ConcatProperties
    <3> QED BY <1>5, <3>1, <3>2
  <2>a. <<>> \o p = p BY <1>2, ConcatEmptySeq
  <2>2. ~parted' => tiles' = data'
    <3> SUFFICES ASSUME ~parted' PROVE tiles' = data' OBVIOUS
    <3>1. tiles = <<>> BY <1>5
    <3> QED BY <1>5, <2>a, <3>1
  <2>3. ListsAgree' BY <1>3, <1>5, <2>1, <2>2 DEF ListsAgree
  <2>4. \A i \in DOMAIN data' : ~IsOptimistic(data'[i]) BY <1>2, <1>5
  <2> QED BY <2>3, <2>4 DEF Lists
<1> QED BY <1>4, <1>5 DEF p

LEMMA ListsCleared == data' = <<>> /\ tiles' = <<>> => Lists'
BY DEF Lists, ListsAgree

\* What a frame does to the lists.
LEMMA ReceiveShows ==
    ASSUME TypeInv, NEW f \in Feed, Receive(f)
    PROVE  LET n == Head(feed[f].inbox)
           IN  /\ n \in Id /\ n <= Len(log)
               /\ \/ UNCHANGED <<data, tiles>>
                  \/ log[n] # 0 /\ ShowEcho(n)
                  \/ log[n] = 0 /\ Append2(Shown(n, "frame"))
<1>1. feed[f].inbox \in Seq(Id) /\ feed[f].inbox # <<>> /\ Within(feed[f].inbox)
  BY FeedParts DEF Receive, TypeInv, Typed, Places
<1>2. Head(feed[f].inbox) \in Id /\ Head(feed[f].inbox) <= Len(log) BY <1>1, HeadIn
<1>3. log[Head(feed[f].inbox)] \in Nat
  BY <1>2, ShownEntry, RoomViewAssumption DEF Author, RoomViewAssumption
<1> QED BY <1>2, <1>3 DEF Receive

LEMMA ListsNext == TypeInv /\ Lists /\ [Next]_vars => Lists'
<1> SUFFICES ASSUME TypeInv, Lists, [Next]_vars PROVE Lists' OBVIOUS
<1>1. ASSUME UNCHANGED <<data, tiles, parted>> PROVE Lists'
  BY <1>1 DEF Lists, ListsAgree, Across
<1>2. load.page \in Seq(Id) /\ Within(load.page) /\ older.page \in Seq(Id) /\ Within(older.page)
  BY DEF TypeInv, Typed, Places, LoadRec, OlderRec
<1>3. CASE Enter \/ GoBack \/ GoSettings
  BY <1>3, ListsCleared DEF Enter, GoBack, GoSettings, Gone
<1>4. CASE ShowFirst BY <1>1, <1>2, <1>4, ListsPage DEF ShowFirst
<1>5. CASE ShowOlder BY <1>1, <1>2, <1>5, ListsPage DEF ShowOlder
<1>6. ASSUME NEW f \in Feed, Receive(f) PROVE Lists'
  <2> DEFINE n == Head(feed[f].inbox)
  <2>1. parted' = parted BY <1>6 DEF Receive
  <2>2. n \in Id /\ n <= Len(log) BY <1>6, ReceiveShows
  <2>3. Shown(n, "frame") \in Entry BY <2>2, ShownEntry
  <2>4. ~IsOptimistic(Shown(n, "frame")) BY DEF IsOptimistic, Shown
  <2>5. \/ UNCHANGED <<data, tiles>>
        \/ log[n] # 0 /\ ShowEcho(n)
        \/ Append2(Shown(n, "frame"))
    <3>1. \/ UNCHANGED <<data, tiles>>
          \/ log[n] # 0 /\ ShowEcho(n)
          \/ log[n] = 0 /\ Append2(Shown(n, "frame"))
      BY <1>6, ReceiveShows
    <3> HIDE DEF n
    <3> QED BY <3>1
  <2> HIDE DEF n
  <2> QED BY <1>1, <2>1, <2>2, <2>3, <2>4, <2>5, ListsEcho, ListsAppend
<1>7. ASSUME NEW n \in Id, Open(n) PROVE Lists'
  <2>1. n <= Len(log) BY <1>7 DEF Open, TypeInv, Typed
  <2>2. Shown(n, "frame") \in Entry BY <2>1, ShownEntry
  <2>3. ~IsOptimistic(Shown(n, "frame")) BY DEF IsOptimistic, Shown
  <2> QED BY <1>7, <2>2, <2>3, ListsAppend DEF Open
<1>8. ASSUME NEW k \in Sent, Send(k) PROVE Lists'
  <2>1. Optimistic(k) \in Entry BY RoomViewAssumption DEF Optimistic, Entry, RoomViewAssumption
  <2>2. IsMine(Optimistic(k)) BY DEF IsMine, Optimistic
  <2> QED BY <1>8, <2>1, <2>2, ListsAppend DEF Send
<1>9. ASSUME NEW k \in Sent, GiveUp(k) PROVE Lists'
  BY <1>1, <1>9, ListsTakeBack DEF GiveUp, TakeBack
<1> QED
  <2>1. CASE UNCHANGED vars BY <1>1, <2>1 DEF vars
  <2>2. CASE Join \/ ReadFirst \/ LoadOlder \/ ReadOlder \/ Post
    BY <1>1, <2>2 DEF Join, ReadFirst, LoadOlder, ReadOlder, Post
  <2>3. ASSUME NEW n \in Id, Tell(n) PROVE Lists' BY <1>1, <2>3 DEF Tell
  <2>4. ASSUME NEW f \in Feed, Connect(f) \/ Drop(f) PROVE Lists'
    BY <1>1, <2>4 DEF Connect, Drop
  <2>5. ASSUME NEW k \in Sent, Store(k) \/ Answered(k) \/ TryAgain(k) PROVE Lists'
    BY <1>1, <2>5 DEF Store, Answered, TryAgain
  <2> QED BY <1>3, <1>4, <1>5, <1>6, <1>7, <1>8, <1>9, <2>1, <2>2, <2>3, <2>4, <2>5 DEF Next

\* The view's lists keep in step whatever is sent, received, replaced, taken back and
\* paged (room_view.py _initial_load, _load_older, _on_ws_message, _send_message).
THEOREM ListsKeepInStep == Spec => []ListsAgree
<1>1. Lists => ListsAgree BY DEF Lists
<1>2. Init => TypeInv /\ Lists BY TypeInit, ListsInit
<1>3. TypeInv /\ Lists /\ [Next]_vars => (TypeInv /\ Lists)' BY TypeNext, ListsNext
<1> QED BY <1>1, <1>2, <1>3, PTL DEF Spec

-----------------------------------------------------------------------------
(* What stays on screen.                                                    *)

LEMMA InRange ==
    ASSUME NEW S, NEW s \in Seq(S)
    PROVE  /\ \A i \in DOMAIN s : s[i] \in Range(s)
           /\ \A e \in Range(s) : \E i \in 1..Len(s) : s[i] = e
BY DEF Range

LEMMA RangeAppend ==
    ASSUME NEW S, NEW s \in Seq(S), NEW e \in S
    PROVE  Range(Append(s, e)) = Range(s) \union {e}
<1>1. /\ Append(s, e) \in Seq(S) /\ Len(Append(s, e)) = Len(s) + 1 /\ Len(s) \in Nat
      /\ DOMAIN Append(s, e) = 1..(Len(s) + 1) /\ DOMAIN s = 1..Len(s)
      /\ \A i \in 1..Len(s) : Append(s, e)[i] = s[i]
      /\ Append(s, e)[Len(s) + 1] = e
  OBVIOUS
<1>2. ASSUME NEW x \in Range(Append(s, e)) PROVE x \in Range(s) \union {e}
  <2>1. PICK i \in 1..(Len(s) + 1) : x = Append(s, e)[i] BY <1>1, <1>2 DEF Range
  <2>2. CASE i = Len(s) + 1 BY <1>1, <2>1, <2>2
  <2>3. CASE i # Len(s) + 1
    <3>1. i \in 1..Len(s) BY <1>1, <2>3
    <3> QED BY <1>1, <2>1, <3>1 DEF Range
  <2> QED BY <2>2, <2>3
<1>3. ASSUME NEW x \in Range(s) PROVE x \in Range(Append(s, e))
  <2>1. PICK i \in 1..Len(s) : x = s[i] BY <1>1, <1>3 DEF Range
  <2>2. i \in 1..(Len(s) + 1) /\ Append(s, e)[i] = x BY <1>1, <2>1
  <2> QED BY <1>1, <2>2 DEF Range
<1>4. e \in Range(Append(s, e))
  <2>1. Len(s) + 1 \in 1..(Len(s) + 1) BY <1>1
  <2> QED BY <1>1, <2>1 DEF Range
<1> QED BY <1>2, <1>3, <1>4

LEMMA RangeConcat ==
    ASSUME NEW S, NEW s \in Seq(S), NEW t \in Seq(S)
    PROVE  Range(s \o t) = Range(s) \union Range(t)
<1>1. /\ s \o t \in Seq(S) /\ Len(s) \in Nat /\ Len(t) \in Nat
      /\ DOMAIN s = 1..Len(s) /\ DOMAIN t = 1..Len(t)
  OBVIOUS
<1>2. /\ Len(s \o t) = Len(s) + Len(t)
      /\ \A i \in 1..(Len(s) + Len(t)) :
            (s \o t)[i] = IF i <= Len(s) THEN s[i] ELSE t[i - Len(s)]
  BY ConcatProperties
<1>3. DOMAIN (s \o t) = 1..(Len(s) + Len(t)) BY <1>1, <1>2
<1>4. ASSUME NEW x \in Range(s \o t) PROVE x \in Range(s) \union Range(t)
  <2>1. PICK i \in 1..(Len(s) + Len(t)) : x = (s \o t)[i] BY <1>3, <1>4 DEF Range
  <2>2. CASE i <= Len(s) 
    <3>1. i \in 1..Len(s) /\ x = s[i] BY <1>1, <1>2, <2>1, <2>2
    <3> QED BY <1>1, <3>1 DEF Range
  <2>3. CASE ~(i <= Len(s)) 
    <3>1. i - Len(s) \in 1..Len(t) /\ x = t[i - Len(s)] BY <1>1, <1>2, <2>1, <2>3
    <3> QED BY <1>1, <3>1 DEF Range
  <2> QED BY <2>2, <2>3
<1>5. ASSUME NEW x \in Range(s) PROVE x \in Range(s \o t)
  <2>1. PICK i \in 1..Len(s) : x = s[i] BY <1>1, <1>5 DEF Range
  <2>2. i \in 1..(Len(s) + Len(t)) /\ x = (s \o t)[i] BY <1>1, <1>2, <2>1
  <2> QED BY <1>3, <2>2 DEF Range
<1>6. ASSUME NEW x \in Range(t) PROVE x \in Range(s \o t)
  <2>1. PICK i \in 1..Len(t) : x = t[i] BY <1>1, <1>6 DEF Range
  <2>2. i + Len(s) \in 1..(Len(s) + Len(t)) /\ x = (s \o t)[i + Len(s)] BY <1>1, <1>2, <2>1
  <2> QED BY <1>3, <2>2 DEF Range
<1> QED BY <1>4, <1>5, <1>6

\* Taking back the last tile loses that tile only.
LEMMA RangeFront ==
    ASSUME NEW S, NEW s \in Seq(S), s # <<>>
    PROVE  \A e \in Range(s) : e = Last(s) \/ e \in Range(Front(s))
<1> DEFINE m == Len(s) - 1
<1>1. m \in Nat /\ Len(s) = m + 1 /\ DOMAIN s = 1..(m + 1) OBVIOUS
<1>2. Front(s) = SubSeq(s, 1, m) /\ Last(s) = s[m + 1] BY <1>1 DEF Front, Last
<1> HIDE DEF m
<1>3. \A i \in 1..m : s[i] \in S BY <1>1
<1>4. /\ SubSeq(s, 1, m) \in Seq(S) /\ DOMAIN SubSeq(s, 1, m) = 1..m
      /\ \A i \in 1..m : SubSeq(s, 1, m)[i] = s[i]
  BY <1>1, <1>3
<1>5. ASSUME NEW i \in 1..(m + 1) PROVE s[i] = Last(s) \/ s[i] \in Range(Front(s))
  <2>1. i = m + 1 \/ i \in 1..m BY <1>1
  <2> QED BY <1>2, <1>4, <2>1 DEF Range
<1> QED BY <1>1, <1>5 DEF Range

LEMMA OthersKept ==
    TypeInv /\ Lists /\ [Next]_vars /\ view'.open /\ view.open /\ ~Echoed =>
       \A e \in Range(tiles) : ~IsMine(e) => e \in Range(tiles')
<1> SUFFICES ASSUME TypeInv, Lists, [Next]_vars, view'.open, view.open, ~Echoed,
                    NEW e \in Range(tiles), ~IsMine(e)
             PROVE  e \in Range(tiles')
  OBVIOUS
<1>1. ASSUME UNCHANGED tiles PROVE e \in Range(tiles') BY <1>1
<1>2. load.page \in Seq(Id) /\ Within(load.page) /\ older.page \in Seq(Id) /\ Within(older.page)
      /\ data \in Seq(Entry) /\ tiles \in Seq(Entry) /\ view \in ViewRec
  BY DEF TypeInv, Typed, Places, LoadRec, OlderRec
<1>a. ASSUME NEW x \in Entry, Append2(x) PROVE e \in Range(tiles')
  BY <1>2, <1>a, RangeAppend DEF Append2
<1>3. ~(Enter \/ GoBack \/ GoSettings)
  BY <1>2 DEF Enter, GoBack, GoSettings, Gone, ViewRec
<1>4. CASE ShowFirst
  <2>1. tiles' = tiles \/ tiles' = tiles \o AsPage(load.page) BY <1>4 DEF ShowFirst
  <2>2. AsPage(load.page) \in Seq(Entry) BY <1>2, PageShown
  <2>3. Range(tiles \o AsPage(load.page)) = Range(tiles) \union Range(AsPage(load.page))
    BY <1>2, <2>2, RangeConcat
  <2> QED BY <1>1, <2>1, <2>3
<1>5. CASE ShowOlder
  <2>1. tiles' = tiles \/ tiles' = AsPage(older.page) \o tiles BY <1>5 DEF ShowOlder
  <2>2. AsPage(older.page) \in Seq(Entry) BY <1>2, PageShown
  <2>3. Range(AsPage(older.page) \o tiles) = Range(AsPage(older.page)) \union Range(tiles)
    BY <1>2, <2>2, RangeConcat
  <2> QED BY <1>1, <2>1, <2>3
<1>6. ASSUME NEW f \in Feed, Receive(f) PROVE e \in Range(tiles')
  <2> DEFINE n == Head(feed[f].inbox)
  <2>1. n \in Id /\ n <= Len(log) BY <1>6, ReceiveShows
  <2>2. Shown(n, "frame") \in Entry BY <2>1, ShownEntry
  <2>3. CASE UNCHANGED tiles BY <1>1, <2>3
  <2>4. CASE Append2(Shown(n, "frame")) BY <1>a, <2>2, <2>4
  <2>5. CASE log[n] # 0
    <3>1. feed[f].inbox \in Seq(Id) /\ feed[f].inbox # <<>> /\ feed[f] \in FeedRec
          /\ feed \in [Feed -> FeedRec]
      BY <1>6, FeedParts DEF Receive, TypeInv, Typed
    <3>2. Len(feed'[f].inbox) < Len(feed[f].inbox)
      <4>1. feed'[f].inbox = Tail(feed[f].inbox) \/ feed'[f].inbox = <<>>
        BY <1>6, <3>1 DEF Receive, NoFeed, FeedRec
      <4>2. Len(Tail(feed[f].inbox)) < Len(feed[f].inbox) /\ Len(feed[f].inbox) > 0 BY <3>1
      <4> QED BY <4>1, <4>2
    <3> QED BY <2>5, <3>1, <3>2 DEF Echoed
  <2>6. \/ UNCHANGED <<data, tiles>>
        \/ log[n] # 0 /\ ShowEcho(n)
        \/ log[n] = 0 /\ Append2(Shown(n, "frame"))
    BY <1>6, ReceiveShows
  <2> HIDE DEF n
  <2> QED BY <2>3, <2>4, <2>5, <2>6
<1>7. ASSUME NEW n \in Id, Open(n) PROVE e \in Range(tiles')
  <2>1. n <= Len(log) BY <1>7 DEF Open, TypeInv, Typed
  <2>2. Shown(n, "frame") \in Entry BY <2>1, ShownEntry
  <2> QED BY <1>7, <1>a, <2>2 DEF Open
<1>8. ASSUME NEW k \in Sent, Send(k) PROVE e \in Range(tiles')
  <2>1. Optimistic(k) \in Entry BY RoomViewAssumption DEF Optimistic, Entry, RoomViewAssumption
  <2> QED BY <1>8, <1>a, <2>1 DEF Send
<1>9. ASSUME NEW k \in Sent, GiveUp(k) PROVE e \in Range(tiles')
  <2>1. CASE UNCHANGED tiles BY <1>1, <2>1
  <2>2. CASE data # <<>> /\ IsOptimistic(Last(data)) /\ data' = Front(data) /\ tiles' = Front(tiles)
    <3>1. parted' = parted BY <1>9 DEF GiveUp
    <3>2. IsMine(Last(tiles)) /\ tiles # <<>> BY <2>2, <3>1, ListsTakeBack
    <3> QED BY <1>2, <2>2, <3>2, RangeFront
  <2> QED BY <1>9, <2>1, <2>2 DEF GiveUp, TakeBack
<1> QED
  <2>1. CASE UNCHANGED vars BY <1>1, <2>1 DEF vars
  <2>2. CASE Join \/ ReadFirst \/ LoadOlder \/ ReadOlder \/ Post
    BY <1>1, <2>2 DEF Join, ReadFirst, LoadOlder, ReadOlder, Post
  <2>3. ASSUME NEW n \in Id, Tell(n) PROVE e \in Range(tiles') BY <1>1, <2>3 DEF Tell
  <2>4. ASSUME NEW f \in Feed, Connect(f) \/ Drop(f) PROVE e \in Range(tiles')
    BY <1>1, <2>4 DEF Connect, Drop
  <2>5. ASSUME NEW k \in Sent, Store(k) \/ Answered(k) \/ TryAgain(k) PROVE e \in Range(tiles')
    BY <1>1, <2>5 DEF Store, Answered, TryAgain
  <2> QED BY <1>3, <1>4, <1>5, <1>6, <1>7, <1>8, <1>9, <2>1, <2>2, <2>3, <2>4, <2>5 DEF Next

\* No failed send, page or frame takes another's message off the screen, the echo of an
\* own message apart: the last entry is taken back only when it is the user's own in both
\* lists (room_view.py _send_message, _on_ws_message).
THEOREM OthersStayOnScreen == Spec => OthersStay
<1>1. Init => TypeInv /\ Lists BY TypeInit, ListsInit
<1>2. TypeInv /\ Lists /\ [Next]_vars => (TypeInv /\ Lists)' BY TypeNext, ListsNext
<1> QED BY <1>1, <1>2, OthersKept, PTL DEF Spec, OthersStay

-----------------------------------------------------------------------------
(* The pages, for who only reads.                                           *)

\* What can happen to who has sent nothing.
ReadStep ==
    \/ Enter \/ GoBack \/ GoSettings
    \/ Join \/ ReadFirst \/ ShowFirst
    \/ LoadOlder \/ ReadOlder \/ ShowOlder
    \/ Post
    \/ \E n \in Id : Open(n) \/ Tell(n)
    \/ \E f \in Feed : Receive(f) \/ Connect(f) \/ Drop(f)

LEMMA ReaderSteps == TypeInv /\ [Next]_vars /\ Reader' => Reader /\ (ReadStep \/ UNCHANGED vars)
<1> SUFFICES ASSUME TypeInv, [Next]_vars, Reader' PROVE Reader /\ (ReadStep \/ UNCHANGED vars)
  OBVIOUS
<1>1. send \in [Sent -> SendRec] /\ \A k \in Sent : send[k].pc = "none" => send[k].asked = {}
  BY DEF TypeInv, Typed, Places
<1>2. CASE UNCHANGED vars BY <1>2 DEF vars, Reader
<1>3. CASE ReadStep
  <2> SUFFICES Reader BY <1>3
  <2>1. CASE GoBack \/ GoSettings BY <1>1, <2>1 DEF GoBack, GoSettings, Gone, Reader, SendRec
  <2>2. ASSUME NEW f \in Feed, Drop(f) PROVE Reader
    BY <1>1, <2>2 DEF Drop, Unsent, Reader, SendRec
  <2>3. CASE UNCHANGED send BY <2>3 DEF Reader
  <2> QED BY <1>3, <2>1, <2>2, <2>3 DEF ReadStep, Enter, Join, ReadFirst, ShowFirst, LoadOlder,
       ReadOlder, ShowOlder, Post, Open, Tell, Receive, Connect
<1>4. ASSUME NEW k \in Sent, Send(k) \/ Store(k) \/ Answered(k) \/ TryAgain(k) \/ GiveUp(k)
      PROVE  FALSE
  <2>1. send'[k].pc = "none" BY DEF Reader
  <2>2. send[k] \in SendRec BY <1>1
  <2>3. ASSUME Send(k) PROVE FALSE
    <3>1. CASE sealed BY <1>1, <2>1, <2>2, <2>3, <3>1 DEF Send, SendRec
    <3>2. CASE ~sealed /\ feed[ws].st = "open"
      BY <1>1, <2>1, <2>2, <2>3, <3>2 DEF Send, SendRec
    <3>3. CASE ~sealed /\ feed[ws].st # "open"
      BY <1>1, <2>1, <2>2, <2>3, <3>3 DEF Send, SendRec
    <3> QED BY <3>1, <3>2, <3>3
  <2>4. ~Store(k) BY <1>1, <2>1, <2>2, ZenonT(30) DEF Store, SendRec
  <2>5. ~(Answered(k) \/ TryAgain(k)) BY <1>1, <2>1, <2>2 DEF Answered, TryAgain, SendRec
  <2>6. ~GiveUp(k) BY <1>1, <2>1, <2>2 DEF GiveUp, SendRec
  <2> QED BY <1>4, <2>3, <2>4, <2>5, <2>6
<1> QED BY <1>2, <1>3, <1>4 DEF Next, ReadStep

LEMMA LoadedNext == TypeInv /\ Loaded /\ [Next]_vars => Loaded'
<1> SUFFICES ASSUME TypeInv, Loaded, [Next]_vars PROVE Loaded' OBVIOUS
<1>1. load \in LoadRec BY DEF TypeInv, Typed
<1>2. CASE UNCHANGED <<minId, load>> BY <1>2 DEF Loaded
<1>3. CASE Enter \/ GoBack \/ GoSettings BY <1>3 DEF Enter, GoBack, GoSettings, Gone, Loaded
<1>4. CASE Join \/ ReadFirst BY <1>1, <1>4 DEF Join, ReadFirst, Loaded, LoadRec
<1>5. CASE ShowFirst BY <1>1, <1>5 DEF ShowFirst, Loaded, LoadRec, NoLoad, EmptyPage
<1>6. CASE ShowOlder
  <2>1. older.pc = "show" /\ load' = load BY <1>6 DEF ShowOlder
  <2>2. minId # 0 BY <2>1 DEF TypeInv, Places
  <2> QED BY <2>1, <2>2 DEF Loaded
<1> QED
  BY <1>2, <1>3, <1>4, <1>5, <1>6, ZenonT(30) DEF Next, vars, LoadOlder, ReadOlder, Post, Open, Tell,
      Receive, Connect, Drop, Send, Store, Answered, TryAgain, GiveUp

\* For who only reads a frame is added at the end, or not yet shown.
LEMMA ReceiveReads ==
    ASSUME TypeInv, Quiet, NEW f \in Feed, Receive(f)
    PROVE  \/ UNCHANGED <<data, tiles>>
           \/ \E n \in Id : n <= Len(log) /\ Append2(Shown(n, "frame"))
<1> DEFINE n == Head(feed[f].inbox)
<1>1. n \in Id /\ n <= Len(log) BY ReceiveShows
<1>2. \/ UNCHANGED <<data, tiles>>
      \/ log[n] # 0 /\ ShowEcho(n)
      \/ log[n] = 0 /\ Append2(Shown(n, "frame"))
  BY ReceiveShows
<1> HIDE DEF n
<1>3. n \in DOMAIN log BY <1>1 DEF TypeInv, Typed, Id
<1>4. log[n] = 0 BY <1>3 DEF Quiet
<1> QED BY <1>1, <1>2, <1>4

\* What a step shows to who only reads.
Grows ==
    \/ UNCHANGED <<data, tiles>>
    \/ \E n \in Id : n <= Len(log) /\ Append2(Shown(n, "frame"))

LEMMA ReadShows ==
    ASSUME TypeInv, Quiet, ReadStep
    PROVE  \/ Grows
           \/ data' = <<>> /\ tiles' = <<>> /\ minId' = 0
           \/ ShowFirst \/ ShowOlder
<1>1. CASE Enter \/ GoBack \/ GoSettings BY <1>1 DEF Enter, GoBack, GoSettings, Gone
<1>2. ASSUME NEW n \in Id, Open(n) PROVE Grows
  <2>1. n \in DOMAIN log /\ log \in Seq(Author) BY <1>2 DEF Open, TypeInv, Typed
  <2>2. n <= Len(log) BY <2>1
  <2> QED BY <1>2, <2>2 DEF Open, Grows
<1>3. ASSUME NEW f \in Feed, Receive(f) PROVE Grows BY <1>3, ReceiveReads DEF Grows
<1>4. CASE UNCHANGED <<data, tiles>> BY <1>4 DEF Grows
<1> QED BY <1>1, <1>2, <1>3, <1>4 DEF ReadStep, Join, ReadFirst, LoadOlder, ReadOlder, Post, Tell,
      Connect, Drop

LEMMA QuietNext == ASSUME TypeInv, Quiet, ReadStep PROVE Quiet'
<1>1. /\ load.page \in Seq(Id) /\ Within(load.page) /\ older.page \in Seq(Id) /\ Within(older.page)
      /\ data \in Seq(Entry) /\ tiles \in Seq(Entry) /\ log \in Seq(Author)
  BY DEF TypeInv, Typed, Places, LoadRec, OlderRec
<1>2. \A n \in DOMAIN log' : log'[n] = 0
  <2>1. CASE log' = log BY <2>1 DEF Quiet
  <2>2. CASE Post
    <3>1. 0 \in Author BY RoomViewAssumption DEF Author, RoomViewAssumption
    <3>2. log' = Append(log, 0) /\ log' \in Seq(Author) BY <1>1, <2>2, <3>1 DEF Post
    <3>3. \A n \in 1..Len(log) : log[n] = 0 BY <1>1 DEF Quiet
    <3>4. ASSUME NEW n \in 1..(Len(log) + 1) PROVE log'[n] = 0
      BY <1>1, <3>1, <3>2, <3>3
    <3> QED BY <1>1, <3>1, <3>2, <3>4
  <2> QED
    BY <2>1, <2>2, ZenonT(30) DEF ReadStep, Enter, GoBack, GoSettings, Gone, Join, ReadFirst, ShowFirst,
       LoadOlder, ReadOlder, ShowOlder, Open, Tell, Receive, Connect, Drop
<1>3. Range(data') \subseteq Range(tiles')
  <2>1. CASE UNCHANGED <<data, tiles>> BY <2>1 DEF Quiet
  <2>2. CASE Grows
    <3>1. ASSUME NEW n \in Id, n <= Len(log), Append2(Shown(n, "frame"))
          PROVE  Range(data') \subseteq Range(tiles')
      <4>1. Shown(n, "frame") \in Entry BY <3>1, ShownEntry
      <4>2. Range(Append(data, Shown(n, "frame"))) = Range(data) \union {Shown(n, "frame")}
        BY <1>1, <4>1, RangeAppend
      <4>3. Range(Append(tiles, Shown(n, "frame"))) = Range(tiles) \union {Shown(n, "frame")}
        BY <1>1, <4>1, RangeAppend
      <4> QED BY <3>1, <4>2, <4>3 DEF Append2, Quiet
    <3> QED BY <2>1, <2>2, <3>1 DEF Grows
  <2>3. CASE data' = <<>> BY <2>3 DEF Range
  <2>4. CASE ShowFirst
    <3>1. \/ UNCHANGED <<data, tiles>>
          \/ data' = AsPage(load.page) /\ tiles' = tiles \o AsPage(load.page)
      BY <2>4 DEF ShowFirst
    <3>2. AsPage(load.page) \in Seq(Entry) BY <1>1, PageShown
    <3>3. Range(tiles \o AsPage(load.page)) = Range(tiles) \union Range(AsPage(load.page))
      BY <1>1, <3>2, RangeConcat
    <3> QED BY <2>1, <3>1, <3>3
  <2>5. CASE ShowOlder
    <3>1. \/ UNCHANGED <<data, tiles>>
          \/ data' = AsPage(older.page) \o data /\ tiles' = AsPage(older.page) \o tiles
      BY <2>5 DEF ShowOlder
    <3>2. AsPage(older.page) \in Seq(Entry) BY <1>1, PageShown
    <3>3. Range(AsPage(older.page) \o tiles) = Range(AsPage(older.page)) \union Range(tiles)
      BY <1>1, <3>2, RangeConcat
    <3>4. Range(AsPage(older.page) \o data) = Range(AsPage(older.page)) \union Range(data)
      BY <1>1, <3>2, RangeConcat
    <3> QED BY <2>1, <3>1, <3>3, <3>4 DEF Quiet
  <2> QED BY <2>2, <2>3, <2>4, <2>5, ReadShows
<1> QED BY <1>2, <1>3 DEF Quiet

\* Frames that are added leave the pages as they are.
LEMMA SpanGrows ==
    ASSUME TypeInv, Span, Grows, minId' = minId, Newest' = Newest,
           minId # 0 /\ older'.pc = "show" /\ older'.page # <<>> =>
              older' = older \/ Last(older'.page) = minId - 1
    PROVE  Span'
<1>1. data \in Seq(Entry) /\ tiles \in Seq(Entry) BY DEF TypeInv, Typed
<1>2. Range(data) \subseteq Range(data')
      /\ \A i \in DOMAIN data' : IsPage(i)' => i \in DOMAIN data /\ data'[i] = data[i]
  <2>1. CASE UNCHANGED data BY <2>1
  <2>2. ASSUME NEW n \in Id, n <= Len(log), Append2(Shown(n, "frame"))
        PROVE  Range(data) \subseteq Range(data')
               /\ \A i \in DOMAIN data' : IsPage(i)' => i \in DOMAIN data /\ data'[i] = data[i]
    <3> DEFINE e == Shown(n, "frame")
    <3>1. e \in Entry /\ e.via # "page" BY <2>2, ShownEntry DEF Shown
    <3>2. data' = Append(data, e) BY <2>2 DEF Append2
    <3> HIDE DEF e
    <3>3. Range(data') = Range(data) \union {e} BY <1>1, <3>1, <3>2, RangeAppend
    <3>4. ASSUME NEW i \in DOMAIN data', IsPage(i)' PROVE i \in DOMAIN data /\ data'[i] = data[i]
      BY <1>1, <3>1, <3>2, <3>4 DEF IsPage
    <3> QED BY <3>3, <3>4
  <2> QED BY <2>1, <2>2 DEF Grows
<1>3. Ids(data) \subseteq Ids(data') BY <1>2 DEF Ids
<1>4. SUFFICES ASSUME minId # 0 PROVE Span' BY DEF Span
<1>5. Whole' BY <1>2, <1>3, <1>4 DEF Span, Whole, IsPage
<1>6. \A i \in DOMAIN data' : IsPage(i)' => data'[i].id >= minId'
  BY <1>2, <1>4 DEF Span, IsPage
<1>7. older'.pc = "show" /\ older'.page # <<>> => Last(older'.page) = minId' - 1
  BY <1>4 DEF Span
<1> QED BY <1>4, <1>5, <1>6, <1>7 DEF Span

LEMMA AsPageIds ==
    ASSUME TypeInv, NEW page \in Seq(Id), Within(page)
    PROVE  /\ AsPage(page) \in Seq(Entry) /\ Len(AsPage(page)) = Len(page)
           /\ \A i \in 1..Len(page) : AsPage(page)[i].id = page[i] /\ AsPage(page)[i].via = "page"
<1>1. /\ AsPage(page) \in Seq(Entry) /\ Len(AsPage(page)) = Len(page)
      /\ \A i \in 1..Len(page) : AsPage(page)[i] = Shown(page[i], "page")
  BY RoomViewAssumption, AsPageFacts DEF TypeInv, Typed, RoomViewAssumption
<1>2. \A n : Shown(n, "page").id = n /\ Shown(n, "page").via = "page" BY DEF Shown
<1> QED BY <1>1, <1>2

\* The ids of a page are those from its first to its last.
LEMMA RunFacts ==
    ASSUME NEW page \in Seq(Id), Run(page), page # <<>>
    PROVE  /\ page[1] \in Id /\ Last(page) \in Id /\ page[1] <= Last(page) /\ Head(page) = page[1]
           /\ \A n \in page[1]..Last(page) : \E i \in 1..Len(page) : page[i] = n
           /\ \A i \in 1..Len(page) : page[i] <= Last(page) /\ page[i] >= page[1]
           /\ \A i, j \in 1..Len(page) : page[i] = page[j] => i = j
<1>1. Len(page) \in Nat \ {0} /\ 1 \in 1..Len(page) /\ Len(page) \in 1..Len(page)
      /\ DOMAIN page = 1..Len(page) /\ Head(page) = page[1]
  OBVIOUS
<1>2. page[1] \in Id /\ Last(page) \in Id BY <1>1 DEF Last
<1>3. page[1] \in Nat BY <1>2 DEF Id
<1>4. \A i \in 1..Len(page) : page[i] = page[1] + i - 1 BY <1>1 DEF Run
<1>5. Last(page) = page[1] + Len(page) - 1 BY <1>1, <1>4 DEF Last
<1>6. ASSUME NEW n \in page[1]..Last(page) PROVE \E i \in 1..Len(page) : page[i] = n
  <2>1. n - page[1] + 1 \in 1..Len(page) BY <1>1, <1>3, <1>5
  <2>2. page[n - page[1] + 1] = n BY <1>3, <1>4, <2>1
  <2> QED BY <2>1, <2>2
<1> QED BY <1>1, <1>2, <1>3, <1>4, <1>5, <1>6

LEMMA SpanFirst == ASSUME TypeInv, Loaded, ShowFirst PROVE Span'
<1> DEFINE page == load.page
<1>1. page \in Seq(Id) /\ Within(page) /\ Run(page) /\ load \in LoadRec /\ older \in OlderRec
  BY DEF TypeInv, Typed, Places, LoadRec, OlderRec
<1>2. load.pc = "show" /\ load' = [NoLoad EXCEPT !.page = page] /\ older' = older
  BY DEF ShowFirst
<1>3. minId = 0 /\ older'.pc = "idle" BY <1>1, <1>2 DEF Loaded, TypeInv, Places
<1>4. CASE page = <<>> BY <1>3, <1>4 DEF ShowFirst, EmptyPage, Span
<1>5. CASE page # <<>>
  <2>1. minId' = page[1] /\ data' = AsPage(page) BY <1>1, <1>5, RunFacts DEF ShowFirst, EmptyPage
  <2>2. load'.pc = "done" /\ load'.page = page BY <1>2 DEF NoLoad
  <2>3. Newest' = Last(page) BY <1>5, <2>2 DEF Newest
  <2> HIDE DEF page
  <2>4. /\ DOMAIN data' = 1..Len(page)
        /\ \A i \in 1..Len(page) : data'[i].id = page[i] /\ data'[i].via = "page"
    BY <1>1, <2>1, AsPageIds
  <2>5. /\ page[1] <= Last(page)
        /\ \A n \in page[1]..Last(page) : \E i \in 1..Len(page) : page[i] = n
        /\ \A i \in 1..Len(page) : page[i] >= page[1]
        /\ \A i, j \in 1..Len(page) : page[i] = page[j] => i = j
    BY <1>1, <1>5, RunFacts
  <2>6. minId'..Newest' \subseteq Ids(data')
    <3>1. ASSUME NEW n \in page[1]..Last(page) PROVE n \in Ids(data')
      <4>1. PICK i \in 1..Len(page) : page[i] = n BY <2>5
      <4>2. data'[i] \in Range(data') /\ data'[i].id = n BY <2>4, <4>1 DEF Range
      <4> QED BY <4>2 DEF Ids
    <3> QED BY <2>1, <2>3, <3>1
  <2>7. Whole' BY <2>4, <2>5, <2>6 DEF Whole
  <2>8. \A i \in DOMAIN data' : data'[i].id >= minId' BY <2>1, <2>4, <2>5
  <2> QED BY <1>3, <2>1, <2>3, <2>5, <2>7, <2>8 DEF Span
<1> QED BY <1>4, <1>5

LEMMA SpanOlder == ASSUME TypeInv, Loaded, Span, ShowOlder PROVE Span'
<1> DEFINE page == older.page
           p == AsPage(page)
<1>1. /\ page \in Seq(Id) /\ Within(page) /\ Run(page) /\ older \in OlderRec
      /\ data \in Seq(Entry) /\ minId \in Nat
  BY DEF TypeInv, Typed, Places, OlderRec, RoomViewAssumption
<1>2. older.pc = "show" /\ older'.pc = "idle" /\ Newest' = Newest
  BY DEF ShowOlder, NoOlder, Newest
<1>3. minId # 0 /\ load.pc = "done" /\ load.page # <<>> BY <1>2 DEF TypeInv, Places, Loaded
<1>4. CASE page = <<>>
  <2>1. minId' = minId /\ data' = data BY <1>4 DEF ShowOlder, EmptyPage
  <2> QED BY <1>2, <2>1 DEF Span, Whole, IsPage
<1>5. CASE page # <<>>
  <2>1. minId' = page[1] /\ data' = p \o data
    BY <1>1, <1>5, RunFacts DEF ShowOlder, EmptyPage
  <2>2. Last(page) = minId - 1 BY <1>2, <1>3, <1>5 DEF Span
  <2>3. /\ p \in Seq(Entry) /\ Len(p) = Len(page)
        /\ \A i \in 1..Len(page) : p[i].id = page[i] /\ p[i].via = "page"
    BY <1>1, AsPageIds
  <2>4. /\ page[1] \in Nat /\ page[1] <= minId - 1
        /\ \A n \in page[1]..(minId - 1) : \E i \in 1..Len(page) : page[i] = n
        /\ \A i \in 1..Len(page) : page[i] <= minId - 1 /\ page[i] >= page[1] /\ page[i] \in Nat
        /\ \A i, j \in 1..Len(page) : page[i] = page[j] => i = j
    <3>a. page \in Seq(Id) /\ \A x \in Id : x \in Nat BY <1>1 DEF Id
    <3>1. Len(page) \in Nat /\ \A i \in 1..Len(page) : page[i] \in Nat BY <3>a
    <3>2. /\ page[1] \in Id /\ page[1] <= Last(page)
          /\ \A n \in page[1]..Last(page) : \E i \in 1..Len(page) : page[i] = n
          /\ \A i \in 1..Len(page) : page[i] <= Last(page) /\ page[i] >= page[1]
          /\ \A i, j \in 1..Len(page) : page[i] = page[j] => i = j
      BY <1>1, <1>5, RunFacts
    <3>3. page[1] \in Nat BY <3>2 DEF Id
    <3> HIDE DEF page
    <3> QED BY <2>2, <3>1, <3>2, <3>3
  <2> HIDE DEF page, p
  <2>5. Newest \in Nat /\ minId <= Newest
    <3>1. load.page \in Seq(Id) /\ Run(load.page) BY DEF TypeInv, Typed, Places, LoadRec
    <3> QED BY <1>3, <3>1, RunFacts DEF Newest, Span, Id
  <2>6. /\ Len(p) \in Nat /\ Len(data) \in Nat /\ DOMAIN p = 1..Len(p) /\ DOMAIN data = 1..Len(data)
        /\ \A i \in 1..Len(data) : data[i].id \in Nat
    <3>1. \A i \in 1..Len(data) : data[i] \in Entry BY <1>1
    <3>2. \A e \in Entry : e.id \in Nat BY RoomViewAssumption DEF Entry, RoomViewAssumption
    <3> QED BY <1>1, <2>3, <3>1, <3>2
  <2>7. /\ p \o data \in Seq(Entry) /\ DOMAIN data' = 1..(Len(p) + Len(data))
        /\ \A i \in 1..(Len(p) + Len(data)) :
              data'[i] = IF i <= Len(p) THEN p[i] ELSE data[i - Len(p)]
    <3>1. p \o data \in Seq(Entry) BY <1>1, <2>3
    <3>2. Len(p \o data) = Len(p) + Len(data)
          /\ \A i \in 1..(Len(p) + Len(data)) :
                (p \o data)[i] = IF i <= Len(p) THEN p[i] ELSE data[i - Len(p)]
      <4>1. p \in Seq(Entry) /\ data \in Seq(Entry) BY <1>1, <2>3
      <4> QED BY <4>1, ConcatProperties
    <3> QED BY <2>1, <2>6, <3>1, <3>2
  <2>8. ASSUME NEW i \in DOMAIN data'
        PROVE  \/ i \in 1..Len(p) /\ data'[i].id = page[i] /\ data'[i].id <= minId - 1
                  /\ data'[i].id >= page[1] /\ data'[i].id \in Nat
               \/ /\ i - Len(p) \in DOMAIN data /\ i \in Nat /\ data'[i].id \in Nat
                  /\ data'[i] = data[i - Len(p)]
                  /\ IsPage(i)' => data'[i].id >= minId
    <3>1. CASE i <= Len(p)
      <4>1. i \in 1..Len(p) /\ data'[i] = p[i] BY <2>6, <2>7, <3>1
      <4> QED BY <2>3, <2>4, <4>1
    <3>2. CASE ~(i <= Len(p))
      <4>1. i - Len(p) \in DOMAIN data /\ data'[i] = data[i - Len(p)] /\ i \in Nat
        BY <2>6, <2>7, <3>2
      <4>2. IsPage(i)' => data'[i].id >= minId BY <1>3, <4>1 DEF Span, IsPage
      <4> QED BY <2>6, <4>1, <4>2
    <3> QED BY <3>1, <3>2
  <2>9. minId'..Newest' \subseteq Ids(data')
    <3>1. ASSUME NEW n \in page[1]..Newest PROVE n \in Ids(data')
      <4>1. CASE n <= minId - 1
        <5>1. n \in page[1]..(minId - 1) BY <1>1, <2>4, <2>5, <4>1
        <5>2. PICK i \in 1..Len(page) : page[i] = n BY <2>4, <5>1
        <5>3. i \in 1..(Len(p) + Len(data)) /\ data'[i] = p[i] BY <2>3, <2>6, <2>7, <5>2
        <5>4. data'[i] \in Range(data') /\ data'[i].id = n BY <2>3, <2>7, <5>2, <5>3 DEF Range
        <5> QED BY <5>4 DEF Ids
      <4>2. CASE ~(n <= minId - 1)
        <5>1. n \in minId..Newest BY <1>1, <2>4, <2>5, <4>2
        <5>2. n \in Ids(data) BY <1>3, <5>1 DEF Span, Whole
        <5>3. PICK j \in 1..Len(data) : data[j].id = n BY <2>6, <5>2 DEF Ids, Range
        <5>4. j + Len(p) \in 1..(Len(p) + Len(data)) /\ data'[j + Len(p)] = data[j]
          BY <2>6, <2>7, <5>3
        <5>5. data[j] \in Range(data') BY <2>7, <5>4 DEF Range
        <5> QED BY <5>3, <5>5 DEF Ids
      <4> QED BY <4>1, <4>2
    <3> QED BY <1>2, <2>1, <3>1
  <2>10. ASSUME NEW i \in DOMAIN data', NEW j \in DOMAIN data', IsPage(i)', IsPage(j)',
                data'[i].id = data'[j].id
         PROVE  i = j
    <3>1. CASE i \in 1..Len(p) /\ j \in 1..Len(p)
      <4>1. data'[i].id = page[i] /\ data'[j].id = page[j] BY <2>3, <2>6, <2>7, <3>1
      <4> QED BY <2>3, <2>4, <2>10, <3>1, <4>1
    <3>2. CASE i - Len(p) \in DOMAIN data /\ j - Len(p) \in DOMAIN data
      <4>1. data'[i] = data[i - Len(p)] /\ data'[j] = data[j - Len(p)] /\ i \in Nat /\ j \in Nat
        BY <2>6, <2>7, <3>2
      <4>2. i - Len(p) = j - Len(p) BY <1>3, <2>10, <3>2, <4>1 DEF Span, Whole, IsPage
      <4> QED BY <2>6, <4>1, <4>2
    <3> QED BY <1>1, <2>6, <2>8, <2>10, <3>1, <3>2
  <2>11. Whole' BY <2>9, <2>10 DEF Whole
  <2>12. \A i \in DOMAIN data' : IsPage(i)' => data'[i].id >= minId'
    <3>1. ASSUME NEW i \in DOMAIN data', IsPage(i)' PROVE data'[i].id >= page[1]
      BY <1>1, <2>4, <2>8, <3>1
    <3> QED BY <2>1, <3>1
  <2>13. minId' <= Newest' BY <1>1, <1>2, <2>1, <2>4, <2>5
  <2> QED BY <1>2, <2>11, <2>12, <2>13 DEF Span
<1> QED BY <1>4, <1>5

LEMMA SpanNext == ASSUME TypeInv, Loaded, Quiet, Span, ReadStep PROVE Span'
<1>1. CASE minId' = 0 BY <1>1 DEF Span
<1>2. CASE ShowFirst BY <1>2, SpanFirst
<1>3. CASE ShowOlder BY <1>3, SpanOlder
<1>4. ASSUME minId' # 0, ~ShowFirst, ~ShowOlder PROVE Span'
  <2>1. ~(Enter \/ GoBack \/ GoSettings) BY <1>4 DEF Enter, GoBack, GoSettings, Gone
  <2>2. minId' = minId
    BY <1>4, <2>1, ZenonT(30)
      DEF ReadStep, Join, ReadFirst, LoadOlder, ReadOlder, Post, Open, Tell, Receive,
       Connect, Drop
  <2>3. load.pc = "done" BY <1>4, <2>2 DEF Loaded
  <2>4. ~Join /\ ~ReadFirst BY <2>3 DEF Join, ReadFirst
  <2>5. load' = load
    BY <1>4, <2>1, <2>4, ZenonT(30)
      DEF ReadStep, LoadOlder, ReadOlder, Post, Open, Tell, Receive, Connect, Drop
  <2>6. Newest' = Newest BY <2>5 DEF Newest
  <2>7. Grows BY <1>4, ReadShows
  <2>8. older'.pc = "show" /\ older'.page # <<>> => older' = older \/ Last(older'.page) = minId - 1
    <3>1. CASE older' = older BY <3>1
    <3>2. CASE LoadOlder
      <4>1. older \in OlderRec BY DEF TypeInv, Typed
      <4> QED BY <3>2, <4>1 DEF LoadOlder, OlderRec
    <3>3. CASE ReadOlder
      <4>1. older' = [pc |-> "show", page |-> Page(minId)]
            \/ older' = [pc |-> "show", page |-> <<>>]
        BY <3>3 DEF ReadOlder, EmptyPage
      <4>2. log \in Seq(Author) /\ Len(log) <= MaxLog /\ minId <= Len(log) /\ minId \in Nat \ {0}
        BY <1>4, <2>2, RoomViewAssumption DEF TypeInv, Typed, Places, RoomViewAssumption
      <4>3. Len(log) \in Nat BY <4>2
      <4>4. Page(minId) # <<>> => Last(Page(minId)) = minId - 1
        <5>1. ~(minId > Len(log)) BY <4>2, <4>3
        <5> QED BY <4>2, <5>1, PageFacts, RoomViewAssumption
      <4> QED BY <4>1, <4>4
    <3> QED
      BY <1>4, <2>1, <2>4, <3>1, <3>2, <3>3, ZenonT(30)
        DEF ReadStep, Post, Open, Tell, Receive, Connect, Drop
  <2> QED BY <2>2, <2>6, <2>7, <2>8, SpanGrows
<1> QED BY <1>1, <1>2, <1>3, <1>4

LEMMA PagedInit == Init => Paged
BY DEF Init, Paged, Loaded, Quiet, Span, Range

LEMMA PagedNext == TypeInv /\ Paged /\ [Next]_vars => Paged'
<1> SUFFICES ASSUME TypeInv, Paged, [Next]_vars PROVE Paged' OBVIOUS
<1>1. Loaded' BY LoadedNext DEF Paged
<1>2. ASSUME Reader' PROVE Quiet' /\ Span'
  <2>1. Reader /\ (ReadStep \/ UNCHANGED vars) BY <1>2, ReaderSteps
  <2>2. Loaded /\ Quiet /\ Span BY <2>1 DEF Paged
  <2>3. CASE ReadStep BY <2>2, <2>3, QuietNext, SpanNext
  <2>4. CASE UNCHANGED vars BY <2>2, <2>4 DEF vars, Quiet, Span, Whole, IsPage, Newest
  <2> QED BY <2>1, <2>3, <2>4
<1> QED BY <1>1, <1>2 DEF Paged

\* Who only reads finds every message from the oldest to the newest page, and none on two
\* pages, whatever is posted and received while the pages are read (room_view.py
\* _initial_load, _load_older; message_service.py get_message_history).
THEOREM PagesHaveNoGap == Spec => []PagesAreWhole
<1>1. Paged => PagesAreWhole BY DEF Paged, Span, Whole, IsPage, PagesAreWhole
<1>2. Init => TypeInv /\ Paged BY TypeInit, PagedInit
<1>3. TypeInv /\ Paged /\ [Next]_vars => (TypeInv /\ Paged)' BY TypeNext, PagedNext
<1> QED BY <1>1, <1>2, <1>3, PTL DEF Spec

-----------------------------------------------------------------------------
(* What is broadcast, for who only reads.                                   *)

LEMMA LiveNext == TypeInv /\ Wires /\ Live /\ [Next]_vars => Live'
<1> SUFFICES ASSUME TypeInv, Wires, Live, [Next]_vars PROVE Live' OBVIOUS
<1>1. /\ load \in LoadRec /\ view \in ViewRec /\ feed \in [Feed -> FeedRec] /\ ws \in Feed
      /\ send \in [Sent -> SendRec] /\ prompt \in BOOLEAN
  BY DEF TypeInv, Typed, Flags
<1>2. CASE UNCHANGED <<load, view, feed, ws, prompt>> BY <1>2 DEF Live
<1>3. CASE Enter \/ GoBack \/ GoSettings
  BY <1>3 DEF Enter, GoBack, GoSettings, Gone, Live, NoLoad
<1>4. CASE Join \/ ReadFirst \/ ShowFirst
  <2>1. view.open BY <1>4 DEF Join, ReadFirst, ShowFirst, Live
  <2>2. prompt' => prompt \/ (feed[ws].st = "open" /\ feed[ws].heard)
    BY <1>4 DEF Join, ReadFirst, ShowFirst
  <2>3. UNCHANGED <<view, feed, ws>> BY <1>4 DEF Join, ReadFirst, ShowFirst
  <2> QED BY <2>1, <2>2, <2>3 DEF Live
<1>5. ASSUME NEW f \in Feed, Receive(f) PROVE Live'
  <2>1. UNCHANGED <<load, view, ws, prompt>> BY <1>5 DEF Receive
  <2>2. CASE f # ws
    <3>1. feed'[ws] = feed[ws] BY <1>1, <1>5, <2>2 DEF Receive
    <3> QED BY <2>1, <3>1 DEF Live
  <2>3. CASE f = ws
    <3>1. ~feed[f].closed BY <2>3 DEF Wires
    <3>2. feed' = [feed EXCEPT ![f].inbox = Tail(@)] BY <1>5, <3>1 DEF Receive
    <3>3. feed'[ws].st = feed[ws].st /\ feed'[ws].heard = feed[ws].heard
      BY <1>1, <2>3, <3>2 DEF FeedRec
    <3> QED BY <2>1, <3>3 DEF Live
  <2> QED BY <2>2, <2>3
<1>6. ASSUME NEW f \in Feed, Connect(f) \/ Drop(f) PROVE Live'
  <2>1. UNCHANGED <<load, view, ws>> BY <1>6 DEF Connect, Drop
  <2>2. CASE f # ws
    <3>1. feed'[ws] = feed[ws] BY <1>1, <1>6, <2>2 DEF Connect, Drop
    <3>2. prompt' = prompt BY <1>6, <2>2, <1>1 DEF Connect, Drop
    <3> QED BY <2>1, <3>1, <3>2 DEF Live
  <2>3. CASE f = ws
    <3>1. ~prompt' BY <1>6, <2>3 DEF Connect, Drop, Live
    <3> QED BY <2>1, <3>1 DEF Live
  <2> QED BY <2>2, <2>3
<1>7. ASSUME NEW n \in Id, Tell(n) PROVE Live'
  <2>1. UNCHANGED <<load, view, ws, prompt>> BY <1>7 DEF Tell
  <2>2. feed'[ws].st = feed[ws].st /\ feed'[ws].heard = feed[ws].heard
    BY <1>1, <1>7 DEF Tell, Hears, FeedRec
  <2> QED BY <2>1, <2>2 DEF Live
<1>8. ASSUME NEW k \in Sent, Store(k) PROVE Live'
  <2>1. UNCHANGED <<load, view, ws, prompt>> BY <1>8 DEF Store
  <2>2. feed'[ws].st = feed[ws].st /\ (feed[ws].heard => feed'[ws].heard)
    <3>1. CASE feed' = feed BY <3>1
    <3>2. CASE feed' = [feed EXCEPT ![send[k].at].heard =
                          @ \/ (member /\ feed[send[k].at].st = "open")]
      BY <1>1, <3>2 DEF FeedRec
    <3> QED BY <1>8, <3>1, <3>2 DEF Store
  <2> QED BY <2>1, <2>2 DEF Live
<1> QED
  BY <1>2, <1>3, <1>4, <1>5, <1>6, <1>7, <1>8, ZenonT(30)
    DEF Next, vars, LoadOlder, ReadOlder, ShowOlder,
      Post, Open, Send, Answered, TryAgain, GiveUp

\* A message that is on its way or on screen stays so.
LEMMA HeardStays ==
    ASSUME NEW n, Heard(n), untold \subseteq untold', opening \subseteq opening',
           Range(feed[ws].inbox) \subseteq Range(feed'[ws'].inbox),
           Range(tiles) \subseteq Range(tiles')
    PROVE  Heard(n)'
BY DEF Heard, Ids

LEMMA IdsAppended ==
    ASSUME TypeInv, NEW n \in Id, n <= Len(log), Append2(Shown(n, "frame"))
    PROVE  Range(tiles) \subseteq Range(tiles') /\ n \in Ids(tiles')
<1> DEFINE e == Shown(n, "frame")
<1>1. e \in Entry /\ e.id = n BY ShownEntry DEF Shown
<1>2. tiles \in Seq(Entry) /\ tiles' = Append(tiles, e) BY DEF TypeInv, Typed, Append2
<1> HIDE DEF e
<1>3. Range(tiles') = Range(tiles) \union {e} BY <1>1, <1>2, RangeAppend
<1> QED BY <1>1, <1>3 DEF Ids

\* The tiles of who only reads grow while the room is on screen.
LEMMA TilesGrow ==
    ASSUME TypeInv, Quiet, ReadStep, ~Enter, ~GoBack, ~GoSettings
    PROVE  Range(tiles) \subseteq Range(tiles')
<1>1. load.page \in Seq(Id) /\ Within(load.page) /\ older.page \in Seq(Id) /\ Within(older.page)
      /\ tiles \in Seq(Entry)
  BY DEF TypeInv, Typed, Places, LoadRec, OlderRec
<1>2. CASE Grows BY <1>2, IdsAppended DEF Grows
<1>3. CASE ShowFirst
  <2>1. tiles' = tiles \/ tiles' = tiles \o AsPage(load.page) BY <1>3 DEF ShowFirst
  <2>2. AsPage(load.page) \in Seq(Entry) BY <1>1, PageShown
  <2>3. Range(tiles \o AsPage(load.page)) = Range(tiles) \union Range(AsPage(load.page))
    BY <1>1, <2>2, RangeConcat
  <2> QED BY <2>1, <2>3
<1>4. CASE ShowOlder
  <2>1. tiles' = tiles \/ tiles' = AsPage(older.page) \o tiles BY <1>4 DEF ShowOlder
  <2>2. AsPage(older.page) \in Seq(Entry) BY <1>1, PageShown
  <2>3. Range(AsPage(older.page) \o tiles) = Range(AsPage(older.page)) \union Range(tiles)
    BY <1>1, <2>2, RangeConcat
  <2> QED BY <2>1, <2>3
<1>5. CASE UNCHANGED tiles BY <1>5
<1>6. ASSUME NEW n \in Id, Open(n) PROVE Grows
  <2>1. n \in DOMAIN log /\ log \in Seq(Author) BY <1>6 DEF Open, TypeInv, Typed
  <2>2. n <= Len(log) BY <2>1
  <2> QED BY <1>6, <2>2 DEF Open, Grows
<1>7. ASSUME NEW f \in Feed, Receive(f) PROVE Grows BY <1>7, ReceiveReads DEF Grows
<1> QED BY <1>2, <1>3, <1>4, <1>5, <1>6, <1>7 DEF ReadStep, Join, ReadFirst, LoadOlder, ReadOlder,
      Post, Tell, Connect, Drop

LEMMA CaughtFirst == ASSUME TypeInv, ReadFirst PROVE Caught'
<1> SUFFICES ASSUME load'.page # <<>>, NEW n \in DOMAIN log', n > Last(load'.page)
             PROVE  FALSE
  BY DEF Caught
<1>1. load'.page = Page(MaxLog + 1) /\ log' = log BY DEF ReadFirst, EmptyPage
<1>2. log \in Seq(Author) /\ Len(log) <= MaxLog /\ MaxLog \in Nat
  BY RoomViewAssumption DEF TypeInv, Typed, RoomViewAssumption
<1>3. MaxLog + 1 \in Nat \ {0} /\ MaxLog + 1 > Len(log) /\ Len(log) \in Nat BY <1>2
<1>4. Last(Page(MaxLog + 1)) = Len(log) BY <1>1, <1>2, <1>3, PageFacts, RoomViewAssumption
<1>5. n \in 1..Len(log) /\ n > Len(log) BY <1>1, <1>2, <1>4
<1> QED BY <1>3, <1>5

LEMMA CaughtReceive ==
    ASSUME TypeInv, Wires, Live, prompt, Quiet, NEW f \in Feed, Receive(f), NEW n, Heard(n)
    PROVE  Heard(n)'
<1>1. /\ feed \in [Feed -> FeedRec] /\ ws \in Feed /\ ws' = ws /\ untold' = untold
      /\ tiles \in Seq(Entry) /\ view.open /\ feed[ws].wired = view.n /\ ~feed[ws].closed
  BY DEF TypeInv, Typed, Wires, Live, Receive
<1>2. Range(tiles) \subseteq Range(tiles') BY ReceiveReads, IdsAppended
<1>3. opening \subseteq opening' BY DEF Receive
<1>4. CASE f # ws
  <2>1. feed'[ws].inbox = feed[ws].inbox BY <1>1, <1>4 DEF Receive
  <2> QED BY <1>1, <1>2, <1>3, <2>1, HeardStays
<1>5. CASE f = ws
  <2>1. feed' = [feed EXCEPT ![ws].inbox = Tail(@)] BY <1>1, <1>5 DEF Receive
  <2>2. feed'[ws].inbox = Tail(feed[ws].inbox) BY <1>1, <2>1 DEF FeedRec
  <2>3. feed[ws].inbox \in Seq(Id) /\ feed[ws].inbox # <<>>
    BY <1>1, <1>5, FeedParts DEF Receive
  <2>4. PICK h \in Id : h = Head(feed[ws].inbox) /\ h <= Len(log) BY <1>5, ReceiveShows
  <2>5. h \in DOMAIN log BY <2>4 DEF TypeInv, Typed, Id
  <2>6. log[h] = 0 BY <2>5 DEF Quiet
  <2>7. h \in opening' \/ Append2(Shown(h, "frame"))
    BY <1>1, <1>5, <2>4, <2>6 DEF Receive
  <2>8. \A m \in Range(feed[ws].inbox) : m = h \/ m \in Range(Tail(feed[ws].inbox))
    <3> DEFINE s == feed[ws].inbox
    <3>1. s \in Seq(Id) /\ s # <<>> /\ h = s[1] BY <2>3, <2>4
    <3> HIDE DEF s
    <3>2. /\ Tail(s) \in Seq(Id) /\ Len(s) \in Nat \ {0} /\ DOMAIN s = 1..Len(s)
          /\ DOMAIN Tail(s) = 1..(Len(s) - 1)
          /\ \A i \in 1..(Len(s) - 1) : Tail(s)[i] = s[i + 1]
      BY <3>1
    <3>3. ASSUME NEW i \in 1..Len(s), i # 1 PROVE s[i] \in Range(Tail(s))
      <4>1. i - 1 \in 1..(Len(s) - 1) /\ Tail(s)[i - 1] = s[i] BY <3>2, <3>3
      <4> QED BY <3>2, <4>1 DEF Range
    <3>4. \A m \in Range(s) : m = h \/ m \in Range(Tail(s)) BY <3>1, <3>2, <3>3 DEF Range
    <3> QED BY <3>4 DEF s
  <2>9. Heard(h)' BY <2>4, <2>7, IdsAppended DEF Heard
  <2>10. CASE n = h BY <2>9, <2>10
  <2>11. CASE n \in Range(Tail(feed[ws].inbox)) BY <1>1, <2>2, <2>11 DEF Heard
  <2>12. CASE n \in untold \union opening \union Ids(tiles)
    BY <1>1, <1>2, <1>3, <2>12 DEF Heard, Ids
  <2> QED BY <2>8, <2>10, <2>11, <2>12 DEF Heard
<1> QED BY <1>4, <1>5

LEMMA CaughtNext == ASSUME TypeInv, Wires, Live, Quiet, Caught, ReadStep PROVE Caught'
<1>1. /\ load \in LoadRec /\ feed \in [Feed -> FeedRec] /\ ws \in Feed /\ prompt \in BOOLEAN
      /\ log \in Seq(Author) /\ tiles \in Seq(Entry)
  BY DEF TypeInv, Typed, Flags
<1>2. CASE Enter \/ GoBack \/ GoSettings BY <1>2 DEF Enter, GoBack, GoSettings, Gone, Caught
<1>3. CASE Join BY <1>1, <1>3 DEF Join, LoadRec, Caught
<1>4. CASE ReadFirst BY <1>4, CaughtFirst
<1>5. ASSUME ~Enter, ~GoBack, ~GoSettings, ~Join, ~ReadFirst, prompt', load'.page # <<>>,
             load'.pc \in {"show", "done"}, NEW n \in DOMAIN log', n > Last(load'.page)
      PROVE  Heard(n)'
  <2>1. prompt /\ ws' = ws
    BY <1>5, ZenonT(30)
      DEF ReadStep, ShowFirst, LoadOlder, ReadOlder, ShowOlder, Post, Open, Tell, Receive,
       Connect, Drop
  <2>2. load'.page = load.page /\ load.pc \in {"show", "done"}
    <3>1. CASE ShowFirst BY <1>1, <3>1 DEF ShowFirst, NoLoad
    <3>2. CASE load' = load BY <1>5, <3>2
    <3> QED
      BY <1>5, <3>1, <3>2, ZenonT(30) DEF ReadStep, LoadOlder, ReadOlder, ShowOlder, Post, Open, Tell,
         Receive, Connect, Drop
  <2>3. n \in DOMAIN log => Heard(n) BY <1>5, <2>1, <2>2 DEF Caught
  <2>4. Range(tiles) \subseteq Range(tiles') BY <1>5, TilesGrow
  <2>5. CASE ShowFirst \/ LoadOlder \/ ReadOlder \/ ShowOlder
    <3>1. UNCHANGED <<untold, opening, feed, ws, log>>
      BY <2>5 DEF ShowFirst, LoadOlder, ReadOlder, ShowOlder
    <3> QED BY <1>5, <2>3, <2>4, <3>1, HeardStays
  <2>6. CASE Post
    <3>1. log' = Append(log, 0) /\ untold' = untold \union {Len(log) + 1}
          /\ UNCHANGED <<opening, feed, ws>>
      BY <2>6 DEF Post
    <3>2. n \in DOMAIN log \/ n = Len(log) + 1
      <4>1. Len(log') = Len(log) + 1 /\ DOMAIN log' = 1..Len(log') /\ Len(log) \in Nat
            /\ DOMAIN log = 1..Len(log)
        BY <1>1, <3>1
      <4> QED BY <1>5, <4>1
    <3>3. CASE n = Len(log) + 1 BY <3>1, <3>3 DEF Heard
    <3>4. CASE n \in DOMAIN log BY <2>3, <2>4, <3>1, <3>4, HeardStays
    <3> QED BY <3>2, <3>3, <3>4
  <2>7. ASSUME NEW m \in Id, Open(m) PROVE Heard(n)'
    <3>1. opening' = opening \ {m} /\ Append2(Shown(m, "frame")) /\ UNCHANGED <<untold, feed, ws, log>>
      BY <2>7 DEF Open
    <3>2. m \in DOMAIN log BY <2>7 DEF Open, TypeInv, Typed
    <3>3. m <= Len(log) BY <1>1, <3>2
    <3>4. m \in Ids(tiles') BY <3>1, <3>3, IdsAppended
    <3>5. Heard(n) BY <1>5, <2>3, <3>1
    <3>6. CASE n = m BY <3>4, <3>6 DEF Heard
    <3>7. CASE n # m BY <2>4, <3>1, <3>5, <3>7 DEF Heard, Ids
    <3> QED BY <3>6, <3>7
  <2>8. ASSUME NEW m \in Id, Tell(m) PROVE Heard(n)'
    <3>1. untold' = untold \ {m} /\ UNCHANGED <<opening, tiles, ws, log>> BY <2>8 DEF Tell
    <3>2. feed[ws].st = "open" /\ feed[ws].heard BY <2>1 DEF Live
    <3>3. feed'[ws] = [feed[ws] EXCEPT !.inbox = Append(@, m)] BY <1>1, <2>8, <3>2 DEF Tell, Hears
    <3>4. feed'[ws].inbox = Append(feed[ws].inbox, m) BY <1>1, <3>3 DEF FeedRec
    <3>5. feed[ws].inbox \in Seq(Id) BY <1>1, FeedParts
    <3>6. Range(feed'[ws].inbox) = Range(feed[ws].inbox) \union {m} BY <3>4, <3>5, RangeAppend
    <3>7. Heard(n) BY <1>5, <2>3, <3>1
    <3>8. CASE n = m BY <3>1, <3>6, <3>8 DEF Heard
    <3>9. CASE n # m BY <3>1, <3>6, <3>7, <3>9 DEF Heard
    <3> QED BY <3>8, <3>9
  <2>9. ASSUME NEW f \in Feed, Receive(f) PROVE Heard(n)'
    <3>1. log' = log BY <2>9 DEF Receive
    <3>2. Heard(n) BY <1>5, <2>3, <3>1
    <3> QED BY <2>1, <2>9, <3>2, CaughtReceive
  <2>10. ASSUME NEW f \in Feed, Connect(f) \/ Drop(f) PROVE Heard(n)'
    <3>1. UNCHANGED <<untold, opening, tiles, ws, log>> BY <2>10 DEF Connect, Drop
    <3>2. feed'[ws].inbox = feed[ws].inbox
      <4>1. CASE f # ws BY <1>1, <2>10, <4>1 DEF Connect, Drop
      <4>2. CASE f = ws
        <5>1. Connect(f) BY <1>5, <2>10, <4>2 DEF Drop
        <5> QED BY <1>1, <4>2, <5>1 DEF Connect, FeedRec
      <4> QED BY <4>1, <4>2
    <3>3. Heard(n) BY <1>5, <2>3, <3>1
    <3> QED BY <2>4, <3>1, <3>2, <3>3, HeardStays
  <2> QED BY <1>5, <2>5, <2>6, <2>7, <2>8, <2>9, <2>10 DEF ReadStep
<1> QED BY <1>2, <1>3, <1>4, <1>5 DEF Caught

LEMMA FollowedInit == Init => Followed
BY DEF Init, Followed, Live, Caught, NoLoad

LEMMA FollowedNext == TypeInv /\ Wires /\ Paged /\ Followed /\ [Next]_vars => Followed'
<1> SUFFICES ASSUME TypeInv, Wires, Paged, Followed, [Next]_vars PROVE Followed' OBVIOUS
<1>1. Live' BY LiveNext DEF Followed
<1>2. ASSUME Reader' PROVE Caught'
  <2>1. Reader /\ (ReadStep \/ UNCHANGED vars) BY <1>2, ReaderSteps
  <2>2. Live /\ Quiet /\ Caught BY <2>1 DEF Followed, Paged
  <2>3. CASE ReadStep BY <2>2, <2>3, CaughtNext
  <2>4. CASE UNCHANGED vars BY <2>2, <2>4 DEF vars, Caught, Heard
  <2> QED BY <2>1, <2>3, <2>4
<1> QED BY <1>1, <1>2 DEF Followed

\* Who only reads, and whose socket was on the room before the first page was read and did
\* not break, misses nothing: the frames that are lost are those of a broken connection and
\* those before the subscription (room_view.py _initial_load, _on_ws_message; ws_client.py
\* _dispatch; connection_manager.py broadcast).
THEOREM ReaderMissesNothing == Spec => []NothingMissed
<1>1. TypeInv /\ Paged /\ Followed => NothingMissed
  <2> SUFFICES ASSUME TypeInv, Paged, Followed, Reader, prompt, load.pc = "done", minId # 0,
                      NEW n \in (minId + 1)..Len(log),
                      n \notin untold \union opening \union Range(feed[ws].inbox)
               PROVE  n \in Ids(tiles)
    BY DEF NothingMissed
  <2>1. load.page # <<>> /\ Quiet /\ Span BY DEF Paged, Loaded
  <2>2. Newest = Last(load.page) BY <2>1 DEF Newest
  <2>3. load.page \in Seq(Id) /\ Run(load.page) /\ log \in Seq(Author) /\ minId \in Nat
    BY RoomViewAssumption DEF TypeInv, Typed, Places, LoadRec, RoomViewAssumption
  <2>4. Newest \in Nat BY <2>1, <2>2, <2>3, RunFacts DEF Id
  <2>5. CASE n > Newest
    <3>1. n \in DOMAIN log BY <2>3
    <3>2. Heard(n) BY <2>1, <2>2, <2>5, <3>1 DEF Followed, Caught
    <3> QED BY <3>2 DEF Heard
  <2>6. CASE ~(n > Newest)
    <3>1. n \in minId..Newest BY <2>3, <2>4, <2>6
    <3>2. n \in Ids(data) BY <2>1, <3>1 DEF Span, Whole
    <3> QED BY <2>1, <3>2 DEF Quiet, Ids
  <2> QED BY <2>5, <2>6
<1>2. Init => TypeInv /\ Wires /\ Paged /\ Followed
  BY TypeInit, WiresInit, PagedInit, FollowedInit
<1>3. TypeInv /\ Wires /\ Paged /\ Followed /\ [Next]_vars => (TypeInv /\ Wires /\ Paged /\ Followed)'
  BY TypeNext, WiresNext, PagedNext, FollowedNext
<1> QED BY <1>1, <1>2, <1>3, PTL DEF Spec
=============================================================================
