------------------------------ MODULE RoomView ------------------------------
(***************************************************************************)
(* One user with one room open in the Flet client: the two parallel lists  *)
(* of the view (room_view.py), the pages of history it loads, the          *)
(* WebSocket clients that feed it (ws_client.py), and its own messages,    *)
(* which are shown before they are sent.  The server is the room's log of  *)
(* messages and the broadcasts that are still to be made.                  *)
(*                                                                         *)
(* Attachments, the layout, the reconnecting banner and the crypto are     *)
(* left out (Ratchet and GroupKeys have the keys); bodies of different     *)
(* messages are taken to differ.                                           *)
(***************************************************************************)
EXTENDS Naturals, Sequences, FiniteSets, FiniteSetsExt, SequencesExt

CONSTANTS
    History,      \* messages of others in the room before it is opened
    MaxLog,       \* bound: messages the room ever has
    PageSize,     \* messages of a page, 50 in the code
    MaxSends,     \* bound: messages the user sends
    MaxViews,     \* bound: times the room is opened
    MaxTries,     \* requests a sealed message is tried with, 2 in the code
    MaxTroubles   \* bound: lost connections, failed and late requests

ASSUME RoomViewAssumption ==
    /\ {History, MaxLog, MaxSends, MaxTroubles} \subseteq Nat
    /\ {PageSize, MaxViews, MaxTries} \subseteq Nat \ {0}
    /\ History <= MaxLog

VARIABLES
    sealed,       \* the room's messages are encrypted and posted over HTTP
    personal,     \* the room is a personal chat, whose messages are encrypted
    member,       \* the user is a member of the room, for the server
    log,          \* the room's messages: 0 for another author's, or the send
    untold,       \* messages stored and not yet broadcast
    view,         \* which opening of the room this is, and if it is on screen
    load,         \* the task of _initial_load
    older,        \* the task of _load_older
    minId,        \* the oldest message loaded, 0 for none
    data,         \* _state["messages_data"]
    tiles,        \* messages_list.controls
    opening,      \* frames whose decryption waits for somebody's keys
    send,         \* what became of each message of the user
    feed,         \* the WebSocket clients made so far
    ws,           \* the one state.ws holds
    troubles,
    parted,       \* the first page came when the lists were not empty
    prompt        \* the room's frames come since before the first page was read

vars == <<sealed, personal, member, log, untold, view, load, older, minId, data, tiles,
          opening, send, feed, ws, troubles, parted, prompt>>

Id   == 1..MaxLog
Sent == 1..MaxSends
View == 1..MaxViews
Feed == 1..(MaxViews + 1)     \* one is there from the list of chats

-----------------------------------------------------------------------------
(* What the lists hold.                                                     *)

TextOf(n) == IF log[n] = 0 THEN <<"theirs", n>> ELSE <<"mine", log[n]>>

\* A message as the server sends it, on a page or in a frame.
Shown(n, via) == [id |-> n, text |-> TextOf(n), via |-> via]

\* The message the sender sees at once.  Only these have a temp_id.
Optimistic(k) == [id |-> 0, text |-> <<"mine", k>>, via |-> "send"]

IsMine(e) == e.text[1] = "mine"
Ids(s)    == {e.id : e \in Range(s)}

\* The newest messages before the given one.  They come newest first and are sorted by
\* id; the room's ids are the places in its log.
BadPage(before) ==
    LET last == IF before > Len(log) THEN Len(log) ELSE before
        size == IF last < PageSize THEN last ELSE PageSize
    IN  [i \in 1..size |-> last - size + i]

Page(before) ==
    LET last == IF before > Len(log) THEN Len(log) ELSE before - 1
        size == IF last < PageSize THEN last ELSE PageSize
    IN  [i \in 1..size |-> last - size + i]

AsPage(page) == [i \in DOMAIN page |-> Shown(page[i], "page")]

-----------------------------------------------------------------------------
NoLoad  == [pc |-> "done", page |-> <<>>]
NoOlder == [pc |-> "idle", page |-> <<>>]
NoFeed  == [st |-> "off", room |-> FALSE, wired |-> 0, closed |-> FALSE,
            heard |-> FALSE, inbox |-> <<>>]
\* heard is whether the URL names the room, and once connected if the server subscribed
\* the socket.  close(): a connection ends, after the frames that were written to it, and no frame is
\* dispatched any more; but a client that is still connecting finds no socket to close.
BadClosed(c) == IF c.st = "open" THEN NoFeed ELSE [c EXCEPT !.wired = 0]
Closed(c) == IF c.st = "open" THEN NoFeed ELSE [c EXCEPT !.wired = 0, !.closed = TRUE]
NewFeed(v) == [NoFeed EXCEPT !.st = "connecting", !.room = TRUE, !.wired = v, !.heard = TRUE]

\* pc of a send; asked and stored are the requests (or the frame) under way and
\* those the server took.
NoSend == [pc |-> "none", asked |-> {}, stored |-> {}, at |-> 0]

Init ==
    /\ sealed \in BOOLEAN
    /\ member \in BOOLEAN
    /\ personal \in BOOLEAN /\ (personal => sealed /\ member)
    /\ log = [n \in 1..History |-> 0]
    /\ untold = {}
    /\ view = [n |-> 0, open |-> FALSE]
    /\ load = NoLoad /\ older = NoOlder /\ minId = 0
    /\ data = <<>> /\ tiles = <<>> /\ opening = {}
    /\ send = [k \in Sent |-> NoSend]
    \* _start_notifications of the list of chats made a client without a room
    /\ feed = [f \in Feed |-> IF f = 1 THEN [NoFeed EXCEPT !.st = "open"] ELSE NoFeed]
    /\ ws = 1
    /\ troubles = 0
    /\ parted = FALSE /\ prompt = FALSE

Trouble == troubles < MaxTroubles /\ troubles' = troubles + 1

-----------------------------------------------------------------------------
(* Opening and leaving the room.                                            *)

\* room_view(): new lists; _initial_load and _start_ws run up to their first
\* await.  _start_ws takes over a client that is on this room already, and
\* closes any other before it makes one.
Enter ==
    /\ ~view.open
    /\ view.n < MaxViews
    /\ LET v == view.n + 1 IN
       /\ view' = [n |-> v, open |-> TRUE]
       /\ load' = [pc |-> IF member THEN "ask" ELSE "join", page |-> <<>>]
       /\ IF feed[ws].room
            THEN /\ feed' = [feed EXCEPT ![ws].wired = v]
                 /\ UNCHANGED ws
            ELSE /\ feed' = [feed EXCEPT ![ws] = Closed(@), ![ws + 1] = NewFeed(v)]
                 /\ ws' = ws + 1
    /\ older' = NoOlder /\ minId' = 0
    /\ data' = <<>> /\ tiles' = <<>> /\ opening' = {}
    /\ parted' = FALSE /\ prompt' = FALSE
    /\ UNCHANGED <<sealed, personal, member, log, untold, send, troubles>>

\* What is still under way when the view goes finishes on lists nobody sees.
Gone ==
    /\ view' = [view EXCEPT !.open = FALSE]
    /\ load' = NoLoad /\ older' = NoOlder /\ minId' = 0
    /\ data' = <<>> /\ tiles' = <<>> /\ opening' = {}
    /\ parted' = FALSE /\ prompt' = FALSE
    /\ send' = [k \in Sent |-> IF send[k].pc = "wait"
                                 THEN [send[k] EXCEPT !.pc = "left"] ELSE send[k]]
    /\ UNCHANGED <<sealed, personal, member, log, untold, ws, troubles>>

\* _go_back: the client stays for notifications.
GoBack ==
    /\ view.open
    /\ feed' = [feed EXCEPT ![ws].wired = 0, ![ws].room = FALSE]
    /\ Gone

\* _go_settings: the client stays as it is.
GoSettings ==
    /\ view.open
    /\ UNCHANGED feed
    /\ Gone

-----------------------------------------------------------------------------
(* The pages of history.                                                    *)

\* The end of _load_messages, for a request that failed.
EmptyPage == <<>>

\* _initial_load joins a public room; when that fails it goes on all the same.
Join ==
    /\ load.pc = "join"
    /\ load' = [load EXCEPT !.pc = "ask"]
    /\ \/ member' = TRUE /\ UNCHANGED troubles
       \/ Trouble /\ UNCHANGED member
    /\ UNCHANGED <<sealed, personal, log, untold, view, older, minId, data, tiles, opening, send,
                   feed, ws, parted, prompt>>

\* get_message_history reads the newest page; 403 for who is not a member.
ReadFirst ==
    /\ load.pc = "ask"
    /\ \/ /\ load' = [pc |-> "show", page |-> IF member THEN Page(MaxLog + 1) ELSE EmptyPage]
          /\ prompt' = (feed[ws].st = "open" /\ feed[ws].heard)
          /\ UNCHANGED troubles
       \/ /\ load' = [pc |-> "show", page |-> EmptyPage]
          /\ Trouble
          /\ UNCHANGED prompt
    /\ UNCHANGED <<sealed, personal, member, log, untold, view, older, minId, data, tiles, opening,
                   send, feed, ws, parted>>

BadShowFirst ==
    /\ load.pc = "show"
    /\ load' = [NoLoad EXCEPT !.page = load.page]
    /\ IF load.page = EmptyPage
         THEN UNCHANGED <<minId, data, tiles, parted>>
         ELSE /\ minId' = Head(load.page)
              /\ data' = AsPage(load.page)
              /\ tiles' = AsPage(load.page)
              /\ parted' = FALSE
    /\ UNCHANGED <<sealed, personal, member, log, untold, view, older, opening, send, feed, ws,
                   troubles, prompt>>

\* The answer is there, and decrypted: the page replaces the data, and its tiles
\* come after whatever is there.
ShowFirst ==
    /\ load.pc = "show"
    /\ load' = [NoLoad EXCEPT !.page = load.page]
    /\ IF load.page = EmptyPage
         THEN UNCHANGED <<minId, data, tiles, parted>>
         ELSE /\ minId' = Head(load.page)
              /\ data' = AsPage(load.page)
              /\ tiles' = tiles \o AsPage(load.page)
              /\ parted' = (tiles # <<>>)
    /\ UNCHANGED <<sealed, personal, member, log, untold, view, older, opening, send, feed, ws,
                   troubles, prompt>>

\* _load_older, when the list is scrolled to its top.
LoadOlder ==
    /\ view.open
    /\ older.pc = "idle"
    /\ minId # 0
    /\ older' = [older EXCEPT !.pc = "ask"]
    /\ UNCHANGED <<sealed, personal, member, log, untold, view, load, minId, data, tiles, opening,
                   send, feed, ws, troubles, parted, prompt>>

ReadOlder ==
    /\ older.pc = "ask"
    /\ \/ /\ older' = [pc |-> "show", page |-> Page(minId)]
          /\ UNCHANGED troubles
       \/ /\ older' = [pc |-> "show", page |-> EmptyPage]
          /\ Trouble
    /\ UNCHANGED <<sealed, personal, member, log, untold, view, load, minId, data, tiles, opening,
                   send, feed, ws, parted, prompt>>

BadShowOlderTiles ==
    /\ older.pc = "show"
    /\ older' = NoOlder
    /\ IF older.page = EmptyPage
         THEN UNCHANGED <<minId, tiles>>
         ELSE minId' = Head(older.page) /\ tiles' = AsPage(older.page) \o tiles
    /\ UNCHANGED <<sealed, personal, member, log, untold, view, load, data, opening, send, feed, ws,
                   troubles, parted, prompt>>

BadShowOlderStuck ==
    /\ older.pc = "show"
    /\ older.page # EmptyPage
    /\ older' = NoOlder
    /\ minId' = Head(older.page)
    /\ data' = AsPage(older.page) \o data
    /\ tiles' = AsPage(older.page) \o tiles
    /\ UNCHANGED <<sealed, personal, member, log, untold, view, load, opening, send, feed, ws,
                   troubles, parted, prompt>>

ShowOlder ==
    /\ older.pc = "show"
    /\ older' = NoOlder
    /\ IF older.page = EmptyPage
         THEN UNCHANGED <<minId, data, tiles>>
         ELSE /\ minId' = Head(older.page)
              /\ data' = AsPage(older.page) \o data
              /\ tiles' = AsPage(older.page) \o tiles
    /\ UNCHANGED <<sealed, personal, member, log, untold, view, load, opening, send, feed, ws,
                   troubles, parted, prompt>>

-----------------------------------------------------------------------------
(* Frames.                                                                  *)

Append2(e) == data' = Append(data, e) /\ tiles' = Append(tiles, e)

\* The entries _on_ws_message takes for the optimistic one of an echo: those with the
\* temp_id of the frame, which has none, or the optimistic one (with this body, when
\* the body can be compared).
Matches(n) == {i \in DOMAIN data :
    \/ data[i].via # "send"
    \/ sealed
    \/ data[i].text = TextOf(n)}

\* An own message: the first match is replaced, in both lists at its index; the body on
\* screen stays when the frame is encrypted.
ShowEcho(n) ==
    IF Matches(n) = {}
      THEN Append2(Shown(n, "frame"))
      ELSE LET i == Min(Matches(n))
               e == IF sealed THEN [Shown(n, "frame") EXCEPT !.text = data[i].text]
                              ELSE Shown(n, "frame")
           IN  data' = [data EXCEPT ![i] = e] /\ tiles' = [tiles EXCEPT ![i] = e]

\* _dispatch, for the next frame of a client: one that was closed ends, and one whose
\* callbacks are gone, or belong to a view that left, has no effect on this view.
Receive(f) ==
    /\ feed[f].st = "open"
    /\ feed[f].inbox # <<>>
    /\ LET n == Head(feed[f].inbox) IN
       IF feed[f].closed
         THEN /\ feed' = [feed EXCEPT ![f] = NoFeed]
              /\ UNCHANGED <<data, tiles, opening>>
         ELSE /\ feed' = [feed EXCEPT ![f].inbox = Tail(@)]
              /\ CASE ~view.open \/ feed[f].wired # view.n -> UNCHANGED <<data, tiles, opening>>
                   [] log[n] # 0 -> ShowEcho(n) /\ UNCHANGED opening
                   [] log[n] = 0 /\ sealed -> opening' = opening \union {n}
                                              /\ UNCHANGED <<data, tiles>>
                   [] OTHER -> Append2(Shown(n, "frame")) /\ UNCHANGED opening
    /\ UNCHANGED <<sealed, personal, member, log, untold, view, load, older, minId, send, ws, troubles,
                   parted, prompt>>

\* A task of decrypt_and_display ends, in any order when keys have to be fetched.
Open(n) ==
    /\ n \in opening
    /\ opening' = opening \ {n}
    /\ Append2(Shown(n, "frame"))
    /\ UNCHANGED <<sealed, personal, member, log, untold, view, load, older, minId, send, feed, ws,
                   troubles, parted, prompt>>

-----------------------------------------------------------------------------
(* The connection of a client.                                              *)

\* The server subscribes the socket to the room of its URL if the user is a member now.
\* A client closed meanwhile connects as well, and stays until its next frame.
Connect(f) ==
    /\ feed[f].st = "connecting"
    /\ feed' = [feed EXCEPT ![f].st = "open", ![f].heard = @ /\ member]
    /\ UNCHANGED <<sealed, personal, member, log, untold, view, load, older, minId, data, tiles, opening,
                   send, ws, troubles, parted, prompt>>

\* A connection breaks, or is not made: the frames on it are lost, and the client tries
\* again, unless it was closed.
Unsent(f) == [k \in Sent |-> IF send[k].at = f THEN [send[k] EXCEPT !.asked = {}] ELSE send[k]]

Drop(f) ==
    /\ feed[f].st # "off"
    /\ Trouble
    /\ feed' = [feed EXCEPT ![f] =
         IF @.closed THEN NoFeed
                     ELSE [@ EXCEPT !.st = "connecting", !.heard = feed[f].room, !.inbox = <<>>]]
    /\ send' = Unsent(f)
    /\ prompt' = (prompt /\ f # ws)
    /\ UNCHANGED <<sealed, personal, member, log, untold, view, load, older, minId, data, tiles, opening,
                   ws, parted>>

-----------------------------------------------------------------------------
(* The server.                                                              *)

BadPost ==
    /\ Len(log) < MaxLog
    /\ untold' = untold \union {Len(log) + 1}
    /\ UNCHANGED <<sealed, personal, member, log, view, load, older, minId, data, tiles, opening, send,
                   feed, ws, troubles, parted, prompt>>

Post ==
    /\ Len(log) < MaxLog
    /\ log' = Append(log, 0)
    /\ untold' = untold \union {Len(log) + 1}
    /\ UNCHANGED <<sealed, personal, member, view, load, older, minId, data, tiles, opening, send, feed,
                   ws, troubles, parted, prompt>>

\* The sockets a message of the room goes to: send_to_user those of the user, broadcast
\* those the server subscribed.
Hears(f) == feed[f].st = "open" /\ (personal \/ feed[f].heard)

\* Tasks of different authors need not be in order.
Tell(n) ==
    /\ n \in untold
    /\ untold' = untold \ {n}
    /\ feed' = [f \in Feed |-> IF Hears(f)
                                  THEN [feed[f] EXCEPT !.inbox = Append(@, n)]
                                  ELSE feed[f]]
    /\ UNCHANGED <<sealed, personal, member, log, view, load, older, minId, data, tiles, opening, send,
                   ws, troubles, parted, prompt>>

-----------------------------------------------------------------------------
(* Sending.                                                                 *)

\* _send_message: the message is shown, and handed to the socket, which drops it when it
\* is not connected, or to the first request.
Send(k) ==
    /\ view.open
    /\ send[k].pc = "none"
    /\ \A j \in Sent : j < k => send[j].pc # "none"
    /\ Append2(Optimistic(k))
    /\ send' = [send EXCEPT ![k] =
         CASE sealed -> [@ EXCEPT !.pc = "wait", !.asked = {1}]
           [] ~sealed /\ feed[ws].st = "open" -> [@ EXCEPT !.pc = "sent", !.asked = {1}, !.at = ws]
           [] OTHER -> [@ EXCEPT !.pc = "sent"]]
    /\ UNCHANGED <<sealed, personal, member, log, untold, view, load, older, minId, opening, feed, ws,
                   troubles, parted, prompt>>

\* The server stores what it was asked to: frames of a socket in their order, after
\* subscribing it to the room; requests in any order.
Store(k) ==
    /\ \E r \in send[k].asked :
         /\ send' = [send EXCEPT ![k].asked = @ \ {r}, ![k].stored = @ \union {r}]
         /\ IF member /\ Len(log) < MaxLog
              THEN /\ log' = Append(log, k)
                   /\ untold' = untold \union {Len(log) + 1}
              ELSE ~member /\ UNCHANGED <<log, untold>>
    /\ IF sealed
         THEN UNCHANGED feed
         ELSE /\ \A j \in Sent : j < k /\ send[j].at = send[k].at => send[j].asked = {}
              /\ feed' = [feed EXCEPT ![send[k].at].heard =
                                @ \/ (member /\ feed[send[k].at].st = "open")]
    /\ UNCHANGED <<sealed, personal, member, view, load, older, minId, data, tiles, opening, ws, troubles,
                   parted, prompt>>

Tries(k) == Cardinality(send[k].asked \union send[k].stored)

\* The answer to the last request.
Answered(k) ==
    /\ send[k].pc = "wait"
    /\ Tries(k) \in send[k].stored
    /\ send' = [send EXCEPT ![k].pc = "sent"]
    /\ UNCHANGED <<sealed, personal, member, log, untold, view, load, older, minId, data, tiles, opening,
                   feed, ws, troubles, parted, prompt>>

\* ReadTimeout: the request is made once more.
TryAgain(k) ==
    /\ send[k].pc = "wait"
    /\ Tries(k) < MaxTries
    /\ Trouble
    /\ send' = [send EXCEPT ![k].asked = @ \union {Tries(k) + 1}]
    /\ UNCHANGED <<sealed, personal, member, log, untold, view, load, older, minId, data, tiles, opening,
                   feed, ws, parted, prompt>>

BadIsOptimistic(e) == TRUE
IsOptimistic(e) == e.via = "send"

\* The last entry goes if it is an optimistic one.
TakeBack ==
    IF data # <<>> /\ IsOptimistic(Last(data))
      THEN data' = Front(data) /\ tiles' = Front(tiles)
      ELSE UNCHANGED <<data, tiles>>

\* Encrypting or sending fails, or the last request takes too long.  In a group the
\* handler fails itself before it takes the message back, and in a personal chat a failed
\* look-up of the peer's keys may end in another handler.
GiveUp(k) ==
    /\ send[k].pc = "wait"
    /\ Trouble
    /\ \/ send' = [send EXCEPT ![k].pc = "failed", ![k].asked = @ \ {Tries(k)}]
       \/ /\ Tries(k) = MaxTries
          /\ send' = [send EXCEPT ![k].pc = "failed"]
    /\ \/ personal /\ TakeBack
       \/ UNCHANGED <<data, tiles>>
    /\ UNCHANGED <<sealed, personal, member, log, untold, view, load, older, minId, opening, feed, ws,
                   parted, prompt>>

-----------------------------------------------------------------------------
Next ==
    \/ Enter \/ GoBack \/ GoSettings
    \/ Join \/ ReadFirst \/ ShowFirst
    \/ LoadOlder \/ ReadOlder \/ ShowOlder
    \/ Post
    \/ \E n \in Id : Open(n) \/ Tell(n)
    \/ \E f \in Feed : Receive(f) \/ Connect(f) \/ Drop(f)
    \/ \E k \in Sent : Send(k) \/ Store(k) \/ Answered(k) \/ TryAgain(k) \/ GiveUp(k)

\* Requests for a page are answered or fail: the shared HTTP client has a time limit.
Fairness ==
    /\ WF_vars(Join) /\ WF_vars(ReadFirst) /\ WF_vars(ShowFirst)
    /\ WF_vars(ReadOlder) /\ WF_vars(ShowOlder)

Spec == Init /\ [][Next]_vars /\ Fairness

-----------------------------------------------------------------------------
Entry == [id : 0..MaxLog, text : {"theirs", "mine"} \X (Id \union Sent),
          via : {"page", "frame", "send"}]

TypeOK ==
    /\ sealed \in BOOLEAN /\ personal \in BOOLEAN /\ member \in BOOLEAN
    /\ log \in Seq(0..MaxSends) /\ Len(log) <= MaxLog
    /\ untold \subseteq DOMAIN log
    /\ view \in [n : 0..MaxViews, open : BOOLEAN]
    /\ load \in [pc : {"join", "ask", "show", "done"}, page : Seq(Id)]
    /\ older \in [pc : {"idle", "ask", "show"}, page : Seq(Id)]
    /\ minId \in 0..MaxLog
    /\ data \in Seq(Entry) /\ tiles \in Seq(Entry)
    /\ opening \subseteq DOMAIN log
    /\ send \in [Sent -> [pc : {"none", "wait", "sent", "failed", "left"},
                          asked : SUBSET (1..MaxTries), stored : SUBSET (1..MaxTries),
                          at : 0..(MaxViews + 1)]]
    /\ feed \in [Feed -> [st : {"off", "connecting", "open"}, room : BOOLEAN,
                          wired : 0..MaxViews, closed : BOOLEAN, heard : BOOLEAN,
                          inbox : Seq(Id)]]
    /\ ws \in Feed
    /\ troubles \in 0..MaxTroubles
    /\ parted \in BOOLEAN /\ prompt \in BOOLEAN

\* The view keeps its messages and their tiles in two lists and uses the index of one in
\* the other: they agree whatever is sent, received, replaced, taken back and paged, as
\* long as nothing was there before the first page; and also when they do not agree, an
\* index of the data is one of the tiles, so replacing a tile never fails.
ListsAgree == (~parted => tiles = data) /\ Len(data) <= Len(tiles)

Reader == \A k \in Sent : send[k].pc = "none"
Newest == IF load.pc = "done" /\ load.page # <<>> THEN Last(load.page) ELSE 0

\* Who only reads finds every message from the oldest to the newest page, and no message
\* on two pages, however the pages, new messages and frames come in between.
PagesAreWhole ==
    (Reader /\ minId # 0) =>
       /\ minId..Newest \subseteq Ids(data)
       /\ \A i, j \in DOMAIN data :
            (data[i].via = "page" /\ data[j].via = "page" /\ data[i].id = data[j].id) => i = j

\* Who only reads, and whose socket was on the room before the first page was read and did
\* not break since, misses nothing: what was broadcast and is not on its way is on screen.
NothingMissed ==
    LET due == {n \in (minId + 1)..Len(log) :
                  n \notin untold \union opening \union Range(feed[ws].inbox)}
    IN  (Reader /\ prompt /\ load.pc = "done" /\ minId # 0) => due \subseteq Ids(tiles)

\* Of all clients that were made, at most one can still dispatch frames, also when one is
\* closed before it is connected.
OneFeed == Cardinality({f \in Feed : feed[f].st # "off" /\ ~feed[f].closed}) <= 1

\* Sending, failing and loading never take another's message off the screen: while the view
\* is on, only the echo of an own message does.
Echoed == \E f \in Feed : feed[f].inbox # <<>> /\ Len(feed'[f].inbox) < Len(feed[f].inbox)
                          /\ log[Head(feed[f].inbox)] # 0
OthersStay ==
    [][(view'.open /\ view.open /\ ~Echoed) =>
         \A e \in Range(tiles) : ~IsMine(e) => e \in Range(tiles')]_vars

\* A page that was asked for comes to an end, so the next one can be asked for.
PagesEnd ==
    /\ (load.pc # "done") ~> (load.pc = "done")
    /\ (older.pc # "idle") ~> (older.pc = "idle")

\* The echo of an own message replaces its optimistic entry, not a message of the history
\* (room_view.py:1036, "Replace optimistic message with real one").
EchoReplacesOptimistic ==
    [][(view'.open /\ view.open /\ Echoed) =>
         \A e \in Range(tiles) : ~IsOptimistic(e) => e \in Range(tiles')]_vars
=============================================================================
