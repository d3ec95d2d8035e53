------------------------------ MODULE Session ------------------------------
(***************************************************************************)
(* The session of one Flet client and the accounts behind it: registering, *)
(* logging in with the keys of the server's backup, what the client keeps  *)
(* of an account in memory and on disk, changing the password, the end of  *)
(* a token, and logging out (login_view.py, register_view.py, state.py,    *)
(* profile_view.py; auth_service.py and user_service.py on the server).    *)
(*                                                                         *)
(* Handlers of the interface are tasks of one event loop: while one waits  *)
(* for the network, the user may start another.  A step ends at an await.  *)
(***************************************************************************)
EXTENDS Naturals, FiniteSets

CONSTANTS
    Account,      \* user names at their servers
    Name, Home,   \* Name[a] and Home[a], the name and the server of account a
    Before,       \* Before[a]: the row of account a when the client is installed
    None,
    MaxKeys,      \* bound: key pairs ever generated
    Password,     \* the passwords in use
    MaxTroubles   \* bound: failed requests, tokens that run out, handlers that overlap

VARIABLES
    account,   \* the server's row of each account: public key, password, backup
    made,      \* key pairs generated so far
    view,      \* what is on screen
    form,      \* the tasks of do_login and do_register
    token,     \* state.token, as the account it was issued for
    expired,   \* the server takes that token no more
    me,        \* state.current_user
    keys,      \* the private keys in the state
    peers,     \* servers whose users' keys are in state.public_key_cache
    socket,    \* state.ws: the account of its token, and whether it names a room
    store,     \* state.message_store, made when it is first needed
    file,      \* the file of each name: the key that seals it, whose messages it holds
    closing,   \* logout waits for the HTTP clients to close
    offered,   \* the login view on screen has a button to log out
    stained,   \* since the last clean start a session ended without logout,
               \* or handlers overlapped (history)
    untidy,    \* that happened at some time (history)
    troubles

session == <<token, expired, me, keys>>
kept    == <<peers, socket, store>>
screen  == <<view, offered>>
vars == <<account, made, screen, form, session, kept, file, closing, stained, untidy, troubles>>

Form   == 1..2
Key    == 0..MaxKeys                   \* 0 for none
NameOf == {Name[a] : a \in Account}
SignedIn == {"chats", "room", "profile"}

NoBackup  == [key |-> 0, pw |-> 0]
NoAccount == [pub |-> 0, pw |-> 0, sealed |-> NoBackup]
Idle      == [pc |-> "idle", acc |-> None, pw |-> 0, key |-> 0, sealed |-> NoBackup]
NoSocket  == [acc |-> None, room |-> FALSE]
NoStore   == [name |-> None, key |-> 0, holds |-> {}]

\* The row of an account registered with key pair k and password p.
RowOf(k, p) == [pub |-> k, pw |-> p, sealed |-> [key |-> k, pw |-> p]]

\* The row of an account older than end-to-end encryption: the columns of its
\* keys and of the backup are null (migration 0006), and no view fills them.
OldRow(p) == [pub |-> 0, pw |-> p, sealed |-> NoBackup]

Registered == {a \in Account : Before[a].pub # 0}

ASSUME SessionAssumption ==
    /\ None \notin Account
    /\ {MaxKeys, MaxTroubles} \subseteq Nat
    /\ 0 \notin Password
    /\ IsFiniteSet(Account) /\ Cardinality(Registered) <= MaxKeys
    /\ Before \in [Account -> {NoAccount} \cup {OldRow(p) : p \in Password} \cup
                     {RowOf(k, p) : k \in 1..Cardinality(Registered), p \in Password}]
    /\ \A a, b \in Registered : Before[a].pub = Before[b].pub => a = b

Active(f) == form[f].pc # "idle"
Known(a)  == account[a].pw # 0
Backed(a) == account[a].sealed # NoBackup
Trouble   == troubles < MaxTroubles /\ troubles' = troubles + 1

\* The user goes on while logout waits.
GoOn ==
    IF closing /\ ~stained THEN Trouble /\ stained' = TRUE ELSE UNCHANGED <<troubles, stained>>

Init ==
    /\ account = Before
    /\ made = Cardinality(Registered)
    /\ view = "login" /\ offered = FALSE
    /\ form = [f \in Form |-> Idle]
    /\ token = None /\ expired = FALSE /\ me = None /\ keys = 0
    /\ peers = {} /\ socket = NoSocket /\ store = NoStore
    /\ file = [n \in NameOf |-> [key |-> 0, holds |-> {}]]
    /\ closing = FALSE /\ stained = FALSE /\ untidy = FALSE /\ troubles = 0

-----------------------------------------------------------------------------
(* The forms.                                                               *)

\* The button is disabled while a form is sent, the Enter key is not.
Begin(f, task) ==
    /\ ~Active(f) /\ \A g \in Form : g < f => Active(g)
    /\ form' = [form EXCEPT ![f] = task]
    /\ IF closing \/ \E g \in Form : Active(g)
         THEN Trouble /\ stained' = TRUE
         ELSE UNCHANGED <<troubles, stained>>

BeginLogin(f) ==
    /\ view = "login"
    /\ \E a \in Account, p \in Password : Begin(f, [Idle EXCEPT !.pc = "login", !.acc = a, !.pw = p])
    /\ UNCHANGED <<account, made, screen, session, kept, file, closing>>

\* do_register generates the keys, and the backup of them, before it asks.
BeginRegister(f) ==
    /\ view = "register" /\ made < MaxKeys
    /\ made' = made + 1
    /\ \E a \in Account, p \in Password :
         Begin(f, [Idle EXCEPT !.pc = "register", !.acc = a, !.pw = p, !.key = made + 1])
    /\ UNCHANGED <<account, screen, session, kept, file, closing>>

Goto(f, pc) == form' = [form EXCEPT ![f].pc = pc]
Enable(f)   == form' = [form EXCEPT ![f] = Idle]
AskMe(f)    == form' = [form EXCEPT ![f] = [Idle EXCEPT !.pc = "me"]]

BadRow(f) == [RowOf(form[f].key, form[f].pw) EXCEPT !.sealed.pw = 0]
Row(f) == RowOf(form[f].key, form[f].pw)

\* register_user: the first one has the name.  The answer, or the request, may
\* be lost; _post asks again, and is told that the name is taken.
Register(f) ==
    /\ form[f].pc = "register"
    /\ \/ /\ Known(form[f].acc)
          /\ Enable(f) /\ UNCHANGED <<account, keys, troubles>>
       \/ /\ ~Known(form[f].acc)
          /\ account' = [account EXCEPT ![form[f].acc] = Row(f)]
          /\ \/ Goto(f, "first") /\ keys' = form[f].key /\ UNCHANGED troubles
             \/ Trouble /\ Enable(f) /\ UNCHANGED keys
       \/ Trouble /\ Enable(f) /\ UNCHANGED <<account, keys>>
    /\ UNCHANGED <<made, screen, token, expired, me, kept, file, closing, stained>>

\* authenticate_user; login sends the backup along, when the account has one.
\* do_register knows its keys and does not look at it; do_login goes on without
\* one, with the keys a form that failed may have left in memory.
Login(f) ==
    /\ form[f].pc \in {"login", "first"}
    /\ LET row == account[form[f].acc] IN
       \/ /\ row.pw = form[f].pw
          /\ token' = form[f].acc /\ expired' = FALSE
          /\ form' = [form EXCEPT ![f] = IF @.pc = "first" \/ ~Backed(form[f].acc)
                                           THEN [Idle EXCEPT !.pc = "me"]
                                           ELSE [@ EXCEPT !.pc = "decrypt", !.sealed = row.sealed]]
          /\ UNCHANGED troubles
       \/ /\ row.pw # form[f].pw
          /\ Enable(f) /\ UNCHANGED <<token, expired, troubles>>
       \/ Trouble /\ Enable(f) /\ UNCHANGED <<token, expired>>
    /\ UNCHANGED <<account, made, screen, me, keys, kept, file, closing, stained>>

BadDecryptStuck(f) ==
    /\ form[f].pc = "decrypt" /\ form[f].sealed.pw = form[f].pw
    /\ keys' = form[f].sealed.key /\ AskMe(f)
    /\ UNCHANGED <<account, made, screen, token, expired, me, kept, file, closing, stained, troubles>>

\* decrypt_backup with the password that was typed; the token stays when it fails.
Decrypt(f) ==
    /\ form[f].pc = "decrypt"
    /\ \/ /\ form[f].sealed.pw = form[f].pw
          /\ keys' = form[f].sealed.key /\ AskMe(f)
       \/ /\ form[f].sealed.pw # form[f].pw
          /\ Enable(f) /\ UNCHANGED keys
    /\ UNCHANGED <<account, made, screen, token, expired, me, kept, file, closing, stained, troubles>>

\* _start_notifications, of the list of chats: the connection there is will do.
Notified(s) == IF s = NoSocket THEN [NoSocket EXCEPT !.acc = token] ELSE s

\* get_me with the token of the moment, whoever put it there; the list of chats.
Me(f) ==
    /\ form[f].pc = "me"
    /\ \/ /\ token # None /\ ~expired
          /\ me' = token
          /\ view' = "chats"
          /\ socket' = Notified(socket)
          /\ UNCHANGED troubles
       \/ /\ token = None \/ expired
          /\ UNCHANGED <<me, view, socket, troubles>>
       \/ Trouble /\ UNCHANGED <<me, view, socket>>
    /\ Enable(f)
    /\ UNCHANGED <<account, made, offered, token, expired, keys, peers, store, file, closing, stained>>

\* go_register and go_login.
Switch ==
    /\ view \in {"login", "register"}
    /\ view' = IF view = "login" THEN "register" ELSE "login"
    /\ offered' = (view = "register" /\ token # None)
    /\ UNCHANGED <<account, made, form, session, kept, file, closing, stained, troubles>>

-----------------------------------------------------------------------------
(* The session.                                                             *)

\* room_view, _start_ws: a connection that names another room, or none, is
\* closed first.  That it is the same room happens after a session that ended
\* in it only: going back takes the room out of the name.
OpenRoom ==
    /\ view = "chats"
    /\ view' = "room"
    /\ \/ socket.room /\ UNCHANGED socket
       \/ socket' = [acc |-> token, room |-> TRUE]
    /\ GoOn
    /\ UNCHANGED <<account, made, offered, form, session, peers, store, file, closing>>

OpenProfile ==
    /\ view = "chats" /\ view' = "profile"
    /\ GoOn
    /\ UNCHANGED <<account, made, offered, form, session, kept, file, closing>>

GoBack ==
    /\ view \in {"room", "profile"} /\ view' = "chats"
    /\ socket' = Notified(IF view = "room" /\ socket # NoSocket
                            THEN [socket EXCEPT !.room = FALSE] ELSE socket)
    /\ GoOn
    /\ UNCHANGED <<account, made, offered, form, session, peers, store, file, closing>>

BadOpened(n, k) == [name |-> n, key |-> k, holds |-> file[n].holds]

\* The constructor of a store: a file that the key does not open counts as none.
Opened(n, k) ==
    [name |-> n, key |-> k, holds |-> IF file[n].key = k THEN file[n].holds ELSE {}]

\* The store in memory, made by whoever needs it first.
Store == IF store # NoStore THEN store ELSE Opened(Name[me], keys)

\* A message that was decrypted before is looked for in the store, whoever's the
\* private keys are.
LookUp ==
    /\ view = "room" /\ me # None /\ keys # 0
    /\ store = NoStore /\ store' = Store
    /\ UNCHANGED <<account, made, screen, form, session, peers, socket, file, closing, stained, troubles>>

\* A message is decrypted: the author's public keys are looked up and the body
\* is put into the store, where it may push the oldest ones out; the store writes
\* its file, and nobody hears of it when that fails.  The message came on a page,
\* or through the connection; the private keys have to be those of its reader.
Read(a) ==
    /\ view = "room" /\ me # None /\ keys # 0
    /\ token # None /\ ~expired
    /\ a \in {token, socket.acc} \ {None} /\ account[a].pub = keys
    /\ peers' = peers \cup {Home[token]}
    /\ \E others \in SUBSET Store.holds : store' = [Store EXCEPT !.holds = others \cup {a}]
    /\ \/ /\ file' = [file EXCEPT ![Store.name] = [key |-> store'.key, holds |-> store'.holds]]
          /\ UNCHANGED troubles
       \/ Trouble /\ UNCHANGED file
    /\ UNCHANGED <<account, made, screen, form, session, socket, closing, stained>>

\* 24 hours, or the server has a new secret.
Expire ==
    /\ token # None /\ ~expired /\ Trouble
    /\ expired' = TRUE
    /\ UNCHANGED <<account, made, screen, form, token, me, keys, kept, file, closing, stained>>

\* A page of messages, or the new display name, is refused with 401.
SessionExpired ==
    /\ view \in {"room", "profile"} /\ (expired \/ token = None)
    /\ token' = None /\ expired' = FALSE
    /\ view' = "login" /\ offered' = FALSE
    /\ stained' = TRUE
    /\ UNCHANGED <<account, made, form, me, keys, kept, file, closing, troubles>>

\* change_password: the backup stays as it is.
ChangePassword ==
    /\ view = "profile" /\ token # None /\ ~expired
    /\ \E p \in Password : account' = [account EXCEPT ![token].pw = p]
    /\ UNCHANGED <<made, screen, form, session, kept, file, closing, stained, troubles>>

\* logout: the connection is closed, and then the HTTP clients are.
Logout ==
    /\ view = "chats" \/ (view = "login" /\ offered)
    /\ ~closing /\ closing' = TRUE
    /\ socket' = NoSocket
    /\ stained' = \E f \in Form : Active(f)
    /\ UNCHANGED <<account, made, screen, form, session, peers, store, file, troubles>>

\* clear_crypto_keys.
BadCleared == keys' = 0 /\ peers' = {} /\ UNCHANGED store
Cleared == keys' = 0 /\ store' = NoStore /\ peers' = {}

\* The rest of logout, and the login view.
LoggedOut ==
    /\ closing /\ closing' = FALSE
    /\ token' = None /\ expired' = FALSE /\ me' = None
    /\ Cleared
    /\ view' = "login" /\ offered' = FALSE
    /\ UNCHANGED <<account, made, form, socket, file, stained, troubles>>

\* The process ends and starts again; main() begins with the login view.
Restart ==
    /\ view' = "login" /\ offered' = FALSE
    /\ form' = [f \in Form |-> Idle]
    /\ token' = None /\ expired' = FALSE /\ me' = None
    /\ Cleared
    /\ socket' = NoSocket
    /\ closing' = FALSE /\ stained' = FALSE
    /\ UNCHANGED <<account, made, file, troubles>>

Step(f) == Register(f) \/ Login(f) \/ Decrypt(f) \/ Me(f)

\* What is remembered of the past.
Noted == untidy' = (untidy \/ stained')

Next ==
    /\ \/ \E f \in Form : BeginLogin(f) \/ BeginRegister(f) \/ Step(f)
       \/ Switch \/ OpenRoom \/ OpenProfile \/ GoBack
       \/ LookUp \/ \E a \in Account : Read(a)
       \/ Expire \/ SessionExpired \/ ChangePassword
       \/ Logout \/ LoggedOut \/ Restart
    /\ Noted

\* Every request has a time limit, and a task goes on when its await is over.
Fairness == \A f \in Form : WF_vars(Step(f) /\ Noted)

Spec == Init /\ [][Next]_vars /\ Fairness

-----------------------------------------------------------------------------
\* A session on screen that began and went on in order: no session ended
\* without logout before it, and no handlers overlapped.
InOrder == view \in SignedIn /\ ~stained /\ ~closing

\* Every variable keeps to its type.
TypeOK ==
    /\ account \in [Account -> [pub : Key, pw : Password,
                                sealed : [key : Key, pw : Password] \cup {NoBackup}]
                               \cup {NoAccount}]
    /\ made \in Key /\ keys \in Key
    /\ view \in SignedIn \cup {"login", "register"}
    /\ form \in [Form -> [pc : {"idle", "login", "register", "first", "decrypt", "me"},
                          acc : Account \cup {None}, pw : Password \cup {0}, key : Key,
                          sealed : [key : Key, pw : Password \cup {0}]]]
    /\ token \in Account \cup {None} /\ me \in Account \cup {None}
    /\ peers \subseteq {Home[a] : a \in Account}
    /\ socket \in [acc : Account \cup {None}, room : BOOLEAN]
    /\ store \in [name : NameOf \cup {None}, key : Key, holds : SUBSET Account]
    /\ file \in [NameOf -> [key : Key, holds : SUBSET Account]]
    /\ {expired, closing, offered, stained, untidy} \subseteq BOOLEAN
    /\ troubles \in 0..MaxTroubles

\* Whoever is shown as logged in is who the token speaks for, and, if that account
\* has a backup, the private keys in memory belong to the public ones the server
\* has of it, whatever was tried, refused, lost or left half done before.  Of an
\* account without a backup nothing is claimed: do_login leaves it the keys that
\* are in memory, which may be those of another account whose login failed late.
KeysAreOwn ==
    InOrder => me = token /\ token # None /\ (Backed(token) => keys = account[token].pub)

\* The connection was made with the token of the account on screen: what is
\* sent through it is not sent in the name of a former user.
SocketIsOwn == InOrder => socket.acc = token

\* The stores in memory, and the public keys looked up, are those of the
\* account on screen: a name that exists on two servers is two accounts.
StoresAreOwn ==
    InOrder => /\ store = NoStore \/ (store.name = Name[me] /\ store.key = keys)
               /\ peers \subseteq {Home[me]}

\* Whatever forms failed and whoever was logged in before, what the client works with
\* is one account's: the user shown, token, keys, connection, caches and stores.
SessionIsOwn == KeysAreOwn /\ SocketIsOwn /\ StoresAreOwn

\* As long as every session ended in order, the bodies that the store has for an
\* account with a backup are those this account decrypted: another account of the
\* same name, whose messages have the same numbers on another server, shares the
\* file but never its contents.  That its own bodies are kept is not claimed: the
\* other account's first message overwrites the file, the oldest go when the store
\* is full, and a failed write is logged only.
BodiesAreOwn ==
    InOrder /\ ~untidy => (Backed(me) => store.holds \subseteq {me})

\* A form that was sent comes back to the user, with the list of chats or with
\* an error and the button enabled, whichever of its requests fails.
FormsEnd == \A f \in Form : Active(f) ~> ~Active(f)

\* The docstring of at_rest.py: "The identity key is restored from the server
\* backup at every login".
RestoredAtEveryLogin ==
    \A f \in Form : form[f].pc = "decrypt" => form[f].sealed.pw = form[f].pw
=============================================================================
