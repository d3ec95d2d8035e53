--------------------------- MODULE SessionProofs ----------------------------
(***************************************************************************)
(* Proofs about Session: what the client works with belongs to one         *)
(* account, for any number of accounts, servers, names, keys and troubles. *)
(*                                                                         *)
(* Why it holds: a row never changes its keys once it is there (Rows), so  *)
(* what a form has learned of it stays true (Forms); as long as the        *)
(* session is not stained one form at most is under way, and only before   *)
(* anybody is logged in (Alone); and a client that shows nobody has        *)
(* neither connection nor stores (Clean).  A key pair is one account's     *)
(* (Fresh), and what a file holds was read with the key that seals it      *)
(* (Bodies).                                                               *)
(***************************************************************************)
EXTENDS Session, FiniteSetTheorems, TLAPS

\* The backup in a row holds the key pair of the row.
Rows ==
    \A a \in Account :
        \/ account[a] = NoAccount
        \/ Known(a) /\ account[a].sealed.key = account[a].pub /\ account[a].pw # 0

\* What a form knows of the account it was filled in for.
Forms ==
    /\ token # None => Known(token)
    /\ \A f \in Form :
         /\ form[f].pc \in {"login", "register", "first", "decrypt"} =>
              form[f].acc \in Account /\ form[f].pw \in Password
         /\ form[f].pc = "register" => form[f].key # 0
         /\ form[f].pc = "first" => Known(form[f].acc) /\ account[form[f].acc].pub = form[f].key
         /\ form[f].pc = "decrypt" =>
              Known(form[f].acc) /\ form[f].sealed.key = account[form[f].acc].pub

\* One form at a time, while nobody is logged in or logs out.
Alone ==
    ~stained => \A f \in Form : Active(f) =>
        /\ ~closing /\ view \notin SignedIn
        /\ \A g \in Form : Active(g) => g = f

\* What the form under way has put into the state.
Course ==
    ~stained => \A f \in Form :
        /\ form[f].pc = "first" => keys = form[f].key
        /\ form[f].pc = "decrypt" => token = form[f].acc
        /\ form[f].pc = "me" => token # None /\ (Backed(token) => keys = account[token].pub)

\* Who is not logged in has no connection, stores or looked-up keys.
Clean ==
    ~stained =>
        /\ closing => view \notin {"room", "profile"}
        /\ closing \/ view \notin SignedIn => socket = NoSocket
        /\ ~closing /\ view \notin SignedIn => store = NoStore /\ peers = {}

\* A store has the name of an account.
Named == store # NoStore => store.name \in NameOf

\* A key pair is made once and put into one row.
Fresh ==
    /\ \A a, b \in Account : account[a].pub # 0 /\ account[a].pub = account[b].pub => a = b
    /\ \A a \in Account : account[a].pub <= made
    /\ \A f \in Form : form[f].key <= made
    /\ \A f \in Form : form[f].pc = "register" =>
         /\ \A a \in Account : account[a].pub # form[f].key
         /\ \A g \in Form : form[g].pc = "register" /\ form[g].key = form[f].key => g = f

\* The bodies in a set are those of the owner of key k.
OwnedBy(accounts, k) == \A a \in accounts : account[a].pub # 0 /\ account[a].pub = k

\* As long as every session ended in order, a body is sealed with its reader's key.
Bodies ==
    /\ stained => untidy
    /\ ~untidy => /\ OwnedBy(store.holds, store.key)
                  /\ \A n \in NameOf : OwnedBy(file[n].holds, file[n].key)

Inv == TypeOK /\ Rows /\ Forms /\ Alone /\ Course /\ Clean /\ Named /\ Fresh /\ Bodies /\ SessionIsOwn

-----------------------------------------------------------------------------
(* Types.                                                                   *)

Rowed  == [pub : Key, pw : Password, sealed : [key : Key, pw : Password] \cup {NoBackup}]
Secret == [key : Key, pw : Password \cup {0}]
Doing  == [pc : {"idle", "login", "register", "first", "decrypt", "me"},
           acc : Account \cup {None}, pw : Password \cup {0}, key : Key, sealed : Secret]
Stored == [name : NameOf \cup {None}, key : Key, holds : SUBSET Account]

LEMMA KeyType == 0 \in Key /\ \A k \in Key : k < MaxKeys => k + 1 \in Key
BY SessionAssumption DEF Key

LEMMA IdleType == Idle \in Doing
BY KeyType DEF Idle, Doing, Secret, NoBackup

LEMMA RowType ==
  ASSUME NEW k \in Key, NEW p \in Password
  PROVE  RowOf(k, p) \in Rowed
BY DEF RowOf, Rowed

LEMMA OldRowType == ASSUME NEW p \in Password PROVE OldRow(p) \in Rowed
BY KeyType DEF OldRow, Rowed

LEMMA BeforeType ==
  /\ Cardinality(Registered) \in 0..MaxKeys
  /\ Before \in [Account -> Rowed \cup {NoAccount}]
<1>1. IsFiniteSet(Registered)
  BY SessionAssumption, FS_Subset DEF Registered
<1>2. Cardinality(Registered) \in 0..MaxKeys
  BY <1>1, SessionAssumption, FS_CardinalityType
<1>3. ASSUME NEW a \in Account
      PROVE  Before[a] \in Rowed \cup {NoAccount}
  <2>1. CASE Before[a] = NoAccount BY <2>1
  <2>2. CASE \E p \in Password : Before[a] = OldRow(p) BY <2>2, OldRowType
  <2>3. CASE \E k \in 1..Cardinality(Registered), p \in Password : Before[a] = RowOf(k, p)
    <3>1. PICK k \in 1..Cardinality(Registered), p \in Password : Before[a] = RowOf(k, p)
      BY <2>3
    <3>2. k \in Key BY <1>2, SessionAssumption DEF Key
    <3> QED BY <3>1, <3>2, RowType
  <2> QED BY <2>1, <2>2, <2>3, SessionAssumption
<1> QED BY <1>2, <1>3, SessionAssumption

LEMMA TypeInit == Init => TypeOK
<1> SUFFICES ASSUME Init PROVE TypeOK OBVIOUS
<1>1. account \in [Account -> Rowed \cup {NoAccount}]
  BY BeforeType DEF Init
<1>2. made \in Key BY BeforeType DEF Init, Key
<1>3. form \in [Form -> Doing] BY IdleType DEF Init
<1>4. store \in Stored /\ file \in [NameOf -> [key : Key, holds : SUBSET Account]]
  BY KeyType DEF Init, NoStore, Stored
<1>5. socket \in [acc : Account \cup {None}, room : BOOLEAN] BY DEF Init, NoSocket
<1>6. troubles \in 0..MaxTroubles BY SessionAssumption DEF Init
<1> QED BY <1>1, <1>2, <1>3, <1>4, <1>5, <1>6, KeyType
        DEF Init, TypeOK, SignedIn, Doing, Secret, Stored, Rowed

\* TypeOK in parts.
LEMMA TypeParts ==
  TypeOK <=>
    /\ account \in [Account -> Rowed \cup {NoAccount}]
    /\ made \in Key /\ keys \in Key
    /\ view \in SignedIn \cup {"login", "register"}
    /\ form \in [Form -> Doing]
    /\ token \in Account \cup {None} /\ me \in Account \cup {None}
    /\ peers \subseteq {Home[a] : a \in Account}
    /\ socket \in [acc : Account \cup {None}, room : BOOLEAN]
    /\ store \in Stored
    /\ file \in [NameOf -> [key : Key, holds : SUBSET Account]]
    /\ {expired, closing, offered, stained, untidy} \subseteq BOOLEAN
    /\ troubles \in 0..MaxTroubles
BY DEF TypeOK, Doing, Secret, Stored, Rowed

LEMMA TroubleType ==
  TypeOK /\ Trouble => troubles' \in 0..MaxTroubles
BY SessionAssumption DEF TypeOK, Trouble

LEMMA GoOnType ==
  TypeOK /\ GoOn => troubles' \in 0..MaxTroubles /\ stained' \in BOOLEAN
BY TroubleType DEF TypeOK, GoOn

\* A form takes another step, or is back with the user.
LEMMA GotoType ==
  ASSUME TypeOK, NEW f \in Form,
         \/ Enable(f) \/ AskMe(f)
         \/ \E p \in {"first", "decrypt"} : Goto(f, p)
  PROVE  form' \in [Form -> Doing]
<1>1. form \in [Form -> Doing] BY TypeParts
<1>2. [Idle EXCEPT !.pc = "me"] \in Doing BY IdleType DEF Doing
<1> QED BY <1>1, <1>2, IdleType DEF Enable, AskMe, Goto, Doing

LEMMA BeginType ==
  ASSUME TypeOK, NEW f \in Form, NEW t \in Doing, Begin(f, t)
  PROVE  form' \in [Form -> Doing] /\ troubles' \in 0..MaxTroubles /\ stained' \in BOOLEAN
<1>1. form' \in [Form -> Doing] BY TypeParts DEF Begin
<1>2. CASE closing \/ \E g \in Form : Active(g) BY <1>1, <1>2, TroubleType DEF Begin
<1>3. CASE ~(closing \/ \E g \in Form : Active(g)) BY <1>1, <1>3 DEF Begin, TypeOK
<1> QED BY <1>2, <1>3

LEMMA StepType == ASSUME TypeOK, Rows, Forms, Noted, NEW f \in Form, Step(f) PROVE TypeOK'
<1>u. untidy' \in BOOLEAN BY DEF Noted
<1> USE <1>u
<1>0. form \in [Form -> Doing] /\ form[f] \in Doing BY TypeParts
<1>1. CASE Register(f)
  <2>1. form' \in [Form -> Doing] /\ keys' \in Key BY <1>0, <1>1, GotoType DEF Register, TypeOK, Doing
  <2>2. account' \in [Account -> Rowed \cup {NoAccount}]
    <3>1. form[f].acc \in Account /\ form[f].pw \in Password BY <1>1 DEF Forms, Register
    <3>2. Row(f) \in Rowed
      BY <1>0, <3>1, RowType DEF Row, Doing
    <3>3. account' = account \/ account' = [account EXCEPT ![form[f].acc] = Row(f)]
      BY <1>1 DEF Register
    <3> QED BY <3>1, <3>2, <3>3 DEF TypeOK, Rowed
  <2>3. troubles' \in 0..MaxTroubles BY <1>1, TroubleType DEF Register, TypeOK
  <2> QED BY <1>1, <2>1, <2>2, <2>3 DEF TypeOK, Doing, Secret, Stored, Rowed, Register, screen, kept
<1>2. CASE Login(f)
  <2>1. form[f].acc \in Account BY <1>2 DEF Forms, Login
  <2>2. account[form[f].acc].sealed \in Secret
    BY <2>1, KeyType DEF TypeOK, Secret, NoAccount, NoBackup
  <2>3. form' \in [Form -> Doing]
    <3>1. CASE Enable(f) BY <3>1, GotoType
    <3>2. CASE form' = [form EXCEPT ![f] = [Idle EXCEPT !.pc = "me"]]
      BY <3>2, GotoType DEF AskMe
    <3>3. CASE form' = [form EXCEPT ![f] = [@ EXCEPT !.pc = "decrypt", !.sealed = account[form[f].acc].sealed]]
      BY <1>0, <2>2, <3>3 DEF Doing
    <3> QED BY <1>0, <1>2, <3>1, <3>2, <3>3 DEF Login
  <2>4. token' \in Account \cup {None} /\ expired' \in BOOLEAN /\ troubles' \in 0..MaxTroubles
    BY <1>2, <2>1, TroubleType DEF Login, TypeOK
  <2> QED BY <1>2, <2>3, <2>4 DEF TypeOK, Doing, Secret, Stored, Login, screen, kept
<1>3. CASE Decrypt(f)
  <2>1. form' \in [Form -> Doing] /\ keys' \in Key
    BY <1>0, <1>3, GotoType DEF Decrypt, TypeOK, Doing, Secret
  <2> QED BY <1>3, <2>1 DEF TypeOK, Doing, Secret, Stored, Decrypt, screen, kept
<1>4. CASE Me(f)
  <2>1. form' \in [Form -> Doing] BY <1>4, GotoType DEF Me
  <2>2. me' \in Account \cup {None} /\ view' \in SignedIn \cup {"login", "register"}
    BY <1>4 DEF Me, TypeOK, SignedIn
  <2>3. socket' \in [acc : Account \cup {None}, room : BOOLEAN]
    BY <1>4 DEF Me, TypeOK, Notified, NoSocket
  <2>4. troubles' \in 0..MaxTroubles BY <1>4, TroubleType DEF Me, TypeOK
  <2> QED BY <1>4, <2>1, <2>2, <2>3, <2>4 DEF TypeOK, Doing, Secret, Stored, Me
<1> QED BY <1>1, <1>2, <1>3, <1>4 DEF Step

LEMMA StoreType ==
  ASSUME TypeOK, Named, me # None
  PROVE  /\ Store \in Stored /\ Store.name \in NameOf
         /\ store = NoStore => Store.name = Name[me] /\ Store.key = keys
<1>1. me \in Account BY DEF TypeOK
<1>2. CASE store # NoStore BY <1>2, TypeParts DEF Named, Store
<1>3. CASE store = NoStore
  <2>1. Name[me] \in NameOf BY <1>1 DEF NameOf
  <2> QED BY <1>3, <2>1 DEF Store, Opened, TypeOK, Stored
<1> QED BY <1>2, <1>3

\* What reading writes: the store as it was, the oldest bodies gone, with one more.
LEMMA ReadSteps ==
  ASSUME TypeOK, Named, NEW a \in Account, Read(a)
  PROVE  /\ me # None /\ store' \in Stored
         /\ store'.name = Store.name /\ store'.key = Store.key
         /\ store'.holds \subseteq Store.holds \cup {a}
         /\ \/ file' = file
            \/ file' = [file EXCEPT ![store'.name] = [key |-> store'.key, holds |-> store'.holds]]
<1>1. me # None BY DEF Read
<1>2. PICK others \in SUBSET Store.holds : store' = [Store EXCEPT !.holds = others \cup {a}]
  BY DEF Read
<1>3. Store \in Stored BY <1>1, StoreType
<1>4. /\ store' \in Stored /\ store'.name = Store.name /\ store'.key = Store.key
      /\ store'.holds = others \cup {a}
  BY <1>2, <1>3 DEF Stored
<1>5. file' = file \/ file' = [file EXCEPT ![Store.name] = [key |-> store'.key, holds |-> store'.holds]]
  BY DEF Read
<1> QED BY <1>1, <1>2, <1>4, <1>5

LEMMA ReadType ==
  ASSUME TypeOK, Named, Noted, NEW a \in Account, Read(a) \/ LookUp PROVE TypeOK' /\ Named'
<1>1. untidy' \in BOOLEAN BY DEF Noted, Read, LookUp, TypeOK
<1>2. CASE LookUp
  <2>1. store' \in Stored /\ store'.name \in NameOf BY <1>2, StoreType DEF LookUp
  <2> QED BY <1>1, <1>2, <2>1 DEF TypeOK, Doing, Secret, Stored, LookUp, screen, session, Named
<1>3. CASE Read(a)
  <2>1. store' \in Stored /\ store'.name \in NameOf BY <1>3, ReadSteps, StoreType
  <2>2. file' \in [NameOf -> [key : Key, holds : SUBSET Account]]
    <3>1. [key |-> store'.key, holds |-> store'.holds] \in [key : Key, holds : SUBSET Account]
      BY <2>1 DEF Stored
    <3> QED BY <1>3, <2>1, <3>1, ReadSteps DEF TypeOK
  <2>3. token \in Account /\ peers' = peers \cup {Home[token]} BY <1>3 DEF Read, TypeOK
  <2>4. peers' \subseteq {Home[x] : x \in Account} BY <2>3 DEF TypeOK
  <2>5. troubles' \in 0..MaxTroubles BY <1>3, TroubleType DEF Read, TypeOK
  <2> QED BY <1>1, <1>3, <2>1, <2>2, <2>4, <2>5
          DEF TypeOK, Doing, Secret, Stored, Read, screen, session, Named
<1> QED BY <1>2, <1>3

LEMMA TypeNext == ASSUME TypeOK, Rows, Forms, Named, [Next]_vars PROVE TypeOK'
<1>n. CASE UNCHANGED vars BY <1>n DEF vars, TypeOK, screen, session, kept
<1> SUFFICES ASSUME Next PROVE TypeOK' BY <1>n
<1>w. Noted BY DEF Next
<1>u. untidy' \in BOOLEAN BY <1>w DEF Noted
<1> USE <1>u
<1>1. ASSUME NEW f \in Form, BeginLogin(f) PROVE TypeOK'
  <2>1. PICK a \in Account, p \in Password :
          Begin(f, [Idle EXCEPT !.pc = "login", !.acc = a, !.pw = p])
    BY <1>1 DEF BeginLogin
  <2>2. [Idle EXCEPT !.pc = "login", !.acc = a, !.pw = p] \in Doing BY IdleType DEF Doing
  <2> QED BY <1>1, <2>1, <2>2, BeginType DEF TypeOK, Doing, Secret, Stored, BeginLogin, screen, session, kept
<1>2. ASSUME NEW f \in Form, BeginRegister(f) PROVE TypeOK'
  <2>1. PICK a \in Account, p \in Password :
          Begin(f, [Idle EXCEPT !.pc = "register", !.acc = a, !.pw = p, !.key = made + 1])
    BY <1>2 DEF BeginRegister
  <2>2. made + 1 \in Key BY <1>2, KeyType DEF BeginRegister, TypeOK
  <2>3. [Idle EXCEPT !.pc = "register", !.acc = a, !.pw = p, !.key = made + 1] \in Doing
    BY <2>2, IdleType DEF Doing
  <2> QED BY <1>2, <2>1, <2>2, <2>3, BeginType DEF TypeOK, Doing, Secret, Stored, BeginRegister, screen, session, kept
<1>3. ASSUME NEW f \in Form, Step(f) PROVE TypeOK' BY <1>w, <1>3, StepType
<1>4. CASE Switch BY <1>4 DEF Switch, TypeOK, session, kept, SignedIn
<1>5. CASE OpenRoom
  <2>1. [acc |-> token, room |-> TRUE] \in [acc : Account \cup {None}, room : BOOLEAN] BY DEF TypeOK
  <2>2. socket' \in [acc : Account \cup {None}, room : BOOLEAN] BY <1>5, <2>1 DEF OpenRoom, TypeOK
  <2> QED BY <1>5, <2>2, GoOnType DEF TypeOK, Doing, Secret, Stored, OpenRoom, session, SignedIn
<1>6. CASE OpenProfile BY <1>6, GoOnType DEF TypeOK, Doing, Secret, Stored, OpenProfile, session, kept, SignedIn
<1>7. CASE GoBack
  <2>1. socket' \in [acc : Account \cup {None}, room : BOOLEAN]
    BY <1>7 DEF GoBack, TypeOK, Notified, NoSocket
  <2> QED BY <1>7, <2>1, GoOnType DEF TypeOK, Doing, Secret, Stored, GoBack, session, SignedIn
<1>8. ASSUME NEW a \in Account, Read(a) \/ LookUp PROVE TypeOK' BY <1>w, <1>8, ReadType
<1>9. CASE Expire BY <1>9, TroubleType DEF TypeOK, Doing, Secret, Stored, Expire, screen, kept
<1>10. CASE SessionExpired BY <1>10 DEF TypeOK, Doing, Secret, Stored, SessionExpired, kept
<1>11. CASE ChangePassword
  <2>1. PICK p \in Password : account' = [account EXCEPT ![token].pw = p]
    BY <1>11 DEF ChangePassword
  <2>2. token \in Account /\ account[token] # NoAccount
    BY <1>11 DEF ChangePassword, TypeOK, Forms, Known, NoAccount
  <2>3. account' \in [Account -> Rowed \cup {NoAccount}]
    BY <2>1, <2>2 DEF TypeOK, Rowed
  <2> QED BY <1>11, <2>3 DEF TypeOK, Doing, Secret, Stored, Rowed, ChangePassword, screen, session, kept
<1>12. CASE Logout
  <2>1. socket' \in [acc : Account \cup {None}, room : BOOLEAN] BY <1>12 DEF Logout, NoSocket
  <2> QED BY <1>12, <2>1 DEF TypeOK, Doing, Secret, Stored, Logout, screen, session
<1>13. CASE LoggedOut
  <2>1. keys' \in Key /\ store' \in Stored
    BY <1>13, KeyType DEF LoggedOut, Cleared, NoStore, Stored
  <2> QED BY <1>13, <2>1 DEF TypeOK, Doing, Secret, Stored, LoggedOut, Cleared
<1>14. CASE Restart
  <2>1. keys' \in Key /\ store' \in Stored
    BY <1>14, KeyType DEF Restart, Cleared, NoStore, Stored
  <2>2. socket' \in [acc : Account \cup {None}, room : BOOLEAN] BY <1>14 DEF Restart, NoSocket
  <2>3. form' \in [Form -> Doing] BY <1>14, IdleType DEF Restart
  <2> QED BY <1>14, <2>1, <2>2, <2>3 DEF TypeOK, Doing, Secret, Stored, Restart, Cleared
<1>15. CASE LookUp
  <2>1. me \in Account BY <1>15 DEF LookUp, TypeOK
  <2> QED BY <1>8, <1>15, <2>1
<1> QED BY <1>1, <1>2, <1>3, <1>4, <1>5, <1>6, <1>7, <1>8, <1>9, <1>10, <1>11, <1>12, <1>13,
           <1>14, <1>15 DEF Next

-----------------------------------------------------------------------------
(* Rows and forms.                                                          *)

\* The row of an account is inserted once, and then only its password changes.
LEMMA AccountSteps ==
  ASSUME TypeOK, Forms, [Next]_vars
  PROVE  \/ account' = account
         \/ \E f \in Form : /\ form[f].pc = "register" /\ ~Known(form[f].acc)
                            /\ account' = [account EXCEPT ![form[f].acc] = Row(f)]
                            /\ form'[f].pc # "register" /\ made' = made
         \/ /\ token \in Account /\ Known(token)
            /\ \E p \in Password : account' = [account EXCEPT ![token].pw = p]
<1>1. ASSUME NEW f \in Form, Step(f)
      PROVE  account' = account
             \/ /\ form[f].pc = "register" /\ ~Known(form[f].acc)
                /\ account' = [account EXCEPT ![form[f].acc] = Row(f)]
                /\ form'[f].pc # "register" /\ made' = made
  <2>1. CASE Register(f)
    <3>1. form \in [Form -> Doing] BY TypeParts
    <3>2. Enable(f) \/ Goto(f, "first") => form'[f].pc # "register"
      BY <3>1 DEF Enable, Goto, Idle, Doing
    <3> QED BY <2>1, <3>2 DEF Register
  <2> QED BY <1>1, <2>1 DEF Step, Login, Decrypt, Me
<1>2. CASE ChangePassword BY <1>2 DEF ChangePassword, Forms, TypeOK
<1>3. CASE \/ \E f \in Form : BeginLogin(f) \/ BeginRegister(f)
           \/ Switch \/ OpenRoom \/ OpenProfile \/ GoBack
           \/ LookUp \/ \E a \in Account : Read(a)
           \/ Expire \/ SessionExpired \/ Logout \/ LoggedOut \/ Restart
  BY <1>3 DEF BeginLogin, BeginRegister, Switch, OpenRoom, OpenProfile, GoBack, LookUp, Read, Expire,
              SessionExpired, Logout, LoggedOut, Restart
<1>4. CASE UNCHANGED vars BY <1>4 DEF vars
<1> QED BY <1>1, <1>2, <1>3, <1>4 DEF Next

\* Only do_register makes a key pair.
LEMMA FormSteps ==
  ASSUME TypeOK, [Next]_vars
  PROVE  \/ /\ made' = made
            /\ \A g \in Form : /\ form'[g].pc = "register" => form'[g] = form[g]
                               /\ form'[g].key \in {0, form[g].key}
         \/ \E f \in Form : /\ made' = made + 1 /\ account' = account
                            /\ form'[f].key = made + 1
                            /\ \A g \in Form \ {f} : form'[g] = form[g]
<1>0. /\ form \in [Form -> Doing] /\ Idle.pc = "idle" /\ Idle.key = 0
      /\ [Idle EXCEPT !.pc = "me"].pc = "me" /\ [Idle EXCEPT !.pc = "me"].key = 0
  BY TypeParts DEF Idle
<1>1. ASSUME NEW f \in Form, Step(f)
      PROVE  /\ made' = made
             /\ form'[f].pc # "register" /\ form'[f].key \in {0, form[f].key}
             /\ \A g \in Form \ {f} : form'[g] = form[g]
  BY <1>0, <1>1 DEF Step, Register, Login, Decrypt, Me, Enable, AskMe, Goto, Doing
<1>2. ASSUME NEW f \in Form, BeginLogin(f)
      PROVE  /\ made' = made /\ form'[f].pc # "register" /\ form'[f].key = 0
             /\ \A g \in Form \ {f} : form'[g] = form[g]
  <2>1. PICK a \in Account, p \in Password :
          form' = [form EXCEPT ![f] = [Idle EXCEPT !.pc = "login", !.acc = a, !.pw = p]]
    BY <1>2 DEF BeginLogin, Begin
  <2> QED BY <1>0, <1>2, <2>1 DEF BeginLogin, Idle
<1>3. ASSUME NEW f \in Form, BeginRegister(f)
      PROVE  /\ made' = made + 1 /\ account' = account /\ form'[f].key = made + 1
             /\ \A g \in Form \ {f} : form'[g] = form[g]
  <2>1. PICK a \in Account, p \in Password :
          form' = [form EXCEPT ![f] =
                     [Idle EXCEPT !.pc = "register", !.acc = a, !.pw = p, !.key = made + 1]]
    BY <1>3 DEF BeginRegister, Begin
  <2> QED BY <1>0, <1>3, <2>1 DEF BeginRegister, Idle
<1>4. CASE \/ Switch \/ OpenRoom \/ OpenProfile \/ GoBack
           \/ LookUp \/ \E a \in Account : Read(a)
           \/ Expire \/ SessionExpired \/ ChangePassword \/ Logout \/ LoggedOut \/ Restart
           \/ UNCHANGED vars
  <2>1. made' = made /\ (form' = form \/ form' = [f \in Form |-> Idle])
    BY <1>4 DEF Switch, OpenRoom, OpenProfile, GoBack, LookUp, Read, Expire, SessionExpired,
                ChangePassword, Logout, LoggedOut, Restart, vars
  <2> QED BY <1>0, <2>1
<1> QED BY <1>1, <1>2, <1>3, <1>4 DEF Next

\* The row of account a is there, with its keys and its backup.
KeptRow(a) ==
    Known(a)' /\ account'[a].pub = account[a].pub /\ account'[a].sealed = account[a].sealed

LEMMA RowsNext ==
  ASSUME TypeOK, Rows, Forms, [Next]_vars
  PROVE  Rows' /\ \A a \in Account : Known(a) => KeptRow(a)
<1>1. CASE account' = account BY <1>1 DEF Rows, Known, KeptRow
<1>2. ASSUME NEW f \in Form, form[f].pc = "register", ~Known(form[f].acc),
             account' = [account EXCEPT ![form[f].acc] = Row(f)]
      PROVE  Rows' /\ \A a \in Account : Known(a) => KeptRow(a)
  <2>1. form[f].acc \in Account /\ form[f].pw # 0 /\ form[f].key # 0
    BY <1>2, SessionAssumption DEF Forms
  <2>2. /\ account'[form[f].acc].pub = form[f].key
        /\ account'[form[f].acc].sealed.key = form[f].key
        /\ account'[form[f].acc].pw = form[f].pw
    BY <1>2, <2>1 DEF Row, RowOf, TypeOK
  <2>3. \A a \in Account \ {form[f].acc} : account'[a] = account[a] BY <1>2, <2>1 DEF TypeOK
  <2> QED BY <1>2, <2>1, <2>2, <2>3 DEF Rows, Known, KeptRow
<1>3. ASSUME token \in Account, Known(token), NEW p \in Password,
             account' = [account EXCEPT ![token].pw = p]
      PROVE  Rows' /\ \A a \in Account : Known(a) => KeptRow(a)
  <2>1. account[token] \in Rowed
    BY <1>3 DEF TypeOK, Known, NoAccount, Rowed
  <2>2. account'[token] = [account[token] EXCEPT !.pw = p] BY <1>3 DEF TypeOK
  <2>3. /\ account'[token].pub = account[token].pub /\ account'[token].sealed = account[token].sealed
        /\ account'[token].pw # 0
    BY <2>1, <2>2, SessionAssumption DEF Rowed
  <2>4. account[token] # NoAccount BY <1>3 DEF Known, NoAccount
  <2>5. \A a \in Account \ {token} : account'[a] = account[a] BY <1>3 DEF TypeOK
  <2>6. Rows' BY <1>3, <2>3, <2>4, <2>5 DEF Rows, Known
  <2> QED BY <2>3, <2>5, <2>6 DEF Known, KeptRow
<1> QED BY <1>1, <1>2, <1>3, AccountSteps

\* Steps in which forms at most go back to the user or ask who is logged in.
LEMMA FormsStay ==
  ASSUME TypeOK, Rows, Forms, [Next]_vars, token' \in {token, None},
         \A f \in Form : form'[f] = form[f] \/ form'[f].pc \in {"idle", "me"}
  PROVE  Forms'
<1>1. \A a \in Account : Known(a) => Known(a)' /\ account'[a].pub = account[a].pub BY RowsNext DEF KeptRow
<1>2. token' # None => Known(token)' BY <1>1 DEF Forms, TypeOK
<1>3. ASSUME NEW f \in Form, form'[f] = form[f]
      PROVE  /\ form'[f].pc \in {"login", "register", "first", "decrypt"} =>
                  form'[f].acc \in Account /\ form'[f].pw \in Password
             /\ form'[f].pc = "register" => form'[f].key # 0
             /\ form'[f].pc = "first" =>
                  account'[form'[f].acc].pw # 0 /\ account'[form'[f].acc].pub = form'[f].key
             /\ form'[f].pc = "decrypt" =>
                  account'[form'[f].acc].pw # 0 /\ form'[f].sealed.key = account'[form'[f].acc].pub
  <2>1. form'[f].pc \in {"login", "register", "first", "decrypt"} =>
          form'[f].acc \in Account /\ form'[f].pw \in Password
    BY <1>3 DEF Forms
  <2>2. form[f].pc \in {"first", "decrypt"} => form[f].acc \in Account BY DEF Forms
  <2> QED BY <1>1, <1>3, <2>1, <2>2 DEF Forms, Known
<1> QED BY <1>2, <1>3 DEF Forms, Known

LEMMA FormsNext ==
  ASSUME TypeOK, Rows, Forms, [Next]_vars
  PROVE  Forms'
<1>a. \A a \in Account : Known(a) => Known(a)' /\ account'[a].pub = account[a].pub BY RowsNext DEF KeptRow
<1>b. form \in [Form -> Doing] BY TypeParts
<1>c. Idle.pc = "idle" /\ [Idle EXCEPT !.pc = "me"].pc = "me" BY DEF Idle
<1>1. ASSUME NEW f \in Form, BeginLogin(f) \/ BeginRegister(f) PROVE Forms'
  <2>1. UNCHANGED <<account, token>> BY <1>1 DEF BeginLogin, BeginRegister, session
  <2>2. CASE BeginLogin(f)
    <3>1. PICK a \in Account, p \in Password :
            Begin(f, [Idle EXCEPT !.pc = "login", !.acc = a, !.pw = p])
      BY <2>2 DEF BeginLogin
    <3>2. form' = [form EXCEPT ![f] = [Idle EXCEPT !.pc = "login", !.acc = a, !.pw = p]]
      BY <3>1 DEF Begin
    <3>3. /\ form'[f].pc = "login" /\ form'[f].acc = a /\ form'[f].pw = p
          /\ \A g \in Form \ {f} : form'[g] = form[g]
      BY <1>b, <3>2 DEF Idle
    <3> QED BY <2>1, <3>3 DEF Forms, Known
  <2>3. CASE BeginRegister(f)
    <3>1. PICK a \in Account, p \in Password :
            Begin(f, [Idle EXCEPT !.pc = "register", !.acc = a, !.pw = p, !.key = made + 1])
      BY <2>3 DEF BeginRegister
    <3>2. form' = [form EXCEPT ![f] =
                     [Idle EXCEPT !.pc = "register", !.acc = a, !.pw = p, !.key = made + 1]]
      BY <3>1 DEF Begin
    <3>3. /\ form'[f].pc = "register" /\ form'[f].acc = a /\ form'[f].pw = p
          /\ form'[f].key = made + 1
          /\ \A g \in Form \ {f} : form'[g] = form[g]
      BY <1>b, <3>2 DEF Idle
    <3>4. made + 1 # 0 BY SessionAssumption DEF TypeOK, Key
    <3> QED BY <2>1, <3>3, <3>4 DEF Forms, Known
  <2> QED BY <1>1, <2>2, <2>3
<1>2. ASSUME NEW f \in Form, Register(f), form'[f].pc = "first" PROVE Forms'
  <2>1. form[f].acc \in Account /\ form[f].pw \in Password /\ form[f].key # 0
    BY <1>2 DEF Forms, Register
  <2>2. /\ account' = [account EXCEPT ![form[f].acc] = Row(f)]
        /\ form' = [form EXCEPT ![f].pc = "first"]
    BY <1>b, <1>c, <1>2 DEF Register, Enable, Goto
  <2>3. account'[form[f].acc].pub = form[f].key /\ account'[form[f].acc].pw # 0
    BY <2>1, <2>2, SessionAssumption DEF TypeOK, Row, RowOf
  <2>4. /\ form'[f].acc = form[f].acc /\ form'[f].pw = form[f].pw /\ form'[f].key = form[f].key
        /\ form'[f].pc = "first" /\ \A g \in Form \ {f} : form'[g] = form[g]
    BY <1>b, <2>2 DEF Doing
  <2>5. token' = token BY <1>2 DEF Register
  <2>6. token' # None => Known(token)' BY <1>a, <2>5 DEF Forms, TypeOK
  <2>7. ASSUME NEW g \in Form \ {f}
        PROVE  /\ form[g].pc = "first" =>
                    account'[form[g].acc].pw # 0 /\ account'[form[g].acc].pub = form[g].key
               /\ form[g].pc = "decrypt" =>
                    account'[form[g].acc].pw # 0 /\ form[g].sealed.key = account'[form[g].acc].pub
    <3>1. form[g].pc \in {"first", "decrypt"} => form[g].acc \in Account BY DEF Forms
    <3> QED BY <1>a, <3>1 DEF Forms, Known
  <2> QED BY <2>1, <2>3, <2>4, <2>6, <2>7 DEF Forms, Known
<1>3. ASSUME NEW f \in Form, Login(f), form'[f].pc # "idle" PROVE Forms'
  <2>1. form[f].acc \in Account /\ form[f].pw \in Password BY <1>3 DEF Forms, Login
  <2>2. /\ account[form[f].acc].pw = form[f].pw /\ token' = form[f].acc /\ account' = account
        /\ form' = [form EXCEPT ![f] = IF @.pc = "first" \/ ~Backed(form[f].acc) THEN [Idle EXCEPT !.pc = "me"]
                      ELSE [@ EXCEPT !.pc = "decrypt", !.sealed = account[form[f].acc].sealed]]
    BY <1>b, <1>c, <1>3 DEF Login, Enable
  <2>3. Known(form[f].acc) /\ account[form[f].acc].sealed.key = account[form[f].acc].pub
    BY <2>1, <2>2, SessionAssumption DEF Rows, NoAccount, Known
  <2>4. \A g \in Form \ {f} : form'[g] = form[g] BY <1>b, <2>2
  <2>5. \/ form'[f].pc = "me"
        \/ /\ form'[f].pc = "decrypt" /\ form'[f].acc = form[f].acc /\ form'[f].pw = form[f].pw
           /\ form'[f].sealed = account[form[f].acc].sealed
    BY <1>b, <1>c, <2>2 DEF Doing
  <2> QED BY <2>1, <2>2, <2>3, <2>4, <2>5 DEF Forms, Known
<1>4. CASE \E f \in Form : Register(f) /\ form'[f].pc # "first"
  BY <1>4, <1>b, <1>c, FormsStay DEF Register, Enable, Goto, Doing
<1>5. CASE \E f \in Form : Login(f) /\ form'[f].pc = "idle"
  <2>1. PICK f \in Form : Login(f) /\ form'[f].pc = "idle" BY <1>5
  <2>2. form' = [form EXCEPT ![f] = Idle] /\ token' = token
    BY <1>b, <1>c, <2>1 DEF Login, Enable, Doing
  <2> QED BY <1>b, <1>c, <2>2, FormsStay
<1>6. CASE \E f \in Form : Decrypt(f) \/ Me(f)
  BY <1>6, <1>b, <1>c, FormsStay DEF Decrypt, Me, Enable, AskMe
<1>7. CASE \/ Switch \/ OpenRoom \/ OpenProfile \/ GoBack
           \/ LookUp \/ \E a \in Account : Read(a)
           \/ Expire \/ SessionExpired \/ ChangePassword \/ Logout \/ LoggedOut \/ Restart
           \/ UNCHANGED vars
  <2>1. token' \in {token, None} /\ (form' = form \/ form' = [f \in Form |-> Idle])
    BY <1>7 DEF Switch, OpenRoom, OpenProfile, GoBack, LookUp, Read, Expire, SessionExpired,
                ChangePassword, Logout, LoggedOut, Restart, vars, session
  <2> QED BY <1>c, <2>1, FormsStay
<1> QED BY <1>1, <1>2, <1>3, <1>4, <1>5, <1>6, <1>7 DEF Next, Step

-----------------------------------------------------------------------------
(* The files.                                                               *)

\* Only reading writes a file, and then the one of the store in memory.
LEMMA FileSteps ==
  ASSUME [Next]_vars
  PROVE  \/ LookUp \/ \E a \in Account : Read(a)
         \/ file' = file /\ (store' = store \/ store' = NoStore)
<1>1. ASSUME NEW f \in Form, Step(f) PROVE file' = file /\ store' = store
  BY <1>1 DEF Step, Register, Login, Decrypt, Me, kept
<1>2. CASE \/ \E f \in Form : BeginLogin(f) \/ BeginRegister(f)
           \/ Switch \/ OpenRoom \/ OpenProfile \/ GoBack
           \/ Expire \/ SessionExpired \/ ChangePassword \/ Logout \/ LoggedOut \/ Restart
           \/ UNCHANGED vars
  BY <1>2 DEF BeginLogin, BeginRegister, Switch, OpenRoom, OpenProfile, GoBack, Expire,
              SessionExpired, ChangePassword, Logout, LoggedOut, Restart, Cleared, vars, kept
<1> QED BY <1>1, <1>2 DEF Next

LEMMA NamedNext == ASSUME TypeOK, Named, [Next]_vars PROVE Named'
<1>1. CASE \E a \in Account : Read(a)
  BY <1>1, ReadSteps, StoreType DEF Named
<1>2. CASE LookUp BY <1>2, StoreType DEF LookUp, Named
<1>3. CASE file' = file /\ (store' = store \/ store' = NoStore) BY <1>3 DEF Named
<1> QED BY <1>1, <1>2, <1>3, FileSteps

-----------------------------------------------------------------------------
(* Whose keys, and whose bodies.                                            *)

LEMMA FreshNext ==
  ASSUME TypeOK, Forms, Fresh, [Next]_vars
  PROVE  Fresh'
<1>1. made \in Nat /\ (\A f \in Form : form[f].key \in Nat) /\ \A a \in Account : account[a].pub \in Nat
  BY SessionAssumption, TypeParts DEF Key, Doing, Rowed, NoAccount
<1>2. ASSUME \A a \in Account : account'[a].pub = account[a].pub PROVE Fresh'
  <2>1. CASE /\ made' = made
             /\ \A g \in Form : /\ form'[g].pc = "register" => form'[g] = form[g]
                                /\ form'[g].key \in {0, form[g].key}
    BY <1>1, <1>2, <2>1 DEF Fresh
  <2>2. ASSUME NEW f \in Form, made' = made + 1, form'[f].key = made + 1,
               \A g \in Form \ {f} : form'[g] = form[g]
        PROVE  Fresh'
    BY <1>1, <1>2, <2>2 DEF Fresh
  <2> QED BY <2>1, <2>2, FormSteps
<1>3. ASSUME NEW f \in Form, form[f].pc = "register", made' = made, form'[f].pc # "register",
             ~Known(form[f].acc), account' = [account EXCEPT ![form[f].acc] = Row(f)]
      PROVE  Fresh'
  <2>1. /\ form[f].acc \in Account /\ account'[form[f].acc].pub = form[f].key
        /\ \A a \in Account \ {form[f].acc} : account'[a].pub = account[a].pub
    BY <1>3 DEF Forms, Row, RowOf, TypeOK
  <2>2. \A g \in Form : /\ form'[g].pc = "register" => form'[g] = form[g]
                        /\ form'[g].key \in {0, form[g].key}
    BY <1>1, <1>3, FormSteps
  <2> QED BY <1>1, <1>3, <2>1, <2>2 DEF Fresh
<1>4. ASSUME token \in Account, Known(token), NEW p \in Password,
             account' = [account EXCEPT ![token].pw = p]
      PROVE  Fresh'
  <2>1. account[token] \in Rowed BY <1>4, TypeParts DEF Known, NoAccount
  <2>2. \A a \in Account : account'[a].pub = account[a].pub BY <1>4, <2>1 DEF TypeOK, Rowed
  <2> QED BY <1>2, <2>2
<1> QED BY <1>2, <1>3, <1>4, AccountSteps

\* The store that is asked or written next has bodies of its key's owner only.
LEMMA StoreOwned ==
  ASSUME TypeOK, Named, Clean, Bodies, SessionIsOwn, ~untidy, me # None, view = "room"
  PROVE  OwnedBy(Store.holds, Store.key) /\ Store.key = keys
<1>1. InOrder BY DEF Bodies, Clean, InOrder, SignedIn
<1>2. CASE store # NoStore
  BY <1>1, <1>2 DEF Bodies, Store, SessionIsOwn, StoresAreOwn
<1>3. CASE store = NoStore
  <2>1. Name[me] \in NameOf BY DEF TypeOK, NameOf
  <2>2. OwnedBy(file[Name[me]].holds, file[Name[me]].key) BY <2>1 DEF Bodies
  <2>3. Store = [name |-> Name[me], key |-> keys,
                 holds |-> IF file[Name[me]].key = keys THEN file[Name[me]].holds ELSE {}]
    BY <1>3 DEF Store, Opened
  <2> QED BY <2>2, <2>3 DEF OwnedBy
<1> QED BY <1>2, <1>3

LEMMA BodiesNext ==
  ASSUME Inv, [Next]_vars
  PROVE  Bodies'
<1>0. TypeOK /\ Rows /\ Forms /\ Named /\ Clean /\ Bodies /\ SessionIsOwn BY DEF Inv
<1>1. (stained' => untidy') /\ (~untidy' => ~untidy)
  <2>1. CASE Noted BY <1>0, <2>1 DEF Noted, TypeOK
  <2>2. CASE UNCHANGED vars BY <1>0, <2>2 DEF vars, Bodies
  <2> QED BY <2>1, <2>2 DEF Next
<1>2. CASE untidy' BY <1>2 DEF Bodies
<1> SUFFICES ASSUME ~untidy' PROVE Bodies' BY <1>2
<1>3. ~untidy BY <1>1
<1>4. \A a \in Account : account[a].pub # 0 => account'[a].pub = account[a].pub
  BY <1>0, RowsNext DEF Rows, NoAccount, KeptRow
<1>5. ASSUME NEW S \in SUBSET Account, NEW k, OwnedBy(S, k) PROVE \A a \in S : account'[a].pub # 0 /\ account'[a].pub = k
  BY <1>4, <1>5 DEF OwnedBy
<1>6. /\ store.holds \in SUBSET Account /\ OwnedBy(store.holds, store.key)
      /\ \A n \in NameOf : file[n].holds \in SUBSET Account /\ OwnedBy(file[n].holds, file[n].key)
  BY <1>0, <1>3 DEF Bodies, TypeOK
<1>7. \A n \in NameOf : \A a \in file[n].holds : account'[a].pub # 0 /\ account'[a].pub = file[n].key
  BY <1>5, <1>6
<1>8. ASSUME file' = file, store' = store \/ store' = NoStore PROVE Bodies'
  <2>1. \A a \in store'.holds : account'[a].pub # 0 /\ account'[a].pub = store'.key
    BY <1>5, <1>6, <1>8 DEF NoStore
  <2> QED BY <1>1, <1>7, <1>8, <2>1 DEF Bodies, OwnedBy
<1>9. CASE LookUp
  <2>1. /\ Store.holds \in SUBSET Account /\ OwnedBy(Store.holds, Store.key) /\ store' = Store /\ file' = file
    BY <1>0, <1>3, <1>9, StoreOwned, StoreType DEF LookUp, Stored
  <2>2. \A a \in store'.holds : account'[a].pub # 0 /\ account'[a].pub = store'.key
    BY <1>5, <2>1
  <2> QED BY <1>1, <1>7, <2>1, <2>2 DEF Bodies, OwnedBy
<1>10. ASSUME NEW a \in Account, Read(a) PROVE Bodies'
  <2>1. me # None /\ view = "room" /\ account[a].pub = keys /\ keys # 0 BY <1>10 DEF Read
  <2>2. /\ Store.holds \in SUBSET Account /\ OwnedBy(Store.holds, Store.key) /\ Store.key = keys
    BY <1>0, <1>3, <2>1, StoreOwned, StoreType DEF Stored
  <2>3. \A b \in Store.holds \cup {a} : account'[b].pub # 0 /\ account'[b].pub = keys
    BY <1>4, <1>5, <2>1, <2>2
  <2>4. /\ store'.holds \subseteq Store.holds \cup {a} /\ store'.key = keys /\ store'.name \in NameOf
    BY <1>0, <1>10, <2>1, <2>2, ReadSteps, StoreType
  <2>5. \A b \in store'.holds : account'[b].pub # 0 /\ account'[b].pub = store'.key
    BY <2>3, <2>4
  <2>6. ASSUME NEW n \in NameOf
        PROVE  file'[n] = file[n] \/ file'[n] = [key |-> store'.key, holds |-> store'.holds]
    BY <1>0, <1>10, <2>4, ReadSteps DEF TypeOK
  <2>7. \A n \in NameOf : \A b \in file'[n].holds : account'[b].pub # 0 /\ account'[b].pub = file'[n].key
    BY <1>7, <2>5, <2>6
  <2> QED BY <1>1, <2>5, <2>7 DEF Bodies, OwnedBy
<1> QED BY <1>8, <1>9, <1>10, FileSteps

-----------------------------------------------------------------------------
(* One account.                                                             *)

Own == Alone /\ Course /\ Clean /\ SessionIsOwn

LEMMA StainedOwn == ASSUME stained' = TRUE PROVE Own'
BY DEF Own, Alone, Course, Clean, SessionIsOwn, KeysAreOwn, SocketIsOwn, StoresAreOwn, InOrder

\* A form begins, or goes on before anybody is logged in, and touches the token
\* and the private keys only.
LEMMA FormOwn ==
  ASSUME Own, ~stained, ~closing, view \notin SignedIn,
         UNCHANGED <<view, peers, socket, store, closing, stained>>,
         \A g, h \in Form : form'[g].pc # "idle" /\ form'[h].pc # "idle" => g = h,
         Course'
  PROVE  Own'
BY DEF Own, Alone, Clean, SessionIsOwn, KeysAreOwn, SocketIsOwn, StoresAreOwn, InOrder, Active

LEMMA BeginOwn ==
  ASSUME TypeOK, Own, NEW f \in Form, BeginLogin(f) \/ BeginRegister(f)
  PROVE  Own'
<1>1. PICK t \in Doing : Begin(f, t) /\ t.pc \in {"login", "register"}
  <2>1. CASE BeginLogin(f)
    <3>1. PICK a \in Account, p \in Password :
            Begin(f, [Idle EXCEPT !.pc = "login", !.acc = a, !.pw = p])
      BY <2>1 DEF BeginLogin
    <3>2. [Idle EXCEPT !.pc = "login", !.acc = a, !.pw = p] \in Doing BY IdleType DEF Doing
    <3>3. [Idle EXCEPT !.pc = "login", !.acc = a, !.pw = p].pc = "login" BY DEF Idle
    <3> QED BY <3>1, <3>2, <3>3
  <2>2. CASE BeginRegister(f)
    <3>1. PICK a \in Account, p \in Password :
            Begin(f, [Idle EXCEPT !.pc = "register", !.acc = a, !.pw = p, !.key = made + 1])
      BY <2>2 DEF BeginRegister
    <3>2. made + 1 \in Key BY <2>2, KeyType DEF BeginRegister, TypeOK
    <3>3. [Idle EXCEPT !.pc = "register", !.acc = a, !.pw = p, !.key = made + 1] \in Doing
      BY <3>2, IdleType DEF Doing
    <3>4. [Idle EXCEPT !.pc = "register", !.acc = a, !.pw = p, !.key = made + 1].pc = "register"
      BY DEF Idle
    <3> QED BY <3>1, <3>3, <3>4
  <2> QED BY <2>1, <2>2
<1>2. CASE stained' = TRUE BY <1>2, StainedOwn
<1>3. CASE stained' # TRUE
  <2>1. ~closing /\ (\A g \in Form : ~Active(g)) /\ stained' = stained
    BY <1>1, <1>3 DEF Begin
  <2>2. ~stained BY <1>3, <2>1 DEF TypeOK
  <2>3. form'[f].pc \in {"login", "register"} /\ \A g \in Form \ {f} : form'[g] = form[g]
    BY <1>1, TypeParts DEF Begin
  <2>4. \A g \in Form \ {f} : form'[g].pc = "idle" BY <2>1, <2>3 DEF Active
  <2>5. Course' BY <2>3, <2>4 DEF Course
  <2>6. UNCHANGED <<view, peers, socket, store, closing>> /\ view \notin SignedIn
    BY DEF BeginLogin, BeginRegister, screen, kept, SignedIn
  <2> QED BY <2>1, <2>2, <2>4, <2>5, <2>6, FormOwn
<1> QED BY <1>2, <1>3

LEMMA StepOwn ==
  ASSUME TypeOK, Rows, Forms, Own, NEW f \in Form, Step(f)
  PROVE  Own'
<1>0. form \in [Form -> Doing] /\ Idle.pc = "idle" /\ [Idle EXCEPT !.pc = "me"].pc = "me"
  BY TypeParts DEF Idle
<1>1. stained' = stained /\ closing' = closing /\ form[f].pc # "idle"
  BY DEF Step, Register, Login, Decrypt, Me
<1>2. CASE stained BY <1>1, <1>2, StainedOwn DEF TypeOK
<1>3. CASE ~stained
  <2>1. /\ ~closing /\ view \notin SignedIn
        /\ \A g \in Form \ {f} : form[g].pc = "idle"
    BY <1>1, <1>3 DEF Own, Alone, Active
  <2>2. \A g \in Form \ {f} : form'[g] = form[g]
    BY <1>0 DEF Step, Register, Login, Decrypt, Me, Enable, AskMe, Goto
  <2>3. \A g, h \in Form : form'[g].pc # "idle" /\ form'[h].pc # "idle" => g = h
    BY <2>1, <2>2
  <2>4. CASE Register(f)
    <3>1. UNCHANGED <<view, peers, socket, store>> BY <2>4 DEF Register, screen, kept
    <3>2. \/ form'[f].pc = "idle"
          \/ form'[f].pc = "first" /\ form'[f].key = form[f].key /\ keys' = form[f].key
      BY <1>0, <2>4 DEF Register, Enable, Goto, Doing
    <3>3. Course' BY <2>1, <2>2, <3>2 DEF Course
    <3> QED BY <1>1, <1>3, <2>1, <2>3, <3>1, <3>3, FormOwn
  <2>5. CASE Login(f)
    <3>1. UNCHANGED <<view, peers, socket, store>> BY <2>5 DEF Login, screen, kept
    <3>2. /\ keys' = keys /\ account' = account
          /\ \/ form'[f].pc = "idle"
             \/ /\ form'[f].pc = "me" /\ token' = form[f].acc
                /\ form[f].pc = "first" \/ ~Backed(form[f].acc)
             \/ /\ form'[f].pc = "decrypt" /\ form'[f].acc = form[f].acc /\ token' = form[f].acc
      BY <1>0, <2>5 DEF Login, Enable, Doing
    <3>3. form[f].pc = "first" =>
            keys = account[form[f].acc].pub /\ form[f].acc \in Account
      BY <1>3 DEF Own, Course, Forms
    <3>4. form[f].acc # None BY <2>5, SessionAssumption DEF Forms, Login
    <3>5. Course' BY <2>1, <2>2, <3>2, <3>3, <3>4 DEF Course, Backed
    <3> QED BY <1>1, <1>3, <2>1, <2>3, <3>1, <3>5, FormOwn
  <2>6. CASE Decrypt(f)
    <3>1. UNCHANGED <<view, peers, socket, store>> BY <2>6 DEF Decrypt, screen, kept
    <3>2. /\ token' = token /\ account' = account
          /\ \/ form'[f].pc = "idle"
             \/ form'[f].pc = "me" /\ keys' = form[f].sealed.key
      BY <1>0, <2>6 DEF Decrypt, Enable, AskMe
    <3>3. /\ token = form[f].acc /\ token \in Account
          /\ form[f].sealed.key = account[form[f].acc].pub
      BY <1>3, <2>6 DEF Own, Course, Forms, Decrypt
    <3>4. Course' BY <2>1, <2>2, <3>2, <3>3, SessionAssumption DEF Course
    <3> QED BY <1>1, <1>3, <2>1, <2>3, <3>1, <3>4, FormOwn
  <2>7. CASE Me(f)
    <3>1. form'[f].pc = "idle" BY <1>0, <2>7 DEF Me, Enable
    <3>2. \A g \in Form : form'[g].pc = "idle" BY <2>1, <2>2, <3>1
    <3>3. Course' BY <3>2 DEF Course
    <3>4. CASE view' = view
      <4>1. UNCHANGED <<peers, socket, store>>
        BY <2>1, <2>7, <3>4 DEF Me, SignedIn
      <4> QED BY <1>1, <1>3, <2>1, <2>3, <3>3, <3>4, <4>1, FormOwn
    <3>5. CASE view' # view
      <4>1. /\ token # None /\ me' = token /\ view' = "chats" /\ socket' = Notified(socket)
            /\ UNCHANGED <<account, token, keys, peers, store>>
        BY <2>7, <3>5 DEF Me
      <4>2. Backed(token) => keys = account[token].pub BY <1>3, <2>7 DEF Own, Course, Me
      <4>3. socket = NoSocket /\ store = NoStore /\ peers = {} BY <1>3, <2>1 DEF Own, Clean
      <4>4. socket'.acc = token BY <4>1, <4>3 DEF Notified, NoSocket
      <4>5. Alone' BY <3>2 DEF Alone, Active
      <4>6. Clean' BY <1>1, <2>1, <4>1 DEF Clean, SignedIn
      <4>7. SessionIsOwn'
        BY <4>1, <4>2, <4>3, <4>4 DEF SessionIsOwn, KeysAreOwn, SocketIsOwn, StoresAreOwn, InOrder, Backed
      <4> QED BY <3>3, <4>5, <4>6, <4>7 DEF Own
    <3> QED BY <3>4, <3>5
  <2> QED BY <2>4, <2>5, <2>6, <2>7 DEF Step
<1> QED BY <1>2, <1>3

\* Whoever is logged in does something: the token, the user and the private
\* keys stay, and so do the keys of the row.
LEMMA SignedInOwn ==
  ASSUME TypeOK, Own, InOrder, view' \in SignedIn, UNCHANGED <<form, token, me, keys, closing, stained>>,
         account'[token].pub = account[token].pub, account'[token].sealed = account[token].sealed,
         socket'.acc = token, StoresAreOwn'
  PROVE  Own'
<1>1. \A f \in Form : form[f].pc = "idle" BY DEF Own, Alone, InOrder, Active
<1>2. Alone' /\ Course' BY <1>1 DEF Alone, Course, Active
<1>3. Clean' BY DEF Clean, InOrder
<1>4. KeysAreOwn' /\ SocketIsOwn'
  BY DEF Own, SessionIsOwn, KeysAreOwn, SocketIsOwn, InOrder, Backed
<1> QED BY <1>2, <1>3, <1>4 DEF Own, SessionIsOwn

LEMMA OpenOwn ==
  ASSUME TypeOK, Own, OpenRoom \/ OpenProfile \/ GoBack
  PROVE  Own'
<1>1. CASE stained' = TRUE BY <1>1, StainedOwn
<1>2. CASE stained' # TRUE
  <2>1. GoOn /\ view \in SignedIn /\ view' \in SignedIn
    BY DEF OpenRoom, OpenProfile, GoBack, SignedIn
  <2>2. ~closing /\ ~stained /\ stained' = stained BY <1>2, <2>1 DEF GoOn, TypeOK
  <2>3. InOrder BY <2>1, <2>2 DEF InOrder
  <2>4. socket.acc = token /\ token # None
    BY <2>3 DEF Own, SessionIsOwn, SocketIsOwn, KeysAreOwn
  <2>5. UNCHANGED <<account, form, token, me, keys, closing, peers, store>>
    BY DEF OpenRoom, OpenProfile, GoBack, session, kept
  <2>6. socket'.acc = token
    <3>1. CASE OpenRoom BY <2>4, <3>1 DEF OpenRoom
    <3>2. CASE OpenProfile BY <2>4, <3>2 DEF OpenProfile, kept
    <3>3. CASE GoBack BY <2>4, <3>3 DEF GoBack, Notified, NoSocket, TypeOK
    <3> QED BY <3>1, <3>2, <3>3
  <2>7. StoresAreOwn' BY <2>3, <2>5 DEF Own, SessionIsOwn, StoresAreOwn, InOrder
  <2> QED BY <2>1, <2>2, <2>3, <2>5, <2>6, <2>7, SignedInOwn
<1> QED BY <1>1, <1>2

LEMMA ReadOwn ==
  ASSUME TypeOK, Named, Own, NEW a \in Account, Read(a)
  PROVE  Own'
<1>1. CASE stained BY <1>1, StainedOwn DEF Read, TypeOK
<1>2. CASE ~stained
  <2>1. InOrder BY <1>2 DEF Own, Clean, InOrder, Read, SignedIn
  <2>2. UNCHANGED <<account, view, form, token, me, keys, socket, closing, stained>>
    BY DEF Read, screen, session
  <2>3. me = token /\ socket.acc = token
    BY <2>1 DEF Own, SessionIsOwn, SocketIsOwn, KeysAreOwn
  <2>4. store'.name = Name[me] /\ store'.key = keys
    <3>1. CASE store # NoStore
      <4>1. store.name = Name[me] /\ store.key = keys
        BY <2>1, <3>1 DEF Own, SessionIsOwn, StoresAreOwn
      <4> QED BY <3>1, <4>1, ReadSteps DEF Store
    <3>2. CASE store = NoStore BY <3>2, ReadSteps, StoreType
    <3> QED BY <3>1, <3>2
  <2>5. peers' = peers \cup {Home[token]} BY DEF Read
  <2>6. StoresAreOwn'
    BY <2>1, <2>2, <2>3, <2>4, <2>5 DEF Own, SessionIsOwn, StoresAreOwn, InOrder
  <2> QED BY <2>1, <2>2, <2>3, <2>6, SignedInOwn DEF InOrder
<1> QED BY <1>1, <1>2

LEMMA LookUpOwn ==
  ASSUME TypeOK, Named, Own, LookUp
  PROVE  Own'
<1>1. CASE stained BY <1>1, StainedOwn DEF LookUp, TypeOK
<1>2. CASE ~stained
  <2>1. InOrder BY <1>2 DEF Own, Clean, InOrder, LookUp, SignedIn
  <2>2. UNCHANGED <<account, view, form, token, me, keys, socket, peers, closing, stained>>
    BY DEF LookUp, screen, session
  <2>3. me = token /\ socket.acc = token
    BY <2>1 DEF Own, SessionIsOwn, SocketIsOwn, KeysAreOwn
  <2>4. store'.name = Name[me] /\ store'.key = keys BY StoreType DEF LookUp
  <2>5. StoresAreOwn'
    BY <2>1, <2>2, <2>3, <2>4 DEF Own, SessionIsOwn, StoresAreOwn, InOrder
  <2> QED BY <2>1, <2>2, <2>3, <2>5, SignedInOwn DEF InOrder
<1> QED BY <1>1, <1>2

LEMMA PasswordOwn ==
  ASSUME TypeOK, Rows, Forms, Own, ChangePassword, Next
  PROVE  Own'
<1>1. CASE stained BY <1>1, StainedOwn DEF ChangePassword, TypeOK
<1>2. CASE ~stained
  <2>1. InOrder BY <1>2 DEF Own, Clean, InOrder, ChangePassword, SignedIn
  <2>2. UNCHANGED <<view, form, token, me, keys, socket, peers, store, closing, stained>>
    BY DEF ChangePassword, screen, session, kept
  <2>3. token \in Account /\ Known(token) BY DEF ChangePassword, TypeOK, Forms
  <2>4. account'[token].pub = account[token].pub /\ account'[token].sealed = account[token].sealed
    BY <2>3, RowsNext DEF KeptRow
  <2>5. socket.acc = token /\ StoresAreOwn'
    BY <2>1, <2>2 DEF Own, SessionIsOwn, SocketIsOwn, StoresAreOwn, InOrder
  <2> QED BY <2>1, <2>2, <2>4, <2>5, SignedInOwn DEF InOrder
<1> QED BY <1>1, <1>2

LEMMA LogoutOwn ==
  ASSUME TypeOK, Own, Logout \/ LoggedOut \/ Restart
  PROVE  Own'
<1>1. CASE stained' = TRUE BY <1>1, StainedOwn
<1>2. CASE stained' # TRUE /\ Logout
  <2>1. /\ \A f \in Form : form'[f].pc = "idle"
        /\ closing' = TRUE /\ socket' = NoSocket /\ view' \in {"chats", "login"}
    BY <1>2 DEF Logout, Active, screen
  <2>2. Alone' /\ Course' BY <2>1 DEF Alone, Course, Active
  <2>3. Clean' /\ SessionIsOwn'
    BY <2>1 DEF Clean, SessionIsOwn, KeysAreOwn, SocketIsOwn, StoresAreOwn, InOrder
  <2> QED BY <2>2, <2>3 DEF Own
<1>3. CASE stained' # TRUE /\ LoggedOut
  <2>1. ~stained /\ closing BY <1>3 DEF LoggedOut, TypeOK
  <2>2. \A f \in Form : form'[f].pc = "idle" BY <1>3, <2>1 DEF Own, Alone, Active, LoggedOut
  <2>3. /\ closing' = FALSE /\ view' = "login" /\ socket' = NoSocket
        /\ store' = NoStore /\ peers' = {}
    BY <1>3, <2>1 DEF Own, Clean, LoggedOut, Cleared
  <2>4. Alone' /\ Course' BY <2>2 DEF Alone, Course, Active
  <2>5. Clean' /\ SessionIsOwn'
    BY <2>3 DEF Clean, SessionIsOwn, KeysAreOwn, SocketIsOwn, StoresAreOwn, InOrder, SignedIn
  <2> QED BY <2>4, <2>5 DEF Own
<1>4. CASE stained' # TRUE /\ Restart
  <2>1. \A f \in Form : form'[f].pc = "idle" BY <1>4 DEF Restart, Idle
  <2>2. /\ closing' = FALSE /\ view' = "login" /\ socket' = NoSocket
        /\ store' = NoStore /\ peers' = {}
    BY <1>4 DEF Restart, Cleared
  <2>3. Alone' /\ Course' BY <2>1 DEF Alone, Course, Active
  <2>4. Clean' /\ SessionIsOwn'
    BY <2>2 DEF Clean, SessionIsOwn, KeysAreOwn, SocketIsOwn, StoresAreOwn, InOrder, SignedIn
  <2> QED BY <2>3, <2>4 DEF Own
<1> QED BY <1>1, <1>2, <1>3, <1>4

LEMMA OwnNext ==
  ASSUME TypeOK, Rows, Forms, Named, Own, [Next]_vars
  PROVE  Own'
<1>1. ASSUME NEW f \in Form, BeginLogin(f) \/ BeginRegister(f) \/ Step(f) PROVE Own'
  BY <1>1, BeginOwn, StepOwn
<1>2. CASE Switch
  <2>1. /\ UNCHANGED <<account, form, token, me, keys, peers, socket, store, closing, stained>>
        /\ view \notin SignedIn /\ view' \notin SignedIn
    BY <1>2 DEF Switch, session, kept, SignedIn
  <2> QED BY <2>1 DEF Own, Alone, Course, Clean, SessionIsOwn, KeysAreOwn, SocketIsOwn,
                      StoresAreOwn, InOrder, Active, Backed, SignedIn
<1>3. CASE Expire \/ UNCHANGED vars
  <2>1. UNCHANGED <<account, view, form, token, me, keys, peers, socket, store, closing, stained>>
    BY <1>3 DEF Expire, vars, screen, session, kept
  <2> QED BY <2>1 DEF Own, Alone, Course, Clean, SessionIsOwn, KeysAreOwn, SocketIsOwn,
                      StoresAreOwn, InOrder, Active, Backed
<1>4. CASE SessionExpired BY <1>4, StainedOwn DEF SessionExpired
<1> QED BY <1>1, <1>2, <1>3, <1>4, OpenOwn, ReadOwn, LookUpOwn, PasswordOwn, LogoutOwn DEF Next

-----------------------------------------------------------------------------
LEMMA InitInv == Init => Inv
<1> SUFFICES ASSUME Init PROVE Inv OBVIOUS
<1>1. \A f \in Form : form[f].pc = "idle" /\ form[f].key = 0 BY DEF Init, Idle
<1>2. ASSUME NEW a \in Account
      PROVE  \/ account[a] = NoAccount
             \/ \E p \in Password : account[a] = OldRow(p)
             \/ \E k \in 1..Cardinality(Registered), p \in Password : account[a] = RowOf(k, p)
  BY SessionAssumption DEF Init
<1>3. Rows
  <2>1. ASSUME NEW p \in Password
        PROVE  p # 0 /\ OldRow(p).pw = p /\ OldRow(p).sealed.key = OldRow(p).pub
    BY SessionAssumption DEF OldRow, NoBackup
  <2>2. ASSUME NEW k, NEW p \in Password
        PROVE  RowOf(k, p).pw = p /\ RowOf(k, p).sealed.key = RowOf(k, p).pub
    BY DEF RowOf
  <2> QED BY <1>2, <2>1, <2>2 DEF Rows, Known
<1>4. Forms /\ Alone /\ Course /\ Clean /\ Named
  BY <1>1 DEF Init, Forms, Alone, Course, Clean, Named, Active
<1>5. Fresh
  <2>1. \A a, b \in Account : account[a].pub # 0 /\ account[a].pub = account[b].pub => a = b
    BY SessionAssumption DEF Init, Registered
  <2>2. made \in Nat /\ \A a \in Account : account[a].pub <= made
    BY <1>2, BeforeType DEF Init, OldRow, RowOf, NoAccount
  <2> QED BY <1>1, <2>1, <2>2 DEF Fresh
<1>6. Bodies BY DEF Init, Bodies, OwnedBy, NoStore
<1>7. SessionIsOwn
  BY DEF Init, SessionIsOwn, KeysAreOwn, SocketIsOwn, StoresAreOwn, InOrder, SignedIn
<1> QED BY <1>3, <1>4, <1>5, <1>6, <1>7, TypeInit DEF Inv

LEMMA NextInv == Inv /\ [Next]_vars => Inv'
BY TypeNext, RowsNext, FormsNext, NamedNext, FreshNext, BodiesNext, OwnNext DEF Inv, Own

LEMMA Always == Spec => []Inv
BY InitInv, NextInv, PTL DEF Spec

\* Every variable keeps to its type.
THEOREM SessionTypes == Spec => []TypeOK
<1>1. Inv => TypeOK BY DEF Inv
<1> QED BY <1>1, Always, PTL

\* User, token, private keys of an account with a backup, connection, stores and
\* looked-up keys of a session that began and went on in order are one account's.
THEOREM SessionIsOneAccounts == Spec => []SessionIsOwn
<1>1. Inv => SessionIsOwn BY DEF Inv
<1> QED BY <1>1, Always, PTL

\* While all sessions ended in order, the store of an account with a backup has
\* no bodies of another one, though accounts of one name share a file.
THEOREM BodiesAreOneAccounts == Spec => []BodiesAreOwn
<1>1. Inv => BodiesAreOwn
  <2> SUFFICES ASSUME Inv, InOrder, ~untidy, Backed(me), NEW a \in store.holds PROVE a = me
    BY DEF BodiesAreOwn
  <2>1. store # NoStore BY DEF NoStore
  <2>2. store.key = keys /\ keys = account[me].pub /\ me \in Account
    BY <2>1 DEF Inv, TypeOK, SessionIsOwn, KeysAreOwn, StoresAreOwn
  <2>3. a \in Account /\ account[a].pub # 0 /\ account[a].pub = store.key
    BY DEF Inv, TypeOK, Bodies, OwnedBy
  <2> QED BY <2>2, <2>3 DEF Inv, Fresh
<1> QED BY <1>1, Always, PTL
=============================================================================
