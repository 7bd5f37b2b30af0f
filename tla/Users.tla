-------------------------------- MODULE Users --------------------------------
(***************************************************************************)
(* Accounts and sessions: UserService (services/user_service.cpp), the     *)
(* text shell's login prompt and account commands (console/shell.cpp), the *)
(* check of the graphical login screen, and what of it all a restart finds *)
(* again in /ETC/USERS.CFG.  The user service is one of the services that  *)
(* the manager starts, and the prompt's lock goes by the manager's uptime. *)
(*                                                                         *)
(* A line given to the shell is one step.  A password stands for its       *)
(* salted hash, and fits the login screen's field.  No call reaches        *)
(* DelUser, which is left out.  WriteFile appends to a file that exists;   *)
(* when it fails the file is as before, and the user service does not look *)
(* at its result.                                                          *)
(*                                                                         *)
(* Names are not looked into: Kept says what of a name fits User::name,    *)
(* and Parts what stands between its colons.  They have at most two        *)
(* colons, so no line they are on is read as a locked account's, and none  *)
(* begins with '#', whose line Start takes for a comment.                  *)
(***************************************************************************)
EXTENDS Services

CONSTANTS
  UserSvc,     (* the user service, in List                              *)
  NewName,     (* names typed besides root and user                      *)
  Kept,        (* of every name: its first 31 characters                 *)
  Parts,       (* of every name: the texts between its colons            *)
  Digits,      (* of every such text: the number its digits form         *)
  NewPassword, (* passwords given to adduser and passwd                  *)
  kMaxUsers,   (* length of m_users: 16 in the code                      *)
  Retries,     (* attempts before the prompt locks: 3 in the code        *)
  LockMs,      (* how long it locks: 3000 in the code                    *)
  ReadLines,   (* lines that 4095 bytes hold at least: 43                *)
  MaxLines     (* lines of the file (bounds the model)                   *)

ASSUME UsersConstants ==
  /\ UserSvc \in Service
  /\ kMaxUsers \in Nat /\ kMaxUsers >= 2
  /\ Retries \in Nat \ {0} /\ LockMs \in Nat \ {0}
  /\ ReadLines \in Nat /\ MaxLines \in Nat

Name == NewName \cup {"root", "user"}
Password == NewPassword \cup {"root", "user"}

ASSUME NamesConstants ==
  /\ Kept \in [Name -> Name] /\ \A name \in Name : Kept[Kept[name]] = Kept[name]
  /\ Parts \in [Name -> Seq(DOMAIN Digits)]
  /\ \A name \in Name : Len(Parts[name]) \in 1 .. 3 /\ Parts[name][1] \in Name
  /\ \A text \in DOMAIN Digits : Digits[text] \in Nat
  /\ \A name \in {"root", "user"} : Kept[name] = name /\ Parts[name] = <<name>>

\* The hash of no password that anybody types.
ASSUME NoPasswordNew == "(none)" \notin NewPassword

\* The uptime counts whole milliseconds, and wraps after more than LockMs.
ASSUME LockFits ==
  /\ Millis % Frequency = 0
  /\ LockMs <= Word \div Frequency /\ Word \div Frequency + LockMs < Word

VARIABLES
  m_users,          (* the accounts, in order                             *)
  m_current_index,  (* 0 when nobody is logged in                         *)
  mounted,          (* g_fs_ptr is set                                    *)
  file,             (* USERS.CFG: the lines appended to it, oldest first  *)
  mode, loginUser, retries_left, lock_until_ms,
  lockedAt          (* history: the time of the refusal that locked the   *)
                    (* prompt last, or 0                                  *)

accounts == <<m_users, m_current_index, mounted, file>>
prompt == <<mode, loginUser, retries_left, lock_until_ms, lockedAt>>
vars == <<manager, accounts, prompt>>

\* uid 0 is the superuser's.
User == [name : Name, pass : Password \cup {"(none)"}, uid : Nat]

\* The first account of that name, 0 for none.
IndexOf(name) ==
  LET hits == {i \in DOMAIN m_users : m_users[i].name = name}
  IN IF hits = {} THEN 0 ELSE CHOOSE i \in hits : \A j \in hits : i <= j

IsSuperuser == m_current_index # 0 /\ m_users[m_current_index].uid = 0
CurrentUserName == IF m_current_index = 0 THEN "(none)" ELSE m_users[m_current_index].name

------------------------------------------------------------------------------
(***************************************************************************)
(* The file.  A line is name:uid:gid:passhash:salt:locked when Start, which*)
(* made the built-in accounts, writes it; AddUser and SetPassword write    *)
(* every account without its salt.                                         *)
(***************************************************************************)
Lines(users, salted) ==
  [i \in DOMAIN users |-> [user |-> users[i], salted |-> salted]]

\* What the file may be after a save: WriteFile may fail.
AfterSave(f, lines) == {f} \cup {g \in {f \o lines} : Len(g) <= MaxLines}

\* How many fields a line has; a name with colons brings some of its own.
Fields(line) == Len(Parts[line.user.name]) + IF line.salted THEN 5 ELSE 4

\* The account that Start reads from a line of six fields or more.  After a name
\* with a colon every field is read as another one: the name's second part is the
\* uid, and the uid or the gid is the hash, which is that of no password.
Account(line) ==
  LET parts == Parts[line.user.name]
  IN IF Len(parts) = 1 THEN line.user
     ELSE [name |-> parts[1], pass |-> "(none)", uid |-> Digits[parts[2]]]

\* The loop over the lines; one of fewer than six fields is passed over.
Loaded(lines) ==
  LET read[k \in 0 .. Len(lines)] ==
        IF k = 0 THEN <<>>
        ELSE IF Fields(lines[k]) >= 6 /\ Len(read[k - 1]) < kMaxUsers
             THEN Append(read[k - 1], Account(lines[k]))
             ELSE read[k - 1]
  IN read[Len(lines)]

\* What ReadFile may return of the file: 4095 bytes of it at most.
Readable(f) == {SubSeq(f, 1, n) : n \in {k \in 0 .. Len(f) : k = Len(f) \/ k >= ReadLines}}

Root == [name |-> "root", pass |-> "root", uid |-> 0]
Factory == <<Root, [name |-> "user", pass |-> "user", uid |-> 1001]>>

\* Start loads the file, or makes the built-in accounts with AddUser, which
\* saves each time, and saves them once more.
Start ==
  \/ \E lines \in Readable(file) :
       LET known == Loaded(lines)
       IN \/ /\ mounted' /\ known # <<>>
             /\ m_users' = known /\ UNCHANGED file
          \/ /\ mounted' /\ known = <<>>
             /\ m_users' = Factory
             /\ \E f \in AfterSave(file, Lines(<<Root>>, FALSE)) :
                  \E g \in AfterSave(f, Lines(Factory, FALSE)) :
                    file' \in AfterSave(g, Lines(Factory, TRUE))
  \/ /\ ~mounted'
     /\ m_users' = Factory /\ UNCHANGED file

(***************************************************************************)
(* A restart, by the reboot command or for any other reason, begins with   *)
(* empty memory.  Without a file system the configuration is the default.  *)
(***************************************************************************)
Restart ==
  /\ mounted' \in BOOLEAN
  /\ \E config \in [Service -> BOOLEAN] :
       /\ ~mounted' => config = DefaultEnabled
       /\ InitAndStart(config)
  /\ \/ enabled'[UserSvc] /\ Start
     \/ ~enabled'[UserSvc] /\ m_users' = <<>> /\ UNCHANGED file
  /\ m_current_index' = 0
  /\ mode' = "LoginUser" /\ loginUser' = "(none)"
  /\ retries_left' = Retries
  /\ lock_until_ms' = 0 /\ lockedAt' = 0

------------------------------------------------------------------------------
Authenticate(name, pass) == IndexOf(name) # 0 /\ m_users[IndexOf(name)].pass = pass

\* Login by whoever calls it; the session so far goes on when it fails.
Login(name, pass) ==
  \/ /\ Authenticate(name, pass)
     /\ m_current_index' = IndexOf(name)
  \/ /\ ~Authenticate(name, pass)
     /\ UNCHANGED m_current_index

\* AddUser and SetPassword save every account.
Save(users) ==
  /\ m_users' = users
  /\ file' \in IF mounted THEN AfterSave(file, Lines(users, FALSE)) ELSE {file}

\* The prompt: no key counts until the lock is over.
Locked == lock_until_ms # 0 /\ UptimeMs # 0 /\ UptimeMs < lock_until_ms

EnterUser(name) ==
  /\ ~graphics /\ mode = "LoginUser" /\ ~Locked
  /\ mode' = "LoginPass" /\ loginUser' = Kept[name]
  /\ lock_until_ms' = 0
  /\ UNCHANGED <<accounts, retries_left, lockedAt>>

\* Faulty variant: the lock's end is reckoned from boot.
RefuseFromBoot ==
  /\ retries_left' = IF retries_left > 1 THEN retries_left - 1 ELSE Retries
  /\ lock_until_ms' = IF retries_left > 1 THEN 0 ELSE LockMs
  /\ lockedAt' = IF retries_left > 1 THEN lockedAt ELSE time

\* A wrong password: the last retry locks the prompt.
Refuse ==
  \/ /\ retries_left > 1
     /\ retries_left' = retries_left - 1
     /\ lock_until_ms' = 0 /\ UNCHANGED lockedAt
  \/ /\ retries_left <= 1
     /\ retries_left' = Retries
     /\ lock_until_ms' = (UptimeMs + LockMs) % Word /\ lockedAt' = time

EnterPassword(pass) ==
  /\ ~graphics /\ mode = "LoginPass" /\ ~Locked
  /\ Login(loginUser, pass)
  /\ \/ /\ Authenticate(loginUser, pass)
        /\ mode' = "Normal" /\ lock_until_ms' = 0
        /\ UNCHANGED <<retries_left, lockedAt>>
     \/ /\ ~Authenticate(loginUser, pass)
        /\ mode' = "LoginUser" /\ Refuse
  /\ UNCHANGED <<m_users, mounted, file, loginUser>>

\* tryAuthenticate of the login screen, which takes keys until it succeeded.
GraphicalLogin(name, pass) ==
  /\ graphics /\ m_current_index = 0
  /\ Login(Kept[name], pass)
  /\ UNCHANGED <<m_users, mounted, file, prompt>>

------------------------------------------------------------------------------
\* The account commands of the shell, when one is at its command prompt.
AtCommand == ~graphics /\ mode = "Normal" /\ UNCHANGED mounted

su(name, pass) ==
  /\ AtCommand
  /\ Login(name, pass)
  /\ UNCHANGED <<m_users, file, prompt>>

\* AddUser looks for the whole name and keeps what fits of it.
adduser(name, pass) ==
  /\ AtCommand /\ IsSuperuser
  /\ Len(m_users) < kMaxUsers /\ IndexOf(name) = 0
  /\ Save(Append(m_users, [name |-> Kept[name], pass |-> pass, uid |-> 1000 + Len(m_users)]))
  /\ UNCHANGED <<m_current_index, prompt>>

\* Faulty variant: the last account of that name gets the password.
passwdLast(name, pass) ==
  LET hits == {i \in DOMAIN m_users : m_users[i].name = name}
      account == CHOOSE i \in hits : \A j \in hits : j <= i
  IN /\ AtCommand /\ (IsSuperuser \/ name = CurrentUserName)
     /\ hits # {} /\ Save([m_users EXCEPT ![account].pass = pass])
     /\ UNCHANGED <<m_current_index, prompt>>

passwd(name, pass) ==
  /\ AtCommand /\ (IsSuperuser \/ name = CurrentUserName)
  /\ IndexOf(name) # 0 /\ Save([m_users EXCEPT ![IndexOf(name)].pass = pass])
  /\ UNCHANGED <<m_current_index, prompt>>

\* Faulty variant: the service keeps its current user.
logoutPrompt ==
  /\ AtCommand
  /\ mode' = "LoginUser" /\ loginUser' = "(none)"
  /\ retries_left' = Retries /\ lock_until_ms' = 0
  /\ UNCHANGED <<m_users, m_current_index, file, lockedAt>>

logout ==
  /\ AtCommand
  /\ m_current_index' = 0
  /\ mode' = "LoginUser" /\ loginUser' = "(none)"
  /\ retries_left' = Retries /\ lock_until_ms' = 0
  /\ UNCHANGED <<m_users, file, lockedAt>>

------------------------------------------------------------------------------
Init ==
  /\ graphics = FALSE /\ enabled = DefaultEnabled
  /\ last_tick_ms = [s \in Service |-> 0]
  /\ time = 0 /\ tickDiv = 0 /\ round = NoPass
  /\ tickedAt = [s \in Service |-> 0] /\ passedOver = {}
  /\ m_users = Factory /\ m_current_index = 0 /\ mounted = FALSE /\ file = <<>>
  /\ mode = "LoginUser" /\ loginUser = "(none)" /\ retries_left = Retries
  /\ lock_until_ms = 0 /\ lockedAt = 0

UserNext ==
  \/ \E name \in Name : EnterUser(name)
  \/ \E pass \in Password : EnterPassword(pass)
  \/ \E name \in Name, pass \in Password : GraphicalLogin(name, pass)
  \/ \E name \in Name, pass \in Password : su(name, pass)
  \/ \E name \in Name, pass \in NewPassword : adduser(name, pass)
  \/ \E name \in Name, pass \in NewPassword : passwd(name, pass)
  \/ logout

Next ==
  \/ ManagerNext /\ UNCHANGED <<accounts, prompt>>
  \/ UserNext /\ UNCHANGED manager
  \/ Restart

Spec == Init /\ [][Next]_vars

------------------------------------------------------------------------------
\* Type invariant of the manager, the accounts and the prompt.
TypeOK ==
  /\ graphics \in BOOLEAN /\ enabled \in [Service -> BOOLEAN]
  /\ last_tick_ms \in [Service -> 0 .. UptimeAt(Word) + Word]
  /\ time \in 0 .. MaxTime /\ tickDiv \in 0 .. TickDivider - 1
  /\ round \in [at : 0 .. Len(List), read : 0 .. MaxTime]
  /\ m_users \in Seq(User) /\ Len(m_users) <= kMaxUsers
  /\ m_current_index \in 0 .. Len(m_users)
  /\ mode \in {"LoginUser", "LoginPass", "Normal"}
  /\ retries_left \in 1 .. Retries

\* The accounts have their types; nobody is logged in while the shell (InputChar,
\* shell.cpp:128) asks for a name or a password, and somebody is whenever it takes
\* commands.
SessionAtPrompt ==
  /\ TypeOK
  /\ ~graphics => (mode = "Normal" <=> m_current_index # 0)

\* "Change password (root or self)" (shell.cpp:1002): whoever is not the superuser
\* changes no account but the own one.  passwd compares names (shell.cpp:545) and
\* SetPassword takes the first account of a name (user_service.cpp:244), while
\* names that were cut or read back from the file may be there twice: the account
\* one is logged in as is always the first of its name.
OwnPasswordOnly ==
  [][mode = "Normal" /\ mode' = "Normal"
       => \A i \in DOMAIN m_users :
            m_users'[i] = m_users[i] \/ IsSuperuser \/ i = m_current_index]_vars

\* Once the prompt locked (shell.cpp:171), it checks no password before the
\* lock's time has passed, until the 32-bit uptime wraps.  An uptime of 0 is
\* taken for a clock that does not run (shell.cpp:135): no lock holds then.
LockHolds ==
  [][LET checked == mode = "LoginPass" /\ mode' # "LoginPass" /\ time' = time
         under == lockedAt # 0 /\ UptimeMs > UptimeAt(lockedAt) /\ UptimeAt(lockedAt) # 0
     IN checked /\ under
          => ((time - lockedAt) * Millis) \div Frequency >= LockMs]_vars

\* "Persist change" (user_service.cpp:175): the accounts that Start would load
\* from a file short enough are those AddUser or SetPassword saved to it last.
AccountsPersist ==
  [][mode = "Normal" /\ mode' = "Normal" /\ file' # file => Loaded(file') = m_users']_vars
==============================================================================
