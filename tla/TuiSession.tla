----------------------------- MODULE TuiSession -----------------------------
(***************************************************************************)
(* The terminal client's session (cli/internal/tui): the connection, the    *)
(* remote pane, the vault's state as it is shown, and the saved profiles.   *)
(* A key or a message is one call of Update; an RPC runs on a goroutine of  *)
(* its own with the clients that the Model had when the command was made,   *)
(* and its answer is handled later, in any order.  The local pane, the      *)
(* selections and the status line are left out; TuiTransfers has the rest.  *)
(* The vaults are the servers', and others change them too.                 *)
(***************************************************************************)
EXTENDS Integers, Sequences, FiniteSets, SequencesExt

CONSTANTS
    Servers,    \* the addresses a server may listen on
    NoServer,   \* no connection yet: the clients are nil
    Home,       \* the address the client is started with
    Paths,      \* remote paths; "/" is the first one shown
    Dir,        \* path -> its filepath.Dir
    Items,      \* server -> path -> the items that List gives there
    Saved,      \* the profiles on disk to start with
    Broken,     \* a profiles.json that cannot be parsed
    Calls,      \* bound: the RPCs under way at once
    MaxKeys     \* bound: the keys pressed

VARIABLES
    m,          \* the Model
    calls,      \* call -> an RPC under way, or its answer
    unlocked,   \* the servers whose vault is unlocked
    stored,     \* profiles.json: a list of profiles, or Broken
    troubles,   \* what has happened that may make the display wrong
    pressed     \* the keys pressed so far

sessionVars == <<m, calls, unlocked, stored, troubles, pressed>>

Item    == [path : Paths, isDir : BOOLEAN, up : BOOLEAN]
Profile == [server : Servers, path : Paths \cup {""}]
NotConnected == <<[path |-> "", isDir |-> FALSE, up |-> FALSE]>>

Modals  == {"none", "mkdir", "profiles", "vault", "quit"}

ASSUME SessionAssumption ==
    /\ Home \in Servers /\ NoServer \notin Servers
    /\ "/" \in Paths /\ Dir \in [Paths -> Paths]
    /\ Items \in [Servers -> [Paths -> Seq(Item)]]
    /\ Saved \in Seq(Profile) /\ Broken \notin Seq(Profile) /\ MaxKeys \in Nat

\* An empty listing is what is shown before the first answer.  LoadProfiles'
\* error is dropped: a file that cannot be parsed gives no profiles.
InitialModel(file) ==
    [path |-> "/", files |-> <<>>, cursor |-> 0, modal |-> "none",
     addr |-> Home, connected |-> FALSE, server |-> NoServer,
     vaultUnlocked |-> FALSE,
     profiles |-> IF file = Broken THEN <<>> ELSE file, profileCursor |-> 0]

Kinds == {"free", "connect", "list", "unlock", "lock"}
Call  == [kind : Kinds, server : Servers \cup {NoServer}, path : Paths,
          answered : BOOLEAN, ok : BOOLEAN]
Request(kind, server, path) ==
    [kind |-> kind, server |-> server, path |-> path, answered |-> FALSE, ok |-> FALSE]
NoCall == Request("free", NoServer, "/")

\* Unlock and Lock act on the same thing.
Class(kind) == IF kind = "lock" THEN "unlock" ELSE kind
UnderWay(kind) == {c \in Calls : Class(calls[c].kind) = Class(kind)}

SessionInit ==
    /\ m = InitialModel(Saved)
    /\ \E c \in Calls : calls = [d \in Calls |->
                          IF d = c THEN Request("connect", Home, "/") ELSE NoCall]
    /\ unlocked = {}
    /\ stored = Saved
    /\ troubles = {}
    /\ pressed = 0

(* Keys                                                                    *)

Press(modal) ==
    /\ m.modal = modal
    /\ pressed < MaxKeys
    /\ pressed' = pressed + 1

Crossing(kind) == IF UnderWay(kind) = {} THEN {} ELSE {Class(kind)}

Send(request) ==
    /\ \E c \in Calls : calls[c] = NoCall /\ calls' = [calls EXCEPT ![c] = request]
    /\ troubles' = troubles \cup Crossing(request.kind)
    /\ UNCHANGED <<unlocked, stored>>

Quiet == UNCHANGED <<calls, unlocked, stored, troubles>>

\* up, down, g and G
MoveCursor ==
    /\ Press("none")
    /\ \E k \in {m.cursor - 1, m.cursor + 1, 0, Len(m.files) - 1} :
          /\ k \in Nat /\ (k > 0 => k < Len(m.files) \/ k < m.cursor)
          /\ m' = [m EXCEPT !.cursor = k]
    /\ Quiet

Slip_GoQuietly(model, path) ==
    /\ m' = [model EXCEPT !.path = path, !.cursor = 0]
    /\ Quiet

\* The pane shows the old listing until the new one comes.
Go(model, path) ==
    /\ m' = [model EXCEPT !.path = path, !.cursor = 0]
    /\ Send(Request("list", m.server, path))

Left ==
    /\ Press("none")
    /\ m.path # "/"
    /\ Go(m, Dir[m.path])

EnterItem(model) ==
    /\ m.cursor < Len(m.files)
    /\ LET item == m.files[m.cursor + 1]
       IN  /\ item.isDir
           /\ Go(model, IF item.up THEN Dir[m.path] ELSE item.path)

Enter == Press("none") /\ EnterItem(m)

\* F7, F3 and, while the vault is shown as locked, F2.
OpenModal(modal) ==
    /\ Press("none")
    /\ modal = "vault" => ~m.vaultUnlocked
    /\ m' = [m EXCEPT !.modal = modal,
                      !.profileCursor = IF modal = "profiles" THEN 0 ELSE @]
    /\ Quiet

\* Esc, and a name for the new directory (which leaves the remote pane alone).
CloseModal ==
    /\ \E modal \in {"mkdir", "profiles", "vault"} : Press(modal)
    /\ m' = [m EXCEPT !.modal = "none"]
    /\ Quiet

\* Enter without a name closes the modal and goes on to the pane.
MkDirEnter ==
    /\ Press("mkdir")
    /\ EnterItem([m EXCEPT !.modal = "none"])

LockKey ==
    /\ Press("none")
    /\ m.vaultUnlocked
    /\ Send(Request("lock", m.server, "/"))
    /\ UNCHANGED m

UnlockKey ==
    /\ Press("vault")
    /\ Send(Request("unlock", m.server, "/"))
    /\ UNCHANGED m

MoveProfile ==
    /\ Press("profiles")
    /\ \E k \in {m.profileCursor - 1, m.profileCursor + 1} :
          /\ k \in 0..(Len(m.profiles) - 1)
          /\ m' = [m EXCEPT !.profileCursor = k]
    /\ Quiet

UseProfile ==
    /\ Press("profiles")
    /\ m.profileCursor < Len(m.profiles)
    /\ LET p == m.profiles[m.profileCursor + 1]
       IN  /\ m' = [m EXCEPT !.addr = p.server, !.modal = "none",
                             !.path = IF p.path # "" THEN p.path ELSE @]
           /\ Send(Request("connect", p.server, "/"))

WithoutProfile ==
    LET rest == RemoveAt(m.profiles, m.profileCursor + 1)
    IN  [m EXCEPT !.profiles = rest,
                  !.profileCursor = IF @ >= Len(rest) /\ @ > 0 THEN @ - 1 ELSE @]

\* os.WriteFile empties the file before it writes: a save that fails, of which
\* nobody hears, or is cut short leaves the file as it was or not readable.  One
\* that succeeds makes up for those before it.
SaveProfiles(profiles) ==
    \/ stored' = profiles /\ troubles' = troubles \ {"stale", "broken"}
    \/ stored' = stored /\ troubles' = troubles \cup {"stale"}
    \/ stored' = Broken /\ troubles' = troubles \cup {"broken"}

Slip_SavesTheOld(old, new) == old

\* What SaveProfiles is given.
ToSave(old, new) == new

\* The program goes on, whatever became of the save, or dies in it.
DeleteProfile ==
    /\ Press("profiles")
    /\ m.profileCursor < Len(m.profiles)
    /\ SaveProfiles(ToSave(m.profiles, WithoutProfile.profiles))
    /\ \/ m' = WithoutProfile /\ UNCHANGED calls
       \/ /\ m' = [WithoutProfile EXCEPT !.modal = "quit"]
          /\ calls' = [c \in Calls |-> NoCall]
    /\ UNCHANGED unlocked

Reconnect ==
    /\ Press("none")
    /\ m' = [m EXCEPT !.connected = FALSE]
    /\ Send(Request("connect", m.addr, "/"))

Quit ==
    /\ Press("none")
    /\ m' = [m EXCEPT !.modal = "quit"]
    /\ calls' = [c \in Calls |-> NoCall]
    /\ UNCHANGED <<unlocked, stored, troubles>>

\* A new client shows what is in the file, and does not ask whether the vault is
\* unlocked.
Restart ==
    /\ m.modal = "quit"
    /\ m' = InitialModel(stored)
    /\ \E c \in Calls : calls' = [calls EXCEPT ![c] = Request("connect", Home, "/")]
    /\ troubles' = (troubles \ {"stale"}) \cup (IF unlocked # {} THEN {"moved"} ELSE {})
    /\ UNCHANGED <<unlocked, stored, pressed>>

(* RPCs                                                                    *)

Answer(c, ok) == calls' = [calls EXCEPT ![c] = [@ EXCEPT !.answered = TRUE, !.ok = ok]]
Asked(c, kind) == calls[c].kind = kind /\ ~calls[c].answered

\* The dial and List: a failure changes nothing on the server.
Look(c) ==
    /\ Asked(c, "connect") \/ Asked(c, "list")
    /\ \E ok \in BOOLEAN : (ok => calls[c].server # NoServer) /\ Answer(c, ok)
    /\ UNCHANGED <<m, unlocked, stored, troubles, pressed>>

\* What may make the client show the vault wrongly; and what ends it, a call that
\* succeeds by itself with the server that the client is connected to.
VaultTroubles == {"unlock", "failed", "moved", "elsewhere"}
AfterSuccess(c) ==
    troubles' = IF UnderWay("unlock") = {c} /\ calls[c].server = m.server
                THEN troubles \ VaultTroubles ELSE troubles

\* A passphrase that is right or wrong, and no connection at all.
Unlock(c) ==
    /\ Asked(c, "unlock")
    /\ \/ /\ calls[c].server # NoServer
          /\ Answer(c, TRUE)
          /\ unlocked' = unlocked \cup {calls[c].server}
          /\ AfterSuccess(c)
       \/ Answer(c, FALSE) /\ UNCHANGED <<unlocked, troubles>>
    /\ UNCHANGED <<m, stored, pressed>>

Lock(c) ==
    /\ Asked(c, "lock")
    /\ calls[c].server # NoServer
    /\ Answer(c, TRUE)
    /\ unlocked' = unlocked \ {calls[c].server}
    /\ AfterSuccess(c)
    /\ UNCHANGED <<m, stored, pressed>>

\* Unlock or Lock fails or times out, before or after the server did it.
VaultCallFails(c) ==
    /\ Asked(c, "unlock") \/ Asked(c, "lock")
    /\ Answer(c, FALSE)
    /\ unlocked' \in {unlocked, IF calls[c].kind = "unlock"
                                THEN unlocked \cup ({calls[c].server} \ {NoServer})
                                ELSE unlocked \ {calls[c].server}}
    /\ troubles' = troubles \cup {"failed"}
    /\ UNCHANGED <<m, stored, pressed>>

(* The vaults of the servers, which tell the client nothing                *)

VaultBecomes(now) ==
    /\ unlocked' = now
    /\ troubles' = troubles \cup {"elsewhere"}
    /\ UNCHANGED <<m, calls, stored, pressed>>

\* A vault is in memory only: it is locked, and empty, after a restart.
ServerRestarts(s) == s \in unlocked /\ VaultBecomes(unlocked \ {s})

\* Another client's Unlock, or its AddCredential or GetSSHKey, which unlock the
\* vault by themselves; and its Lock.  So does a call of this client that takes
\* effect after it was given up.
OtherUnlocks(s) == s \notin unlocked /\ VaultBecomes(unlocked \cup {s})
OtherLocks(s)   == s \in unlocked /\ VaultBecomes(unlocked \ {s})

(* Messages                                                                *)

Answered(c, kind) == calls[c].kind = kind /\ calls[c].answered
Handled(c) == calls' = [calls EXCEPT ![c] = NoCall]

\* case grpcConnectedMsg.  The connection before is not closed.
OnConnected(c) ==
    /\ Answered(c, "connect")
    /\ IF calls[c].ok
       THEN /\ m' = [m EXCEPT !.connected = TRUE, !.server = calls[c].server]
            /\ calls' = [calls EXCEPT ![c] = Request("list", calls[c].server, m.path)]
            /\ troubles' = troubles \cup Crossing("list")
                 \cup (IF m.server \in {NoServer, calls[c].server} THEN {} ELSE {"moved"})
       ELSE /\ m' = [m EXCEPT !.connected = FALSE]
            /\ Handled(c)
            /\ UNCHANGED troubles
    /\ UNCHANGED <<unlocked, stored, pressed>>

Slip_NoClamp(model, files) == [model EXCEPT !.files = files]

Shown(model, files) ==
    [model EXCEPT !.files = files, !.cursor = IF @ >= Len(files) THEN 0 ELSE @]

\* case remoteFilesMsg: it does not say which directory it is about.
OnFiles(c) ==
    /\ Answered(c, "list")
    /\ m' = IF calls[c].ok THEN Shown(m, Items[calls[c].server][calls[c].path])
            ELSE [m EXCEPT !.files = NotConnected]
    /\ Handled(c)
    /\ UNCHANGED <<unlocked, stored, troubles, pressed>>

Slip_AlwaysUnlocked(ok) == TRUE

UnlockResult(ok) == ok

\* case vaultUnlockedMsg: it closes the modal, even one opened anew.
OnUnlocked(c) ==
    /\ Answered(c, "unlock")
    /\ m' = [m EXCEPT !.vaultUnlocked = UnlockResult(calls[c].ok),
                      !.modal = IF @ = "vault" THEN "none" ELSE @]
    /\ Handled(c)
    /\ UNCHANGED <<unlocked, stored, troubles, pressed>>

\* case vaultLockedMsg: whether it succeeded is not looked at.
OnLocked(c) ==
    /\ Answered(c, "lock")
    /\ m' = [m EXCEPT !.vaultUnlocked = FALSE]
    /\ Handled(c)
    /\ UNCHANGED <<unlocked, stored, troubles, pressed>>

Key == \/ MoveCursor \/ Left \/ Enter \/ MkDirEnter \/ CloseModal
       \/ \E modal \in {"mkdir", "profiles", "vault"} : OpenModal(modal)
       \/ LockKey \/ UnlockKey \/ MoveProfile \/ UseProfile \/ DeleteProfile
       \/ Reconnect \/ Quit

CallStep(c) ==
    \/ Look(c) \/ Unlock(c) \/ Lock(c) \/ VaultCallFails(c)
    \/ OnConnected(c) \/ OnFiles(c) \/ OnUnlocked(c) \/ OnLocked(c)

ServerStep(s) == ServerRestarts(s) \/ OtherUnlocks(s) \/ OtherLocks(s)

SessionNext ==
    \/ Key \/ Restart
    \/ \E c \in Calls : CallStep(c)
    \/ \E s \in Servers : ServerStep(s)

SessionSpec == SessionInit /\ [][SessionNext]_sessionVars
-----------------------------------------------------------------------------
(* Properties                                                              *)

\* Both cursors are on an item (or at the top of an empty list), whatever
\* listings arrive while the user moves; only the notice that there is no
\* connection may leave the cursor behind, and every key handler copes.
CursorsInRange ==
    /\ m.files # NotConnected => m.cursor = 0 \/ m.cursor < Len(m.files)
    /\ m.profileCursor = 0 \/ m.profileCursor < Len(m.profiles)

\* What the remote pane shows is the directory it says, on the server whose
\* address is set, once nothing is under way, if no two listings and no two
\* connection attempts were ever under way together.  A profile changes the
\* path and the address long before there is an answer.
PaneIsCurrent ==
    /\ m.connected /\ m.modal # "quit"
    /\ UnderWay("connect") \cup UnderWay("list") = {}
    /\ troubles \cap {"connect", "list"} = {}
    => m.server = m.addr /\ m.files \in {Items[m.server][m.path], NotConnected}

\* The vault is as the client shows it, once nothing is under way, from the
\* start and again from every Unlock or Lock that succeeds by itself with the
\* server the client is connected to: until two calls cross, one fails, the
\* client connects elsewhere or is restarted, or someone else changes the vault.
VaultIsAsShown ==
    /\ m.server # NoServer /\ m.modal # "quit"
    /\ UnderWay("unlock") = {}
    /\ troubles \cap VaultTroubles = {}
    => (m.vaultUnlocked <=> m.server \in unlocked)

\* The profiles shown are those on disk unless the last save failed; if it was
\* cut short the file cannot be read, and otherwise it still has all that are
\* shown.  So over any deletions, failures, crashes and restarts a profile that
\* was not deleted is lost only by starting the client from a file that was cut
\* short, and one more save that succeeds before that keeps it.
ProfilesKept ==
    \/ stored = m.profiles
    \/ "broken" \in troubles /\ stored = Broken
    \/ "stale" \in troubles /\ stored # Broken /\ Range(m.profiles) \subseteq Range(stored)
=============================================================================
