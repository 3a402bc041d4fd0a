-------------------------- MODULE TuiSessionProofs --------------------------
(***************************************************************************)
(* Proofs about TuiSession, for any number of servers, directories,         *)
(* profiles, keys and calls under way: the cursors stay in their lists, the *)
(* remote pane shows what it says, the vault is as it is shown, and the     *)
(* profiles on the screen are those on disk.                                *)
(*                                                                         *)
(* The last three are about a moment when nothing is under way.  The        *)
(* invariant says what each call that is under way is about, and how the    *)
(* model differs from the servers in the meantime.                          *)
(***************************************************************************)
EXTENDS TuiSession, SequenceTheorems, TLAPS

Model == [path : Paths, files : Seq(Item) \cup {NotConnected}, cursor : Nat, modal : Modals,
          addr : Servers, connected : BOOLEAN, server : Servers \cup {NoServer},
          vaultUnlocked : BOOLEAN, profiles : Seq(Profile), profileCursor : Nat]

\* The types; only a server that was reached answers a dial or a List with
\* success; the vault's modal is open only while the vault is shown as locked;
\* and a client that has been left has no calls.
SessionTypes ==
    /\ m \in Model
    /\ calls \in [Calls -> Call]
    /\ unlocked \subseteq Servers
    /\ stored \in Seq(Profile) \cup {Broken}
    /\ stored = Broken => "broken" \in troubles
    /\ \A c \in Calls : /\ calls[c].kind = "connect" => calls[c].server \in Servers
                        /\ calls[c].kind = "list" /\ calls[c].ok => calls[c].server \in Servers
    /\ m.modal = "vault" => ~m.vaultUnlocked
    /\ m.modal = "quit" => \A c \in Calls : calls[c] = NoCall

AtMostOne(kinds) ==
    \A c, d \in Calls : calls[c].kind \in kinds /\ calls[d].kind \in kinds => c = d
NoneOf(kinds) == \A c \in Calls : calls[c].kind \notin kinds

\* The remote pane.
Pane ==
    troubles \cap {"connect", "list"} = {} =>
      /\ AtMostOne({"connect"}) /\ AtMostOne({"list"})
      /\ \A c \in Calls : calls[c].kind = "connect" => calls[c].server = m.addr
      /\ m.connected /\ m.modal # "quit" /\ NoneOf({"connect"}) =>
           /\ m.server = m.addr
           /\ \A c \in Calls : calls[c].kind = "list" =>
                calls[c].server = m.server /\ calls[c].path = m.path
           /\ NoneOf({"list"}) => m.files \in {Items[m.server][m.path], NotConnected}

VaultKinds == {"unlock", "lock"}

\* The only call of the vault, with the server the client is connected to.
Alone(c) == /\ calls[c].server = m.server /\ m.server # NoServer
            /\ \A d \in Calls : calls[d].kind \in VaultKinds => d = c

\* The call c of the vault is for the server the client is connected to, and the
\* vault is as it was before the call or as its answer says.
VaultCall(c) ==
    /\ calls[c].kind = "unlock" =>
         /\ calls[c].server \in {m.server, NoServer}
         /\ ~calls[c].answered => ~m.vaultUnlocked /\ m.server \notin unlocked
         /\ calls[c].answered =>
              (calls[c].ok <=> m.server \in unlocked)
    /\ calls[c].kind = "lock" =>
         /\ calls[c].server = m.server /\ m.server # NoServer
         /\ calls[c].answered => m.server \notin unlocked

VaultShown ==
    troubles \cap VaultTroubles = {} /\ m.modal # "quit" =>
      /\ AtMostOne(VaultKinds)
      /\ m.server = NoServer => unlocked = {}
      /\ \A c \in Calls : VaultCall(c)
      /\ NoneOf(VaultKinds) => (m.vaultUnlocked <=> m.server \in unlocked)

SessionInv ==
    /\ SessionTypes
    /\ CursorsInRange
    /\ Pane
    /\ VaultShown
    /\ ProfilesKept

-----------------------------------------------------------------------------
(* The operators                                                            *)

LEMMA RemoveAtIs ==
    ASSUME NEW S, NEW s \in Seq(S), NEW i \in 1..Len(s)
    PROVE  /\ RemoveAt(s, i) \in Seq(S) /\ Len(RemoveAt(s, i)) = Len(s) - 1
           /\ Range(RemoveAt(s, i)) \subseteq Range(s)
<1> DEFINE a == SubSeq(s, 1, i - 1)
           b == SubSeq(s, i + 1, Len(s))
<1>1. /\ a \in Seq(S) /\ Len(a) = i - 1 /\ \A j \in 1..(i - 1) : a[j] = s[j]
  OBVIOUS
<1>2. /\ b \in Seq(S) /\ Len(b) = Len(s) - i
      /\ \A j \in 1..(Len(s) - i) : b[j] = s[i + j]
  <2>1. b \in Seq(S)
    OBVIOUS
  <2>2. Len(b) = Len(s) - i
    OBVIOUS
  <2>3. \A j \in 1..(Len(s) - i) : b[j] = s[(i + 1) + j - 1]
    OBVIOUS
  <2>4. \A j \in 1..(Len(s) - i) : (i + 1) + j - 1 = i + j
    OBVIOUS
  <2> HIDE DEF b
  <2> QED
    BY <2>1, <2>2, <2>3, <2>4
<1> HIDE DEF a, b
<1>3. RemoveAt(s, i) = a \o b
  BY DEF RemoveAt, a, b
<1>4. /\ a \o b \in Seq(S) /\ Len(a \o b) = Len(s) - 1
      /\ \A j \in 1..(Len(s) - 1) : (a \o b)[j] = IF j <= i - 1 THEN a[j] ELSE b[j - (i - 1)]
  <2>1. a \o b \in Seq(S) /\ Len(a \o b) = Len(a) + Len(b)
    BY <1>1, <1>2, ConcatProperties
  <2>2. \A j \in 1..(Len(a) + Len(b)) : (a \o b)[j] = IF j <= Len(a) THEN a[j] ELSE b[j - Len(a)]
    BY <1>1, <1>2, ConcatProperties
  <2> QED
    BY <1>1, <1>2, <2>1, <2>2
<1>5. \A j \in 1..(Len(s) - 1) : \E k \in 1..Len(s) : (a \o b)[j] = s[k]
  <2> SUFFICES ASSUME NEW j \in 1..(Len(s) - 1)
               PROVE  \E k \in 1..Len(s) : (a \o b)[j] = s[k]
    OBVIOUS
  <2>1. CASE j <= i - 1
    BY <1>1, <1>4, <2>1
  <2>2. CASE ~(j <= i - 1)
    <3>1. j - (i - 1) \in 1..(Len(s) - i) /\ i + (j - (i - 1)) \in 1..Len(s)
      BY <2>2
    <3>2. (a \o b)[j] = b[j - (i - 1)]
      BY <1>4, <2>2
    <3>3. b[j - (i - 1)] = s[i + (j - (i - 1))]
      BY <1>2, <3>1
    <3> QED
      BY <3>1, <3>2, <3>3
  <2> QED
    BY <2>1, <2>2
<1>6. DOMAIN (a \o b) = 1..(Len(s) - 1) /\ DOMAIN s = 1..Len(s)
  BY <1>4
<1>7. Range(a \o b) \subseteq Range(s)
  BY <1>5, <1>6 DEF Range
<1> QED
  BY <1>3, <1>4, <1>7

LEMMA Strings == /\ \A k \in {"free", "connect", "list", "unlock"} : Class(k) = k
                 /\ Class("lock") = "unlock"
  BY DEF Class

LEMMA UnderWayIs ==
    ASSUME calls \in [Calls -> Call]
    PROVE  /\ UnderWay("connect") = {} <=> NoneOf({"connect"})
           /\ UnderWay("list") = {} <=> NoneOf({"list"})
           /\ UnderWay("unlock") = {} <=> NoneOf(VaultKinds)
           /\ UnderWay("lock") = {} <=> NoneOf(VaultKinds)
<1>1. \A c \in Calls : calls[c].kind \in Kinds
  BY DEF Call
<1> QED
  BY <1>1 DEF UnderWay, Class, NoneOf, VaultKinds, Kinds

LEMMA RequestIs ==
    ASSUME NEW kind \in Kinds, NEW server \in Servers \cup {NoServer}, NEW path \in Paths,
           NEW r, r = Request(kind, server, path)
    PROVE  /\ r \in Call /\ r.kind = kind /\ r.server = server /\ r.path = path
           /\ ~r.answered /\ ~r.ok
<1>1. PICK no \in BOOLEAN : no = FALSE
  OBVIOUS
<1>2. r = [kind |-> kind, server |-> server, path |-> path, answered |-> no, ok |-> no]
  BY <1>1 DEF Request
<1> QED
  BY <1>1, <1>2 DEF Call

LEMMA NoCallIs ==
    NoCall \in Call /\ NoCall.kind = "free" /\ ~NoCall.answered /\ ~NoCall.ok
  BY RequestIs, SessionAssumption DEF NoCall, Kinds

LEMMA NotConnectedIs == Len(NotConnected) = 1 /\ ~NotConnected[1].isDir
<1>1. PICK no \in BOOLEAN : no = FALSE
  OBVIOUS
<1>2. PICK x : x = [path |-> "", isDir |-> no, up |-> no]
  OBVIOUS
<1>3. NotConnected = <<x>>
  BY <1>1, <1>2 DEF NotConnected
<1>4. ~x.isDir
  BY <1>1, <1>2
<1> QED
  BY <1>3, <1>4

\* What the types say of each field and of each call.
LEMMA Fields ==
    ASSUME SessionTypes
    PROVE  /\ m \in Model
           /\ m.path \in Paths /\ m.cursor \in Nat /\ m.modal \in Modals /\ m.addr \in Servers
           /\ m.connected \in BOOLEAN /\ m.server \in Servers \cup {NoServer}
           /\ m.vaultUnlocked \in BOOLEAN /\ m.profiles \in Seq(Profile)
           /\ m.profileCursor \in Nat /\ Len(m.profiles) \in Nat
           /\ Len(m.files) \in Nat /\ m.files \in Seq(Item) \cup {NotConnected}
           /\ \A c \in Calls : calls[c] \in Call /\ calls[c].kind \in Kinds
                /\ calls[c].answered \in BOOLEAN /\ calls[c].ok \in BOOLEAN
                /\ calls[c].server \in Servers \cup {NoServer} /\ calls[c].path \in Paths
<1>1. m \in Model /\ \A c \in Calls : calls[c] \in Call
  BY DEF SessionTypes
<1>2. m.files \in Seq(Item) \cup {NotConnected}
  BY <1>1 DEF Model
<1>3. Len(m.files) \in Nat
  BY <1>2, NotConnectedIs
<1>4. m.profiles \in Seq(Profile) /\ Len(m.profiles) \in Nat
  BY <1>1 DEF Model
<1>5. /\ m.path \in Paths /\ m.cursor \in Nat /\ m.modal \in Modals /\ m.addr \in Servers
      /\ m.connected \in BOOLEAN /\ m.server \in Servers \cup {NoServer}
      /\ m.vaultUnlocked \in BOOLEAN /\ m.profileCursor \in Nat
  BY <1>1 DEF Model
<1>6. \A c \in Calls : calls[c] \in Call /\ calls[c].kind \in Kinds
                /\ calls[c].answered \in BOOLEAN /\ calls[c].ok \in BOOLEAN
                /\ calls[c].server \in Servers \cup {NoServer} /\ calls[c].path \in Paths
  BY <1>1 DEF Call
<1> QED
  BY <1>1, <1>2, <1>3, <1>4, <1>5, <1>6

-----------------------------------------------------------------------------
(* What leaves a part of the state alone                                    *)

PaneKinds == {"connect", "list"}

PaneCallsKept ==
    \A c \in Calls :
      \/ calls[c].kind \notin PaneKinds /\ calls'[c].kind \notin PaneKinds
      \/ /\ calls'[c].kind = calls[c].kind /\ calls'[c].server = calls[c].server
         /\ calls'[c].path = calls[c].path

VaultCallsKept ==
    \A c \in Calls :
      \/ calls[c].kind \notin VaultKinds /\ calls'[c].kind \notin VaultKinds
      \/ calls'[c] = calls[c]

LEMMA PaneFrame ==
    ASSUME Pane, PaneCallsKept, m'.addr = m.addr, m'.server = m.server, m'.path = m.path,
           m'.files = m.files, m'.connected => m.connected,
           m'.modal # "quit" => m.modal # "quit",
           "connect" \in troubles => "connect" \in troubles', "list" \in troubles => "list" \in troubles'
    PROVE  Pane'
<1> SUFFICES ASSUME (troubles \cap {"connect", "list"} = {})'
             PROVE  /\ AtMostOne({"connect"})' /\ AtMostOne({"list"})'
                    /\ \A c \in Calls : calls'[c].kind = "connect" => calls'[c].server = m'.addr
                    /\ m'.connected /\ m'.modal # "quit" /\ NoneOf({"connect"})' =>
                         /\ m'.server = m'.addr
                         /\ \A c \in Calls : calls'[c].kind = "list" =>
                              calls'[c].server = m'.server /\ calls'[c].path = m'.path
                         /\ NoneOf({"list"})' => m'.files \in {Items[m'.server][m'.path], NotConnected}
  BY DEF Pane
<1>1. troubles \cap {"connect", "list"} = {}
  OBVIOUS
<1>2. /\ AtMostOne({"connect"}) /\ AtMostOne({"list"})
      /\ \A c \in Calls : calls[c].kind = "connect" => calls[c].server = m.addr
      /\ m.connected /\ m.modal # "quit" /\ NoneOf({"connect"}) =>
           /\ m.server = m.addr
           /\ \A c \in Calls : calls[c].kind = "list" =>
                calls[c].server = m.server /\ calls[c].path = m.path
           /\ NoneOf({"list"}) => m.files \in {Items[m.server][m.path], NotConnected}
  BY <1>1 DEF Pane
<1>3. \A c \in Calls :
        /\ calls'[c].kind = "connect" <=> calls[c].kind = "connect"
        /\ calls'[c].kind = "list" <=> calls[c].kind = "list"
        /\ calls'[c].kind \in PaneKinds => /\ calls'[c].server = calls[c].server
                                           /\ calls'[c].path = calls[c].path
  BY DEF PaneCallsKept, PaneKinds
<1>4. /\ AtMostOne({"connect"})' /\ AtMostOne({"list"})'
      /\ NoneOf({"connect"})' <=> NoneOf({"connect"})
      /\ NoneOf({"list"})' <=> NoneOf({"list"})
  BY <1>2, <1>3 DEF AtMostOne, NoneOf
<1> QED
  BY <1>2, <1>3, <1>4 DEF PaneKinds

LEMMA VaultFrame ==
    ASSUME VaultShown, VaultCallsKept, m'.server = m.server, unlocked' = unlocked,
           m'.vaultUnlocked = m.vaultUnlocked,
           m'.modal # "quit" => m.modal # "quit", troubles \cap VaultTroubles \subseteq troubles'
    PROVE  VaultShown'
<1> SUFFICES ASSUME (troubles \cap VaultTroubles = {} /\ m.modal # "quit")'
             PROVE  /\ AtMostOne(VaultKinds)'
                    /\ m'.server = NoServer => unlocked' = {}
                    /\ \A c \in Calls : VaultCall(c)'
                    /\ NoneOf(VaultKinds)' => (m'.vaultUnlocked <=> m'.server \in unlocked')
  BY DEF VaultShown
<1>1. troubles \cap VaultTroubles = {} /\ m.modal # "quit"
  OBVIOUS
<1>2. /\ AtMostOne(VaultKinds)
      /\ m.server = NoServer => unlocked = {}
      /\ \A c \in Calls : VaultCall(c)
      /\ NoneOf(VaultKinds) => (m.vaultUnlocked <=> m.server \in unlocked)
  BY <1>1 DEF VaultShown
<1>3. \A c \in Calls : /\ calls'[c].kind \in VaultKinds <=> calls[c].kind \in VaultKinds
                       /\ calls'[c].kind \in VaultKinds => calls'[c] = calls[c]
  BY DEF VaultCallsKept
<1>4. AtMostOne(VaultKinds)' /\ (NoneOf(VaultKinds)' <=> NoneOf(VaultKinds))
  BY <1>2, <1>3 DEF AtMostOne, NoneOf
<1>5. ASSUME NEW c \in Calls PROVE VaultCall(c)'
  <2>1. CASE calls'[c].kind \notin VaultKinds
    BY <2>1 DEF VaultCall, VaultKinds
  <2>2. CASE calls'[c].kind \in VaultKinds
    BY <1>2, <1>3, <2>2 DEF VaultCall
  <2> QED
    BY <2>1, <2>2
<1> QED
  BY <1>2, <1>4, <1>5

\* The call c is replaced by r.
LEMMA CallPut ==
    ASSUME SessionTypes, NEW c \in Calls, NEW r \in Call, calls' = [calls EXCEPT ![c] = r]
    PROVE  /\ calls' \in [Calls -> Call] /\ calls'[c] = r
           /\ \A d \in Calls : d # c => calls'[d] = calls[d]
  BY DEF SessionTypes

\* A command that is made takes a place that is free.
LEMMA SendPuts ==
    ASSUME SessionTypes, NEW r \in Call, Send(r)
    PROVE  \E c \in Calls :
             /\ calls[c].kind = "free" /\ calls'[c] = r /\ calls' \in [Calls -> Call]
             /\ \A d \in Calls : d # c => calls'[d] = calls[d]
             /\ troubles' = troubles \cup Crossing(r.kind)
             /\ unlocked' = unlocked /\ stored' = stored
<1>1. PICK c \in Calls : calls[c] = NoCall /\ calls' = [calls EXCEPT ![c] = r]
  BY DEF Send
<1> QED
  BY <1>1, CallPut, NoCallIs DEF Send

\* The types of the next state, from what the step makes of its parts.
LEMMA TypesFrame ==
    ASSUME SessionTypes, m' \in Model, calls' \in [Calls -> Call], unlocked' = unlocked,
           stored' = stored, troubles \subseteq troubles',
           \A c \in Calls :
             \/ calls'[c] = calls[c]
             \/ /\ calls'[c].kind = "connect" => calls'[c].server \in Servers
                /\ calls'[c].kind = "list" /\ calls'[c].ok => calls'[c].server \in Servers,
           m'.modal # "quit", m'.modal = "vault" => ~m'.vaultUnlocked
    PROVE  SessionTypes'
<1>1. \A c \in Calls :
         /\ calls'[c].kind = "connect" => calls'[c].server \in Servers
         /\ calls'[c].kind = "list" /\ calls'[c].ok => calls'[c].server \in Servers
  BY DEF SessionTypes
<1> QED
  BY <1>1 DEF SessionTypes

LEMMA ProfilesFrame ==
    ASSUME ProfilesKept, m'.profiles = m.profiles, stored' = stored,
           "stale" \in troubles => "stale" \in troubles', "broken" \in troubles => "broken" \in troubles'
    PROVE  ProfilesKept'
  BY DEF ProfilesKept

-----------------------------------------------------------------------------
(* Commands that are made                                                   *)

LEMMA CrossingIs ==
    ASSUME SessionTypes, NEW k \in Kinds, k # "free"
    PROVE  /\ Crossing(k) \subseteq {"connect", "list", "unlock"}
           /\ k = "connect" => (Crossing(k) = {} /\ NoneOf({"connect"})) \/ Crossing(k) = {"connect"}
           /\ k = "list" => (Crossing(k) = {} /\ NoneOf({"list"})) \/ Crossing(k) = {"list"}
           /\ k \in VaultKinds =>
                (Crossing(k) = {} /\ NoneOf(VaultKinds)) \/ Crossing(k) = {"unlock"}
<1>1. calls \in [Calls -> Call]
  BY DEF SessionTypes
<1>2. CASE k = "connect"
  BY <1>1, <1>2, UnderWayIs, Strings DEF Crossing, VaultKinds
<1>3. CASE k = "list"
  BY <1>1, <1>3, UnderWayIs, Strings DEF Crossing, VaultKinds
<1>4. CASE k = "unlock"
  BY <1>1, <1>4, UnderWayIs, Strings DEF Crossing, VaultKinds
<1>5. CASE k = "lock"
  BY <1>1, <1>5, UnderWayIs, Strings DEF Crossing, VaultKinds
<1> QED
  BY <1>2, <1>3, <1>4, <1>5 DEF Kinds

\* A dial that starts, for the address that is set.
LEMMA PaneAfterConnect ==
    ASSUME SessionTypes, Pane, NEW c \in Calls, calls[c].kind = "free",
           calls'[c].kind = "connect", calls'[c].server = m'.addr,
           \A d \in Calls : d # c => calls'[d] = calls[d],
           troubles' = troubles \cup Crossing("connect")
    PROVE  Pane'
<1> SUFFICES ASSUME (troubles \cap {"connect", "list"} = {})' PROVE Pane'
  BY DEF Pane
<1>1. troubles \cap {"connect", "list"} = {} /\ "connect" \notin Crossing("connect")
  OBVIOUS
<1>2. NoneOf({"connect"})
  BY <1>1, CrossingIs DEF Kinds
<1>3. AtMostOne({"list"})
  BY <1>1 DEF Pane
<1>4. AtMostOne({"connect"})' /\ AtMostOne({"list"})'
  BY <1>2, <1>3 DEF AtMostOne, NoneOf
<1>5. \A d \in Calls : calls'[d].kind = "connect" => calls'[d].server = m'.addr
  BY <1>2 DEF NoneOf
<1>6. ~NoneOf({"connect"})'
  BY DEF NoneOf
<1> QED
  BY <1>4, <1>5, <1>6 DEF Pane

\* A List that starts, for the directory that is set from now on.
LEMMA PaneAfterList ==
    ASSUME SessionTypes, Pane, NEW c \in Calls, calls[c].kind = "free",
           calls'[c].kind = "list", calls'[c].server = m.server, calls'[c].path = m'.path,
           \A d \in Calls : d # c => calls'[d] = calls[d],
           m.modal # "quit", m'.addr = m.addr, m'.server = m.server, m'.connected = m.connected,
           troubles' = troubles \cup Crossing("list")
    PROVE  Pane'
<1> SUFFICES ASSUME (troubles \cap {"connect", "list"} = {})' PROVE Pane'
  BY DEF Pane
<1>1. troubles \cap {"connect", "list"} = {} /\ "list" \notin Crossing("list")
  OBVIOUS
<1>2. NoneOf({"list"})
  BY <1>1, CrossingIs DEF Kinds
<1>3. AtMostOne({"connect"}) /\ \A d \in Calls : calls[d].kind = "connect" => calls[d].server = m.addr
  BY <1>1 DEF Pane
<1>4. AtMostOne({"connect"})' /\ AtMostOne({"list"})'
  BY <1>2, <1>3 DEF AtMostOne, NoneOf
<1>5. \A d \in Calls : calls'[d].kind = "connect" => calls'[d].server = m'.addr
  BY <1>3
<1>6. ~NoneOf({"list"})' /\ (NoneOf({"connect"})' => NoneOf({"connect"}))
  BY DEF NoneOf
<1>7. m.connected /\ NoneOf({"connect"}) => m.server = m.addr
  BY <1>1 DEF Pane
<1>8. \A d \in Calls : calls'[d].kind = "list" =>
        calls'[d].server = m'.server /\ calls'[d].path = m'.path
  BY <1>2 DEF NoneOf
<1> QED
  BY <1>4, <1>5, <1>6, <1>7, <1>8 DEF Pane

-----------------------------------------------------------------------------
(* Keys                                                                     *)

\* A key that makes no command and touches neither the pane's listing nor the
\* profiles.
LEMMA QuietKeeps ==
    ASSUME SessionInv, Quiet, m' \in Model, m'.path = m.path, m'.files = m.files,
           m'.addr = m.addr, m'.connected = m.connected, m'.server = m.server,
           m'.vaultUnlocked = m.vaultUnlocked, m'.profiles = m.profiles,
           m.modal # "quit", m'.modal # "quit", m'.modal = "vault" => ~m'.vaultUnlocked,
           CursorsInRange'
    PROVE  SessionInv'
<1>1. /\ calls' = calls /\ unlocked' = unlocked /\ stored' = stored /\ troubles' = troubles
      /\ SessionTypes /\ Pane /\ VaultShown /\ ProfilesKept /\ calls \in [Calls -> Call]
  BY DEF Quiet, SessionInv, SessionTypes
<1>2. PaneCallsKept /\ VaultCallsKept
  BY <1>1 DEF PaneCallsKept, VaultCallsKept
<1>3. SessionTypes'
  BY <1>1, TypesFrame
<1>4. Pane'
  BY <1>1, <1>2, PaneFrame
<1>5. VaultShown'
  BY <1>1, <1>2, VaultFrame
<1>6. ProfilesKept'
  BY <1>1, ProfilesFrame
<1> QED
  BY <1>3, <1>4, <1>5, <1>6 DEF SessionInv

LEMMA MoveCursorKeeps ==
    ASSUME SessionInv, MoveCursor
    PROVE  SessionInv'
<1>1. SessionTypes /\ CursorsInRange
  BY DEF SessionInv
<1>2. PICK k \in {m.cursor - 1, m.cursor + 1, 0, Len(m.files) - 1} :
        /\ k \in Nat /\ (k > 0 => k < Len(m.files) \/ k < m.cursor)
        /\ m' = [m EXCEPT !.cursor = k]
  BY DEF MoveCursor
<1>3. /\ m' \in Model /\ m'.cursor = k /\ m'.path = m.path /\ m'.files = m.files
      /\ m'.addr = m.addr /\ m'.connected = m.connected /\ m'.server = m.server
      /\ m'.vaultUnlocked = m.vaultUnlocked /\ m'.profiles = m.profiles
      /\ m'.profileCursor = m.profileCursor /\ m'.modal = m.modal
  BY <1>1, <1>2, Fields DEF Model
<1>4. m.modal = "none" /\ Quiet
  BY DEF MoveCursor, Press
<1>5. CursorsInRange'
  <2>1. ASSUME m.files # NotConnected PROVE k = 0 \/ k < Len(m.files)
    BY <1>1, <1>2, <2>1, Fields DEF CursorsInRange
  <2> QED
    BY <1>1, <1>3, <2>1 DEF CursorsInRange
<1> QED
  BY <1>3, <1>4, <1>5, QuietKeeps

LEMMA OpenModalKeeps ==
    ASSUME SessionInv, NEW modal \in {"mkdir", "profiles", "vault"}, OpenModal(modal)
    PROVE  SessionInv'
<1>1. SessionTypes /\ CursorsInRange
  BY DEF SessionInv
<1>2. PICK k \in Nat : k = IF modal = "profiles" THEN 0 ELSE m.profileCursor
  BY <1>1, Fields
<1>3. m' = [m EXCEPT !.modal = modal, !.profileCursor = k]
  BY <1>2 DEF OpenModal
<1>4. /\ m' \in Model /\ m'.cursor = m.cursor /\ m'.path = m.path /\ m'.files = m.files
      /\ m'.addr = m.addr /\ m'.connected = m.connected /\ m'.server = m.server
      /\ m'.vaultUnlocked = m.vaultUnlocked /\ m'.profiles = m.profiles
      /\ m'.profileCursor = k /\ m'.modal = modal
  BY <1>1, <1>3, Fields DEF Model, Modals
<1>5. m.modal = "none" /\ Quiet /\ (modal = "vault" => ~m.vaultUnlocked)
  BY DEF OpenModal, Press
<1>6. CursorsInRange'
  BY <1>1, <1>2, <1>4 DEF CursorsInRange
<1> QED
  BY <1>4, <1>5, <1>6, QuietKeeps

LEMMA CloseModalKeeps ==
    ASSUME SessionInv, CloseModal
    PROVE  SessionInv'
<1>1. SessionTypes /\ CursorsInRange
  BY DEF SessionInv
<1>2. m' = [m EXCEPT !.modal = "none"] /\ Quiet /\ m.modal # "quit"
  BY DEF CloseModal, Press
<1>3. /\ m' \in Model /\ m'.cursor = m.cursor /\ m'.path = m.path /\ m'.files = m.files
      /\ m'.addr = m.addr /\ m'.connected = m.connected /\ m'.server = m.server
      /\ m'.vaultUnlocked = m.vaultUnlocked /\ m'.profiles = m.profiles
      /\ m'.profileCursor = m.profileCursor /\ m'.modal = "none"
  BY <1>1, <1>2, Fields DEF Model, Modals
<1>4. CursorsInRange'
  BY <1>1, <1>3 DEF CursorsInRange
<1> QED
  BY <1>2, <1>3, <1>4, QuietKeeps

LEMMA MoveProfileKeeps ==
    ASSUME SessionInv, MoveProfile
    PROVE  SessionInv'
<1>1. SessionTypes /\ CursorsInRange
  BY DEF SessionInv
<1>2. PICK k \in 0..(Len(m.profiles) - 1) : m' = [m EXCEPT !.profileCursor = k]
  BY DEF MoveProfile
<1>3. Quiet /\ m.modal = "profiles"
  BY DEF MoveProfile, Press
<1>4. k \in Nat /\ k < Len(m.profiles)
  BY <1>1, Fields
<1>5. /\ m' \in Model /\ m'.cursor = m.cursor /\ m'.path = m.path /\ m'.files = m.files
      /\ m'.addr = m.addr /\ m'.connected = m.connected /\ m'.server = m.server
      /\ m'.vaultUnlocked = m.vaultUnlocked /\ m'.profiles = m.profiles
      /\ m'.profileCursor = k /\ m'.modal = m.modal
  BY <1>1, <1>2, <1>4, Fields DEF Model
<1>6. CursorsInRange'
  BY <1>1, <1>4, <1>5 DEF CursorsInRange
<1> QED
  BY <1>3, <1>5, <1>6, QuietKeeps

\* Left, and Enter on a directory.
LEMMA GoKeeps ==
    ASSUME SessionInv, NEW model \in Model, NEW path \in Paths, Go(model, path),
           model.files = m.files, model.addr = m.addr, model.connected = m.connected,
           model.server = m.server, model.vaultUnlocked = m.vaultUnlocked,
           model.profiles = m.profiles, model.profileCursor = m.profileCursor,
           m.modal # "quit", model.modal = "none"
    PROVE  SessionInv'
<1>1. SessionTypes /\ CursorsInRange /\ Pane /\ VaultShown /\ ProfilesKept
  BY DEF SessionInv
<1>2. m' = [model EXCEPT !.path = path, !.cursor = 0]
  BY DEF Go
<1>3. /\ m' \in Model /\ m'.path = path /\ m'.cursor = 0 /\ m'.files = m.files
      /\ m'.addr = m.addr /\ m'.connected = m.connected /\ m'.server = m.server
      /\ m'.vaultUnlocked = m.vaultUnlocked /\ m'.profiles = m.profiles
      /\ m'.profileCursor = m.profileCursor /\ m'.modal = "none"
  BY <1>2 DEF Model
<1>4. PICK r \in Call : /\ r = Request("list", m.server, path) /\ r.kind = "list"
                        /\ r.server = m.server /\ r.path = path /\ ~r.ok
  BY <1>1, Fields, RequestIs DEF Kinds
<1>5. Send(r)
  BY <1>4 DEF Go
<1>6. PICK c \in Calls :
        /\ calls[c].kind = "free" /\ calls'[c] = r /\ calls' \in [Calls -> Call]
        /\ \A d \in Calls : d # c => calls'[d] = calls[d]
        /\ troubles' = troubles \cup Crossing("list")
        /\ unlocked' = unlocked /\ stored' = stored
  BY <1>1, <1>4, <1>5, SendPuts
<1>7. Crossing("list") \subseteq {"list"}
  BY <1>1, CrossingIs DEF Kinds
<1>8. SessionTypes'
  BY <1>1, <1>3, <1>4, <1>6, TypesFrame
<1>9. Pane'
  BY <1>1, <1>3, <1>4, <1>6, PaneAfterList
<1>10. VaultShown'
  <2>1. VaultCallsKept
    BY <1>4, <1>6 DEF VaultCallsKept, VaultKinds
  <2> QED
    BY <1>1, <1>3, <1>6, <2>1, VaultFrame
<1>11. ProfilesKept'
  BY <1>1, <1>3, <1>6, <1>7, ProfilesFrame
<1>12. CursorsInRange'
  BY <1>1, <1>3 DEF CursorsInRange
<1> QED
  BY <1>8, <1>9, <1>10, <1>11, <1>12 DEF SessionInv

LEMMA LeftKeeps ==
    ASSUME SessionInv, Left
    PROVE  SessionInv'
<1>1. SessionTypes /\ m.modal = "none"
  BY DEF SessionInv, Left, Press
<1>2. Go(m, Dir[m.path]) /\ Dir[m.path] \in Paths /\ m \in Model
  BY <1>1, Fields, SessionAssumption DEF Left
<1> QED
  BY <1>1, <1>2, GoKeeps

\* Enter goes to a directory of the listing or up; the notice that there is no
\* connection is not a directory.
LEMMA EnterItemGoes ==
    ASSUME SessionInv, NEW model, EnterItem(model)
    PROVE  \E path \in Paths : Go(model, path)
<1>1. SessionTypes
  BY DEF SessionInv
<1>2. PICK item : /\ item = m.files[m.cursor + 1] /\ item.isDir /\ m.cursor < Len(m.files)
                  /\ Go(model, IF item.up THEN Dir[m.path] ELSE item.path)
  BY DEF EnterItem
<1>3. m.cursor + 1 \in 1..Len(m.files)
  BY <1>1, <1>2, Fields
<1>4. m.files # NotConnected
  <2> SUFFICES ASSUME m.files = NotConnected PROVE FALSE
    OBVIOUS
  <2>1. m.cursor + 1 = 1
    BY <1>3, NotConnectedIs, <1>1, Fields
  <2> QED
    BY <1>2, <2>1, NotConnectedIs
<1>5. item \in Item
  BY <1>1, <1>2, <1>3, <1>4, Fields
<1>6. (IF item.up THEN Dir[m.path] ELSE item.path) \in Paths
  BY <1>1, <1>5, Fields, SessionAssumption DEF Item
<1> QED
  BY <1>2, <1>6

LEMMA EnterKeeps ==
    ASSUME SessionInv, Enter \/ MkDirEnter
    PROVE  SessionInv'
<1>1. SessionTypes /\ m \in Model
  BY DEF SessionInv, SessionTypes
<1>2. CASE Enter
  <2>1. m.modal = "none" /\ EnterItem(m)
    BY <1>2 DEF Enter, Press
  <2>2. PICK path \in Paths : Go(m, path)
    BY <2>1, EnterItemGoes
  <2> QED
    BY <1>1, <2>1, <2>2, GoKeeps
<1>3. CASE MkDirEnter
  <2>1. PICK model : model = [m EXCEPT !.modal = "none"]
    OBVIOUS
  <2>2. m.modal = "mkdir" /\ EnterItem(model)
    BY <1>3, <2>1 DEF MkDirEnter, Press
  <2>3. /\ model \in Model /\ model.files = m.files /\ model.addr = m.addr
        /\ model.connected = m.connected /\ model.server = m.server
        /\ model.vaultUnlocked = m.vaultUnlocked /\ model.profiles = m.profiles
        /\ model.profileCursor = m.profileCursor /\ model.modal = "none"
    BY <1>1, <2>1 DEF Model, Modals
  <2>4. PICK path \in Paths : Go(model, path)
    BY <2>2, EnterItemGoes
  <2> QED
    BY <2>2, <2>3, <2>4, GoKeeps
<1> QED
  BY <1>2, <1>3

\* A dial for the address that is set, from a profile or again.
LEMMA ConnectKeeps ==
    ASSUME SessionInv, m' \in Model, m.modal # "quit", m'.modal = "none", m'.files = m.files,
           m'.cursor = m.cursor, m'.server = m.server, m'.vaultUnlocked = m.vaultUnlocked,
           m'.profiles = m.profiles, m'.profileCursor = m.profileCursor,
           Send(Request("connect", m'.addr, "/"))
    PROVE  SessionInv'
<1>1. SessionTypes /\ CursorsInRange /\ Pane /\ VaultShown /\ ProfilesKept
  BY DEF SessionInv
<1>2. m'.addr \in Servers
  BY DEF Model
<1>3. PICK r \in Call : /\ r = Request("connect", m'.addr, "/") /\ r.kind = "connect"
                        /\ r.server = m'.addr
  BY <1>2, RequestIs, SessionAssumption DEF Kinds
<1>4. Send(r)
  BY <1>3
<1>5. PICK c \in Calls :
        /\ calls[c].kind = "free" /\ calls'[c] = r /\ calls' \in [Calls -> Call]
        /\ \A d \in Calls : d # c => calls'[d] = calls[d]
        /\ troubles' = troubles \cup Crossing("connect")
        /\ unlocked' = unlocked /\ stored' = stored
  BY <1>1, <1>3, <1>4, SendPuts
<1>6. Crossing("connect") \subseteq {"connect"}
  BY <1>1, CrossingIs DEF Kinds
<1>7. SessionTypes'
  BY <1>1, <1>2, <1>3, <1>5, TypesFrame
<1>8. Pane'
  BY <1>1, <1>3, <1>5, PaneAfterConnect
<1>9. VaultShown'
  <2>1. VaultCallsKept
    BY <1>3, <1>5 DEF VaultCallsKept, VaultKinds
  <2> QED
    BY <1>1, <1>5, <2>1, VaultFrame
<1>10. ProfilesKept'
  BY <1>1, <1>5, <1>6, ProfilesFrame
<1>11. CursorsInRange'
  BY <1>1 DEF CursorsInRange
<1> QED
  BY <1>7, <1>8, <1>9, <1>10, <1>11 DEF SessionInv

LEMMA ReconnectKeeps ==
    ASSUME SessionInv, Reconnect
    PROVE  SessionInv'
<1>1. SessionTypes /\ m \in Model /\ m.modal = "none"
  BY DEF SessionInv, SessionTypes, Reconnect, Press
<1>2. PICK no \in BOOLEAN : no = FALSE
  OBVIOUS
<1>3. m' = [m EXCEPT !.connected = no] /\ Send(Request("connect", m.addr, "/"))
  BY <1>2 DEF Reconnect
<1>4. /\ m' \in Model /\ m'.modal = "none" /\ m'.files = m.files /\ m'.cursor = m.cursor
      /\ m'.server = m.server /\ m'.vaultUnlocked = m.vaultUnlocked /\ m'.addr = m.addr
      /\ m'.profiles = m.profiles /\ m'.profileCursor = m.profileCursor
  BY <1>1, <1>3 DEF Model
<1> QED
  BY <1>1, <1>3, <1>4, ConnectKeeps

LEMMA UseProfileKeeps ==
    ASSUME SessionInv, UseProfile
    PROVE  SessionInv'
<1>1. SessionTypes /\ m \in Model /\ m.modal = "profiles" /\ m.profileCursor < Len(m.profiles)
  BY DEF SessionInv, SessionTypes, UseProfile, Press
<1>2. PICK p : p = m.profiles[m.profileCursor + 1]
  OBVIOUS
<1>3. p \in Profile
  <2>1. m.profileCursor + 1 \in 1..Len(m.profiles)
    BY <1>1, Fields
  <2> QED
    BY <1>1, <1>2, <2>1, Fields
<1>4. PICK path : path = IF p.path # "" THEN p.path ELSE m.path
  OBVIOUS
<1>5. path \in Paths /\ p.server \in Servers
  BY <1>1, <1>3, <1>4, Fields DEF Profile
<1>6. /\ m' = [m EXCEPT !.addr = p.server, !.modal = "none", !.path = path]
      /\ Send(Request("connect", p.server, "/"))
  BY <1>2, <1>4 DEF UseProfile
<1>7. /\ m' \in Model /\ m'.modal = "none" /\ m'.files = m.files /\ m'.cursor = m.cursor
      /\ m'.server = m.server /\ m'.vaultUnlocked = m.vaultUnlocked /\ m'.addr = p.server
      /\ m'.profiles = m.profiles /\ m'.profileCursor = m.profileCursor
  BY <1>1, <1>5, <1>6 DEF Model, Modals
<1> QED
  BY <1>1, <1>6, <1>7, ConnectKeeps

\* Lock or Unlock is asked for.
LEMMA VaultKeyKeeps ==
    ASSUME SessionInv, NEW kind \in VaultKinds, Send(Request(kind, m.server, "/")), m' = m,
           m.modal # "quit", m.vaultUnlocked <=> kind = "lock"
    PROVE  SessionInv'
<1>1. /\ SessionTypes /\ CursorsInRange /\ Pane /\ VaultShown /\ ProfilesKept /\ m' \in Model
  BY DEF SessionInv, SessionTypes
<1>2. kind \in Kinds /\ kind # "free"
  BY DEF VaultKinds, Kinds
<1>3. PICK r \in Call : /\ r = Request(kind, m.server, "/") /\ r.kind = kind
                        /\ r.server = m.server /\ ~r.answered
  BY <1>1, <1>2, Fields, RequestIs, SessionAssumption
<1>4. Send(r)
  BY <1>3
<1>5. PICK c \in Calls :
        /\ calls[c].kind = "free" /\ calls'[c] = r /\ calls' \in [Calls -> Call]
        /\ \A d \in Calls : d # c => calls'[d] = calls[d]
        /\ troubles' = troubles \cup Crossing(kind)
        /\ unlocked' = unlocked /\ stored' = stored
  BY <1>1, <1>3, <1>4, SendPuts
<1>6. (Crossing(kind) = {} /\ NoneOf(VaultKinds)) \/ Crossing(kind) = {"unlock"}
  BY <1>1, <1>2, CrossingIs
<1>7. SessionTypes'
  <2>1. calls'[c].kind # "connect" /\ calls'[c].kind # "list"
    BY <1>3, <1>5 DEF VaultKinds
  <2>2. m'.modal # "quit" /\ (m'.modal = "vault" => ~m'.vaultUnlocked)
    BY <1>1 DEF SessionTypes
  <2> QED
    BY <1>1, <1>5, <2>1, <2>2, TypesFrame
<1>8. Pane'
  <2>1. PaneCallsKept
    BY <1>3, <1>5 DEF PaneCallsKept, PaneKinds, VaultKinds
  <2> QED
    BY <1>1, <1>5, <2>1, PaneFrame
<1>9. VaultShown'
  <2> SUFFICES ASSUME (troubles \cap VaultTroubles = {})' PROVE VaultShown'
    BY DEF VaultShown
  <2>1. troubles \cap VaultTroubles = {} /\ NoneOf(VaultKinds)
    BY <1>5, <1>6 DEF VaultTroubles
  <2>2. /\ m.server = NoServer => unlocked = {}
        /\ m.vaultUnlocked <=> m.server \in unlocked
    BY <1>1, <2>1 DEF VaultShown
  <2>3. AtMostOne(VaultKinds)' /\ ~NoneOf(VaultKinds)'
    BY <1>3, <1>5, <2>1 DEF AtMostOne, NoneOf
  <2>4. ASSUME NEW d \in Calls PROVE VaultCall(d)'
    <3>1. CASE d = c /\ kind = "unlock"
      <4>1. ~m.vaultUnlocked /\ m.server \notin unlocked
        BY <2>2, <3>1
      <4>2. /\ calls'[d].kind = "unlock" /\ calls'[d].server = m.server /\ ~calls'[d].answered
        BY <1>3, <1>5, <3>1
      <4> QED
        BY <1>5, <4>1, <4>2 DEF VaultCall
    <3>2. CASE d = c /\ kind = "lock"
      <4>1. m.server # NoServer
        BY <2>2, <3>2
      <4>2. /\ calls'[d].kind = "lock" /\ calls'[d].server = m.server /\ ~calls'[d].answered
        BY <1>3, <1>5, <3>2
      <4> QED
        BY <1>5, <4>1, <4>2 DEF VaultCall
    <3>3. CASE d # c
      <4>1. calls'[d].kind \notin VaultKinds
        BY <1>5, <2>1, <3>3 DEF NoneOf
      <4> QED
        BY <4>1 DEF VaultCall, VaultKinds
    <3> QED
      BY <3>1, <3>2, <3>3 DEF VaultKinds
  <2> QED
    BY <1>5, <2>2, <2>3, <2>4 DEF VaultShown
<1>10. ProfilesKept'
  BY <1>1, <1>5, <1>6, ProfilesFrame
<1>11. CursorsInRange'
  BY <1>1 DEF CursorsInRange
<1> QED
  BY <1>7, <1>8, <1>9, <1>10, <1>11 DEF SessionInv

LEMMA LockOrUnlockKeeps ==
    ASSUME SessionInv, LockKey \/ UnlockKey
    PROVE  SessionInv'
<1>1. SessionTypes
  BY DEF SessionInv
<1>2. CASE LockKey
  BY <1>2, VaultKeyKeeps DEF LockKey, Press, VaultKinds
<1>3. CASE UnlockKey
  <2>1. m.modal = "vault" /\ ~m.vaultUnlocked
    BY <1>1, <1>3 DEF UnlockKey, Press, SessionTypes
  <2> QED
    BY <1>3, <2>1, VaultKeyKeeps DEF UnlockKey, VaultKinds
<1> QED
  BY <1>2, <1>3

\* The client ends, and with it what is under way.
LEMMA LeaveKeeps ==
    ASSUME SessionInv, NEW w \in Model, m' = [w EXCEPT !.modal = "quit"],
           w.files = m.files, w.cursor = m.cursor,
           w.profileCursor = 0 \/ w.profileCursor < Len(w.profiles),
           calls' = [c \in Calls |-> NoCall],
           unlocked' = unlocked, stored' \in Seq(Profile) \cup {Broken},
           stored' = Broken => "broken" \in troubles', ProfilesKept'
    PROVE  SessionInv'
<1>1. SessionTypes /\ CursorsInRange
  BY DEF SessionInv
<1>2. /\ m' \in Model /\ m'.modal = "quit" /\ m'.files = m.files /\ m'.cursor = m.cursor
      /\ m'.profiles = w.profiles /\ m'.profileCursor = w.profileCursor
  BY DEF Model, Modals
<1>3. /\ calls' \in [Calls -> Call]
      /\ \A c \in Calls : calls'[c] = NoCall /\ calls'[c].kind = "free"
  BY NoCallIs
<1>4. SessionTypes'
  BY <1>1, <1>2, <1>3 DEF SessionTypes
<1>5. Pane'
  BY <1>2, <1>3 DEF Pane, AtMostOne
<1>6. VaultShown'
  BY <1>2 DEF VaultShown
<1>7. CursorsInRange'
  BY <1>1, <1>2 DEF CursorsInRange
<1> QED
  BY <1>4, <1>5, <1>6, <1>7 DEF SessionInv

LEMMA QuitKeeps ==
    ASSUME SessionInv, Quit
    PROVE  SessionInv'
<1>1. /\ SessionTypes /\ ProfilesKept /\ m \in Model
      /\ m.profileCursor = 0 \/ m.profileCursor < Len(m.profiles)
  BY DEF SessionInv, SessionTypes, CursorsInRange
<1>2. /\ m' = [m EXCEPT !.modal = "quit"] /\ calls' = [c \in Calls |-> NoCall]
      /\ unlocked' = unlocked /\ stored' = stored /\ troubles' = troubles
  BY DEF Quit
<1>3. m'.profiles = m.profiles
  BY <1>1, <1>2 DEF Model
<1>4. ProfilesKept'
  BY <1>1, <1>2, <1>3, ProfilesFrame
<1>5. stored' \in Seq(Profile) \cup {Broken} /\ (stored' = Broken => "broken" \in troubles')
  BY <1>1, <1>2 DEF SessionTypes
<1> QED
  BY <1>1, <1>2, <1>4, <1>5, LeaveKeeps

\* What is left of the profiles, and the cursor on it.
LEMMA WithoutProfileIs ==
    ASSUME SessionInv, m.profileCursor < Len(m.profiles), NEW w, w = WithoutProfile
    PROVE  /\ w \in Model /\ w.path = m.path /\ w.files = m.files /\ w.cursor = m.cursor
           /\ w.modal = m.modal /\ w.addr = m.addr /\ w.connected = m.connected
           /\ w.server = m.server /\ w.vaultUnlocked = m.vaultUnlocked
           /\ Range(w.profiles) \subseteq Range(m.profiles)
           /\ w.profileCursor = 0 \/ w.profileCursor < Len(w.profiles)
<1>1. SessionTypes /\ m \in Model
  BY DEF SessionInv, SessionTypes
<1>2. PICK rest : rest = RemoveAt(m.profiles, m.profileCursor + 1)
  OBVIOUS
<1>3. /\ rest \in Seq(Profile) /\ Len(rest) = Len(m.profiles) - 1
      /\ Range(rest) \subseteq Range(m.profiles)
  <2>1. m.profileCursor + 1 \in 1..Len(m.profiles) /\ m.profiles \in Seq(Profile)
    BY <1>1, Fields
  <2> QED
    BY <1>2, <2>1, RemoveAtIs
<1>4. PICK k : k = IF m.profileCursor >= Len(rest) /\ m.profileCursor > 0
                   THEN m.profileCursor - 1 ELSE m.profileCursor
  OBVIOUS
<1>5. k \in Nat /\ (k = 0 \/ k < Len(rest))
  BY <1>1, <1>3, <1>4, Fields
<1>6. w = [m EXCEPT !.profiles = rest, !.profileCursor = k]
  BY <1>2, <1>4 DEF WithoutProfile
<1> QED
  BY <1>1, <1>3, <1>5, <1>6 DEF Model

\* However a save ends, the file has what is left of the profiles, or it cannot be
\* read, or it is as it was, with the profile that was deleted too.
LEMMA SaveProfilesKeeps ==
    ASSUME SessionInv, NEW ps \in Seq(Profile), Range(ps) \subseteq Range(m.profiles),
           SaveProfiles(ps), m'.profiles = ps
    PROVE  /\ ProfilesKept' /\ stored' \in Seq(Profile) \cup {Broken}
           /\ stored' = Broken => "broken" \in troubles'
           /\ \A t : t \notin {"stale", "broken"} => (t \in troubles' <=> t \in troubles)
<1>1. /\ ProfilesKept /\ stored \in Seq(Profile) \cup {Broken}
      /\ stored = Broken => "broken" \in troubles
  BY DEF SessionInv, SessionTypes
<1>2. CASE stored' = ps /\ troubles' = troubles \ {"stale", "broken"}
  BY <1>2, SessionAssumption DEF ProfilesKept
<1>3. CASE stored' = stored /\ troubles' = troubles \cup {"stale"}
  <2>1. CASE stored = Broken
    BY <1>1, <1>3, <2>1 DEF ProfilesKept
  <2>2. CASE stored # Broken
    <3>1. Range(m.profiles) \subseteq Range(stored)
      BY <1>1, <2>2 DEF ProfilesKept
    <3> QED
      BY <1>1, <1>3, <2>2, <3>1 DEF ProfilesKept
  <2> QED
    BY <2>1, <2>2
<1>4. CASE stored' = Broken /\ troubles' = troubles \cup {"broken"}
  BY <1>4 DEF ProfilesKept
<1> QED
  BY <1>2, <1>3, <1>4 DEF SaveProfiles

LEMMA DeleteProfileKeeps ==
    ASSUME SessionInv, DeleteProfile
    PROVE  SessionInv'
<1>1. /\ SessionTypes /\ CursorsInRange /\ Pane /\ VaultShown
      /\ m.modal = "profiles" /\ m.profileCursor < Len(m.profiles) /\ unlocked' = unlocked
  BY DEF SessionInv, DeleteProfile, Press
<1>2. PICK w : w = WithoutProfile
  OBVIOUS
<1>3. /\ w \in Model /\ w.path = m.path /\ w.files = m.files /\ w.cursor = m.cursor
      /\ w.modal = m.modal /\ w.addr = m.addr /\ w.connected = m.connected
      /\ w.server = m.server /\ w.vaultUnlocked = m.vaultUnlocked
      /\ Range(w.profiles) \subseteq Range(m.profiles)
      /\ w.profileCursor = 0 \/ w.profileCursor < Len(w.profiles)
  BY <1>1, <1>2, WithoutProfileIs
<1>4. w.profiles \in Seq(Profile) /\ SaveProfiles(w.profiles)
  BY <1>2, <1>3 DEF DeleteProfile, ToSave, Model
<1>5. CASE m' = w /\ calls' = calls
  <2>1. /\ ProfilesKept' /\ stored' \in Seq(Profile) \cup {Broken}
        /\ stored' = Broken => "broken" \in troubles'
        /\ \A t : t \notin {"stale", "broken"} => (t \in troubles' <=> t \in troubles)
    BY <1>3, <1>4, <1>5, SaveProfilesKeeps
  <2>2. PaneCallsKept /\ VaultCallsKept
    BY <1>5 DEF PaneCallsKept, VaultCallsKept
  <2>3. Pane'
    BY <1>1, <1>3, <1>5, <2>1, <2>2, PaneFrame
  <2>4. VaultShown'
    <3>1. troubles \cap VaultTroubles \subseteq troubles'
      BY <2>1 DEF VaultTroubles
    <3> QED
      BY <1>1, <1>3, <1>5, <2>2, <3>1, VaultFrame
  <2>5. SessionTypes'
    BY <1>1, <1>3, <1>5, <2>1 DEF SessionTypes
  <2>6. CursorsInRange'
    BY <1>1, <1>3, <1>5 DEF CursorsInRange
  <2> QED
    BY <2>1, <2>3, <2>4, <2>5, <2>6 DEF SessionInv
<1>6. CASE m' = [w EXCEPT !.modal = "quit"] /\ calls' = [c \in Calls |-> NoCall]
  <2>1. m'.profiles = w.profiles
    BY <1>3, <1>6 DEF Model
  <2>2. /\ ProfilesKept' /\ stored' \in Seq(Profile) \cup {Broken}
        /\ stored' = Broken => "broken" \in troubles'
    BY <1>3, <1>4, <2>1, SaveProfilesKeeps
  <2> QED
    BY <1>1, <1>3, <1>6, <2>2, LeaveKeeps
<1> QED
  BY <1>2, <1>5, <1>6 DEF DeleteProfile

\* The model a client starts with.
LEMMA InitialModelIs ==
    ASSUME NEW file \in Seq(Profile) \cup {Broken}, NEW w, w = InitialModel(file)
    PROVE  /\ w \in Model /\ w.files = <<>> /\ w.cursor = 0 /\ w.profileCursor = 0
           /\ w.modal = "none" /\ w.addr = Home /\ ~w.connected /\ w.server = NoServer
           /\ ~w.vaultUnlocked /\ w.profiles = IF file = Broken THEN <<>> ELSE file
<1>1. PICK no \in BOOLEAN : no = FALSE
  OBVIOUS
<1>2. PICK ps : ps = IF file = Broken THEN <<>> ELSE file
  OBVIOUS
<1>3. ps \in Seq(Profile)
  BY <1>2
<1>4. PICK fs \in Seq(Item) : fs = <<>>
  BY EmptySeq
<1>5. w = [path |-> "/", files |-> fs, cursor |-> 0, modal |-> "none", addr |-> Home,
           connected |-> no, server |-> NoServer, vaultUnlocked |-> no, profiles |-> ps,
           profileCursor |-> 0]
  BY <1>1, <1>2, <1>4 DEF InitialModel
<1>6. w \in Model
  BY <1>3, <1>4, <1>5, SessionAssumption DEF Model, Modals
<1> QED
  BY <1>1, <1>2, <1>4, <1>5, <1>6

\* A client that starts: its dial is the only call.
LEMMA StartHolds ==
    ASSUME NEW file \in Seq(Profile) \cup {Broken}, m' = InitialModel(file), NEW c \in Calls,
           calls' \in [Calls -> Call], calls'[c] = Request("connect", Home, "/"),
           \A d \in Calls : d # c => calls'[d] = NoCall,
           stored' = file, file = Broken => "broken" \in troubles', unlocked' \subseteq Servers,
           unlocked' # {} => "moved" \in troubles'
    PROVE  SessionInv'
<1>1. /\ m' \in Model /\ m'.files = <<>> /\ m'.cursor = 0 /\ m'.profileCursor = 0
      /\ m'.modal = "none" /\ m'.addr = Home /\ ~m'.connected /\ m'.server = NoServer
      /\ ~m'.vaultUnlocked /\ m'.profiles = IF file = Broken THEN <<>> ELSE file
  BY InitialModelIs
<1>2. calls'[c].kind = "connect" /\ calls'[c].server = Home
  BY RequestIs, SessionAssumption DEF Kinds
<1>3. \A d \in Calls : d # c => calls'[d].kind = "free"
  BY NoCallIs
<1>4. SessionTypes'
  BY <1>1, <1>2, <1>3, SessionAssumption DEF SessionTypes
<1>5. Pane'
  BY <1>1, <1>2, <1>3 DEF Pane, AtMostOne, NoneOf
<1>6. VaultShown'
  <2> SUFFICES ASSUME unlocked' = {} PROVE VaultShown'
    BY DEF VaultShown, VaultTroubles
  <2>1. \A d \in Calls : calls'[d].kind \notin VaultKinds
    BY <1>2, <1>3 DEF VaultKinds
  <2>2. \A d \in Calls : VaultCall(d)'
    BY <2>1 DEF VaultCall, VaultKinds
  <2>3. AtMostOne(VaultKinds)'
    BY <2>1 DEF AtMostOne
  <2> QED
    BY <1>1, <2>2, <2>3 DEF VaultShown
<1>7. ProfilesKept'
  <2>1. CASE file = Broken
    BY <2>1 DEF ProfilesKept
  <2>2. CASE file # Broken
    BY <1>1, <2>2 DEF ProfilesKept
  <2> QED
    BY <2>1, <2>2
<1>8. CursorsInRange'
  BY <1>1 DEF CursorsInRange
<1> QED
  BY <1>4, <1>5, <1>6, <1>7, <1>8 DEF SessionInv

LEMMA RestartKeeps ==
    ASSUME SessionInv, Restart
    PROVE  SessionInv'
<1>1. /\ SessionTypes /\ stored \in Seq(Profile) \cup {Broken}
      /\ stored = Broken => "broken" \in troubles
  BY DEF SessionInv, SessionTypes
<1>2. \A d \in Calls : calls[d] = NoCall
  BY <1>1 DEF Restart, SessionTypes
<1>3. PICK r \in Call : r = Request("connect", Home, "/")
  BY RequestIs, SessionAssumption DEF Kinds
<1>4. PICK c \in Calls : calls' = [calls EXCEPT ![c] = r]
  BY <1>3 DEF Restart
<1>5. /\ calls' \in [Calls -> Call] /\ calls'[c] = r
      /\ \A d \in Calls : d # c => calls'[d] = NoCall
  BY <1>1, <1>2, <1>4, CallPut
<1>6. /\ m' = InitialModel(stored) /\ stored' = stored /\ unlocked' = unlocked
      /\ troubles' = (troubles \ {"stale"}) \cup (IF unlocked # {} THEN {"moved"} ELSE {})
  BY DEF Restart
<1>7. unlocked' \subseteq Servers
  BY <1>1, <1>6 DEF SessionTypes
<1> QED
  BY <1>1, <1>3, <1>5, <1>6, <1>7, StartHolds

-----------------------------------------------------------------------------
(* RPCs and their answers                                                   *)

\* A call is under way only while the client runs.
LEMMA NotLeft ==
    ASSUME SessionInv, NEW c \in Calls, calls[c].kind # "free"
    PROVE  m.modal # "quit"
  BY NoCallIs DEF SessionInv, SessionTypes

\* An answer fills in the call.
LEMMA AnswerIs ==
    ASSUME SessionTypes, NEW c \in Calls, NEW ok \in BOOLEAN, Answer(c, ok)
    PROVE  /\ calls' \in [Calls -> Call]
           /\ calls'[c].kind = calls[c].kind /\ calls'[c].server = calls[c].server
           /\ calls'[c].path = calls[c].path /\ calls'[c].answered /\ calls'[c].ok = ok
           /\ \A d \in Calls : d # c => calls'[d] = calls[d]
           /\ PaneCallsKept
<1>1. PICK yes \in BOOLEAN : yes = TRUE
  OBVIOUS
<1>2. PICK r : r = [calls[c] EXCEPT !.answered = yes, !.ok = ok]
  OBVIOUS
<1>3. calls[c] \in Call
  BY Fields
<1>4. /\ r \in Call /\ r.kind = calls[c].kind /\ r.server = calls[c].server
      /\ r.path = calls[c].path /\ r.answered /\ r.ok = ok
  BY <1>1, <1>2, <1>3 DEF Call
<1>5. calls' = [calls EXCEPT ![c] = r]
  BY <1>1, <1>2 DEF Answer, SessionTypes
<1>6. /\ calls' \in [Calls -> Call] /\ calls'[c] = r
      /\ \A d \in Calls : d # c => calls'[d] = calls[d]
  BY <1>4, <1>5, CallPut
<1>7. PaneCallsKept
  BY <1>4, <1>6 DEF PaneCallsKept
<1> QED
  BY <1>4, <1>6, <1>7

LEMMA LookKeeps ==
    ASSUME SessionInv, NEW c \in Calls, Look(c)
    PROVE  SessionInv'
<1>1. /\ SessionTypes /\ CursorsInRange /\ Pane /\ VaultShown /\ ProfilesKept
      /\ m' = m /\ unlocked' = unlocked /\ stored' = stored /\ troubles' = troubles
  BY DEF SessionInv, Look
<1>2. PICK ok \in BOOLEAN : (ok => calls[c].server # NoServer) /\ Answer(c, ok)
  BY DEF Look
<1>3. calls[c].kind \in {"connect", "list"}
  BY DEF Look, Asked
<1>4. m.modal # "quit"
  BY <1>3, NotLeft
<1>5. /\ calls' \in [Calls -> Call]
      /\ calls'[c].kind = calls[c].kind /\ calls'[c].server = calls[c].server
      /\ calls'[c].ok = ok /\ \A d \in Calls : d # c => calls'[d] = calls[d]
      /\ PaneCallsKept
  BY <1>1, <1>2, AnswerIs
<1>6. VaultCallsKept
  BY <1>3, <1>5 DEF VaultCallsKept, VaultKinds
<1>7. SessionTypes'
  <2>1. calls[c].server \in Servers \cup {NoServer}
    BY <1>1, Fields
  <2>2. /\ calls'[c].kind = "connect" => calls'[c].server \in Servers
        /\ calls'[c].kind = "list" /\ calls'[c].ok => calls'[c].server \in Servers
    BY <1>1, <1>2, <1>5, <2>1 DEF SessionTypes
  <2>3. m' \in Model /\ (m'.modal = "vault" => ~m'.vaultUnlocked)
    BY <1>1 DEF SessionTypes
  <2> QED
    BY <1>1, <1>4, <1>5, <2>2, <2>3, TypesFrame
<1>8. Pane' /\ VaultShown' /\ ProfilesKept'
  BY <1>1, <1>5, <1>6, PaneFrame, VaultFrame, ProfilesFrame
<1>9. CursorsInRange'
  BY <1>1 DEF CursorsInRange
<1> QED
  BY <1>7, <1>8, <1>9 DEF SessionInv

\* The answer of a call of the vault, which changes unlocked for its server only.
\* One that succeeds by itself with the client's own server makes the rest true
\* again, whatever was before.
LEMMA VaultAnswerKeeps ==
    ASSUME SessionInv, NEW c \in Calls, NEW ok \in BOOLEAN, Answer(c, ok),
           calls[c].kind \in VaultKinds, ~calls[c].answered,
           m' = m, stored' = stored, unlocked' \subseteq Servers,
           \A t : t \notin VaultTroubles => (t \in troubles => t \in troubles'),
           \/ troubles \cap VaultTroubles \subseteq troubles'
           \/ Alone(c) /\ (calls[c].kind = "unlock" => ok),
           troubles' \cap VaultTroubles = {} =>
             /\ calls[c].kind = "unlock" /\ ok => /\ calls[c].server # NoServer
                                                  /\ unlocked' = unlocked \cup {calls[c].server}
             /\ calls[c].kind = "unlock" /\ ~ok => unlocked' = unlocked
             /\ calls[c].kind = "lock" => unlocked' = unlocked \ {calls[c].server}
    PROVE  SessionInv'
<1>1. /\ SessionTypes /\ CursorsInRange /\ Pane /\ VaultShown /\ ProfilesKept /\ m.modal # "quit"
  BY NotLeft DEF SessionInv, VaultKinds
<1>2. /\ calls' \in [Calls -> Call]
      /\ calls'[c].kind = calls[c].kind /\ calls'[c].server = calls[c].server
      /\ calls'[c].answered /\ calls'[c].ok = ok
      /\ \A d \in Calls : d # c => calls'[d] = calls[d]
      /\ PaneCallsKept
  BY <1>1, AnswerIs
<1>3. SessionTypes'
  <2>1. \A d \in Calls :
          /\ calls'[d].kind = "connect" => calls'[d].server \in Servers
          /\ calls'[d].kind = "list" /\ calls'[d].ok => calls'[d].server \in Servers
    BY <1>1, <1>2 DEF SessionTypes, VaultKinds
  <2>2. "broken" \in troubles => "broken" \in troubles'
    BY DEF VaultTroubles
  <2> QED
    BY <1>1, <1>2, <2>1, <2>2 DEF SessionTypes
<1>4. Pane' /\ ProfilesKept'
  <2>1. \A t \in {"connect", "list", "stale", "broken"} : t \in troubles => t \in troubles'
    BY DEF VaultTroubles
  <2> QED
    BY <1>1, <1>2, <2>1, PaneFrame, ProfilesFrame
<1>5. CursorsInRange'
  BY <1>1 DEF CursorsInRange
<1>6. VaultShown'
  <2> SUFFICES ASSUME (troubles \cap VaultTroubles = {})' PROVE VaultShown'
    BY DEF VaultShown
  <2>1. \/ Alone(c) /\ (calls[c].kind = "unlock" => ok)
        \/ /\ AtMostOne(VaultKinds)
           /\ m.server = NoServer => unlocked = {}
           /\ VaultCall(c)
    BY <1>1 DEF VaultShown, VaultTroubles
  <2>2. \A d \in Calls : d # c => calls'[d].kind \notin VaultKinds
    BY <1>2, <2>1 DEF AtMostOne, Alone
  <2>3. AtMostOne(VaultKinds)' /\ ~NoneOf(VaultKinds)'
    BY <1>2, <2>2 DEF AtMostOne, NoneOf
  <2>4. \A d \in Calls : d # c => VaultCall(d)'
    BY <2>2 DEF VaultCall, VaultKinds
  <2>5. VaultCall(c)' /\ (m.server = NoServer => unlocked' = {})
    <3>1. CASE calls[c].kind = "unlock" /\ ok
      <4>1. calls[c].server = m.server /\ m.server # NoServer /\ m.server \in unlocked'
        BY <2>1, <3>1 DEF VaultCall, Alone, VaultTroubles
      <4> QED
        BY <1>2, <3>1, <4>1 DEF VaultCall
    <3>2. CASE calls[c].kind = "unlock" /\ ~ok
      <4>1. /\ unlocked' = unlocked /\ m.server \notin unlocked
            /\ calls[c].server \in {m.server, NoServer} /\ (m.server = NoServer => unlocked = {})
        BY <2>1, <3>2 DEF VaultCall, VaultTroubles
      <4> QED
        BY <1>2, <3>2, <4>1 DEF VaultCall
    <3>3. CASE calls[c].kind = "lock"
      <4>1. /\ unlocked' = unlocked \ {m.server} /\ m.server # NoServer
            /\ calls[c].server = m.server
        BY <2>1, <3>3 DEF VaultCall, Alone, VaultTroubles
      <4> QED
        BY <1>2, <3>3, <4>1 DEF VaultCall
    <3> QED
      BY <3>1, <3>2, <3>3 DEF VaultKinds
  <2> QED
    BY <2>3, <2>4, <2>5 DEF VaultShown
<1> QED
  BY <1>3, <1>4, <1>5, <1>6 DEF SessionInv

LEMMA AfterSuccessIs ==
    ASSUME SessionTypes, NEW c \in Calls, calls[c].kind \in VaultKinds,
           calls[c].server # NoServer, AfterSuccess(c)
    PROVE  /\ \A t : t \notin VaultTroubles => (t \in troubles => t \in troubles')
           /\ troubles \cap VaultTroubles \subseteq troubles' \/ Alone(c)
<1>1. CASE UnderWay("unlock") = {c} /\ calls[c].server = m.server
  <2>1. troubles' = troubles \ VaultTroubles
    BY <1>1 DEF AfterSuccess
  <2>2. ASSUME NEW d \in Calls, calls[d].kind \in VaultKinds PROVE d = c
    <3>1. d \in UnderWay("unlock")
      BY <2>2 DEF UnderWay, Class, VaultKinds
    <3> QED
      BY <1>1, <3>1
  <2> QED
    BY <1>1, <2>1, <2>2 DEF Alone
<1>2. CASE ~(UnderWay("unlock") = {c} /\ calls[c].server = m.server)
  BY <1>2 DEF AfterSuccess
<1> QED
  BY <1>1, <1>2

LEMMA VaultCallKeeps ==
    ASSUME SessionInv, NEW c \in Calls, Unlock(c) \/ Lock(c) \/ VaultCallFails(c)
    PROVE  SessionInv'
<1>1. /\ SessionTypes /\ unlocked \subseteq Servers
      /\ calls[c].server \in Servers \cup {NoServer}
  BY Fields DEF SessionInv, SessionTypes
<1>2. CASE /\ Asked(c, "unlock") /\ calls[c].server # NoServer /\ Answer(c, TRUE)
           /\ unlocked' = unlocked \cup {calls[c].server} /\ AfterSuccess(c)
           /\ UNCHANGED <<m, stored, pressed>>
  <2>1. calls[c].kind = "unlock" /\ ~calls[c].answered /\ calls[c].kind \in VaultKinds
    BY <1>2 DEF Asked, VaultKinds
  <2>2. PICK ok \in BOOLEAN : ok = TRUE
    OBVIOUS
  <2>3. Answer(c, ok) /\ unlocked' \subseteq Servers
    BY <1>1, <1>2, <2>2
  <2>4. /\ \A t : t \notin VaultTroubles => (t \in troubles => t \in troubles')
        /\ troubles \cap VaultTroubles \subseteq troubles' \/ Alone(c)
    BY <1>1, <1>2, <2>1, AfterSuccessIs
  <2> QED
    BY <1>2, <2>1, <2>2, <2>3, <2>4, VaultAnswerKeeps
<1>3. CASE /\ Asked(c, "unlock") /\ Answer(c, FALSE) /\ UNCHANGED <<unlocked, troubles>>
           /\ UNCHANGED <<m, stored, pressed>>
  <2>1. calls[c].kind = "unlock" /\ ~calls[c].answered /\ calls[c].kind \in VaultKinds
    BY <1>3 DEF Asked, VaultKinds
  <2>2. PICK ok \in BOOLEAN : ok = FALSE
    OBVIOUS
  <2>3. Answer(c, ok)
    BY <1>3, <2>2
  <2>4. /\ \A t : t \notin VaultTroubles => (t \in troubles => t \in troubles')
        /\ troubles \cap VaultTroubles \subseteq troubles'
    BY <1>3
  <2> QED
    BY <1>1, <1>3, <2>1, <2>2, <2>3, <2>4, VaultAnswerKeeps
<1>4. CASE Lock(c)
  <2>1. /\ calls[c].kind = "lock" /\ ~calls[c].answered /\ calls[c].kind \in VaultKinds
        /\ calls[c].server # NoServer /\ AfterSuccess(c) /\ m' = m /\ stored' = stored
        /\ unlocked' = unlocked \ {calls[c].server}
    BY <1>4 DEF Lock, Asked, VaultKinds
  <2>2. PICK ok \in BOOLEAN : ok = TRUE
    OBVIOUS
  <2>3. Answer(c, ok)
    BY <1>4, <2>2 DEF Lock
  <2>4. /\ \A t : t \notin VaultTroubles => (t \in troubles => t \in troubles')
        /\ troubles \cap VaultTroubles \subseteq troubles' \/ Alone(c)
    BY <1>1, <2>1, AfterSuccessIs
  <2> QED
    BY <1>1, <2>1, <2>2, <2>3, <2>4, VaultAnswerKeeps
<1>5. CASE VaultCallFails(c)
  <2>1. /\ calls[c].kind \in VaultKinds /\ ~calls[c].answered /\ m' = m /\ stored' = stored
        /\ troubles' = troubles \cup {"failed"}
    BY <1>5 DEF VaultCallFails, Asked, VaultKinds
  <2>2. PICK ok \in BOOLEAN : ok = FALSE
    OBVIOUS
  <2>3. Answer(c, ok)
    BY <1>5, <2>2 DEF VaultCallFails
  <2>4. unlocked' \subseteq Servers
    BY <1>1, <1>5 DEF VaultCallFails
  <2>5. /\ troubles' \cap VaultTroubles # {}
        /\ \A t : t \notin VaultTroubles => (t \in troubles => t \in troubles')
        /\ troubles \cap VaultTroubles \subseteq troubles'
    BY <2>1 DEF VaultTroubles
  <2> QED
    BY <2>1, <2>3, <2>4, <2>5, VaultAnswerKeeps
<1> QED
  BY <1>2, <1>3, <1>4, <1>5 DEF Unlock

\* Someone else changes a vault, and the client is not told.
LEMMA ServerStepKeeps ==
    ASSUME SessionInv, NEW s \in Servers, ServerStep(s)
    PROVE  SessionInv'
<1>1. /\ SessionTypes /\ CursorsInRange /\ Pane /\ ProfilesKept /\ unlocked \subseteq Servers
  BY DEF SessionInv, SessionTypes
<1>2. /\ unlocked' \subseteq Servers /\ troubles' = troubles \cup {"elsewhere"}
      /\ m' = m /\ calls' = calls /\ stored' = stored
  BY <1>1 DEF ServerStep, ServerRestarts, OtherUnlocks, OtherLocks, VaultBecomes
<1>3. SessionTypes'
  BY <1>1, <1>2 DEF SessionTypes
<1>4. Pane' /\ ProfilesKept'
  <2>1. PaneCallsKept
    BY <1>2 DEF PaneCallsKept
  <2> QED
    BY <1>1, <1>2, <2>1, PaneFrame, ProfilesFrame
<1>5. VaultShown'
  <2>1. "elsewhere" \in (troubles \cap VaultTroubles)'
    BY <1>2 DEF VaultTroubles
  <2> QED
    BY <2>1 DEF VaultShown
<1>6. CursorsInRange'
  BY <1>1, <1>2 DEF CursorsInRange
<1> QED
  BY <1>3, <1>4, <1>5, <1>6 DEF SessionInv

\* The message is taken off: its call is over.
LEMMA HandledIs ==
    ASSUME SessionTypes, NEW c \in Calls, Handled(c)
    PROVE  /\ calls' \in [Calls -> Call] /\ calls'[c].kind = "free" /\ ~calls'[c].ok
           /\ \A d \in Calls : d # c => calls'[d] = calls[d]
  BY CallPut, NoCallIs DEF Handled

LEMMA OnConnectedKeeps ==
    ASSUME SessionInv, NEW c \in Calls, OnConnected(c)
    PROVE  SessionInv'
<1>1. /\ SessionTypes /\ CursorsInRange /\ Pane /\ VaultShown /\ ProfilesKept
      /\ m \in Model /\ unlocked' = unlocked /\ stored' = stored
  BY DEF SessionInv, SessionTypes, OnConnected
<1>2. calls[c].kind = "connect" /\ m.modal # "quit"
  BY NotLeft DEF OnConnected, Answered
<1>3. PICK s \in Servers : s = calls[c].server
  BY <1>1, <1>2 DEF SessionTypes
<1>4. CASE ~calls[c].ok
  <2>1. PICK no \in BOOLEAN : no = FALSE
    OBVIOUS
  <2>2. m' = [m EXCEPT !.connected = no] /\ Handled(c) /\ troubles' = troubles
    BY <1>4, <2>1 DEF OnConnected
  <2>3. /\ m' \in Model /\ ~m'.connected /\ m'.path = m.path /\ m'.files = m.files
        /\ m'.cursor = m.cursor /\ m'.addr = m.addr /\ m'.server = m.server
        /\ m'.modal = m.modal /\ m'.vaultUnlocked = m.vaultUnlocked
        /\ m'.profiles = m.profiles /\ m'.profileCursor = m.profileCursor
    BY <1>1, <2>1, <2>2 DEF Model
  <2>4. /\ calls' \in [Calls -> Call] /\ calls'[c].kind = "free" /\ ~calls'[c].ok
        /\ \A d \in Calls : d # c => calls'[d] = calls[d]
    BY <1>1, <2>2, HandledIs
  <2>5. SessionTypes'
    <3>1. m'.modal = "vault" => ~m'.vaultUnlocked
      BY <1>1, <2>3 DEF SessionTypes
    <3> QED
      BY <1>1, <1>2, <2>2, <2>3, <2>4, <3>1, TypesFrame
  <2>6. Pane'
    BY <1>1, <2>2, <2>3, <2>4 DEF Pane, AtMostOne
  <2>7. VaultShown'
    <3>1. VaultCallsKept
      BY <1>2, <2>4 DEF VaultCallsKept, VaultKinds
    <3> QED
      BY <1>1, <2>2, <2>3, <3>1, VaultFrame
  <2>8. ProfilesKept' /\ CursorsInRange'
    BY <1>1, <2>2, <2>3, ProfilesFrame DEF CursorsInRange
  <2> QED
    BY <2>5, <2>6, <2>7, <2>8 DEF SessionInv
<1>5. CASE calls[c].ok
  <2>1. PICK yes \in BOOLEAN : yes = TRUE
    OBVIOUS
  <2>2. /\ m' = [m EXCEPT !.connected = yes, !.server = s]
        /\ calls' = [calls EXCEPT ![c] = Request("list", s, m.path)]
        /\ troubles' = troubles \cup Crossing("list")
             \cup (IF m.server \in {NoServer, s} THEN {} ELSE {"moved"})
    BY <1>3, <1>5, <2>1 DEF OnConnected
  <2>3. /\ m' \in Model /\ m'.connected /\ m'.path = m.path /\ m'.files = m.files
        /\ m'.cursor = m.cursor /\ m'.addr = m.addr /\ m'.server = s
        /\ m'.modal = m.modal /\ m'.vaultUnlocked = m.vaultUnlocked
        /\ m'.profiles = m.profiles /\ m'.profileCursor = m.profileCursor
    BY <1>1, <2>1, <2>2 DEF Model
  <2>4. PICK r \in Call : /\ r = Request("list", s, m.path) /\ r.kind = "list"
                          /\ r.server = s /\ r.path = m.path
    BY <1>1, Fields, RequestIs DEF Kinds
  <2>5. /\ calls' \in [Calls -> Call] /\ calls'[c] = r
        /\ \A d \in Calls : d # c => calls'[d] = calls[d]
    BY <1>1, <2>2, <2>4, CallPut
  <2>6. (Crossing("list") = {} /\ NoneOf({"list"})) \/ Crossing("list") = {"list"}
    BY <1>1, CrossingIs DEF Kinds
  <2>7. SessionTypes'
    <3>1. m'.modal = "vault" => ~m'.vaultUnlocked
      BY <1>1, <2>3 DEF SessionTypes
    <3>2. troubles \subseteq troubles'
      BY <2>2
    <3> QED
      BY <1>1, <1>2, <2>3, <2>4, <2>5, <3>1, <3>2, TypesFrame
  <2>8. Pane'
    <3> SUFFICES ASSUME (troubles \cap {"connect", "list"} = {})' PROVE Pane'
      BY DEF Pane
    <3>1. troubles \cap {"connect", "list"} = {} /\ NoneOf({"list"})
      BY <2>2, <2>6
    <3>2. AtMostOne({"connect"}) /\ s = m.addr
      BY <1>1, <1>2, <1>3, <3>1 DEF Pane
    <3>3. \A d \in Calls : d # c => calls'[d].kind \notin {"connect", "list"}
      BY <1>2, <2>5, <3>1, <3>2 DEF AtMostOne, NoneOf
    <3>4. AtMostOne({"connect"})' /\ AtMostOne({"list"})' /\ ~NoneOf({"list"})'
      BY <2>4, <2>5, <3>3 DEF AtMostOne, NoneOf
    <3> QED
      BY <2>3, <2>4, <2>5, <3>2, <3>3, <3>4 DEF Pane
  <2>9. VaultShown'
    <3> SUFFICES ASSUME (troubles \cap VaultTroubles = {})' PROVE VaultShown'
      BY DEF VaultShown
    <3>1. troubles \cap VaultTroubles = {} /\ m.server \in {NoServer, s}
      BY <2>2 DEF VaultTroubles
    <3>2. VaultCallsKept
      BY <1>2, <2>4, <2>5 DEF VaultCallsKept, VaultKinds
    <3>3. CASE m.server = s
      BY <1>1, <2>2, <2>3, <3>2, <3>3, VaultFrame
    <3>4. CASE m.server = NoServer
      <4>1. /\ AtMostOne(VaultKinds) /\ unlocked = {}
            /\ \A d \in Calls : VaultCall(d)
            /\ NoneOf(VaultKinds) => ~m.vaultUnlocked
        BY <1>1, <1>2, <3>1, <3>4 DEF VaultShown
      <4>2. \A d \in Calls : /\ calls'[d].kind \in VaultKinds <=> calls[d].kind \in VaultKinds
                             /\ calls'[d].kind \in VaultKinds => calls'[d] = calls[d]
        BY <3>2 DEF VaultCallsKept
      <4>3. AtMostOne(VaultKinds)' /\ (NoneOf(VaultKinds)' <=> NoneOf(VaultKinds))
        BY <4>1, <4>2 DEF AtMostOne, NoneOf
      <4>4. ASSUME NEW d \in Calls PROVE VaultCall(d)'
        <5>1. calls[d].kind # "lock"
          BY <3>4, <4>1 DEF VaultCall
        <5>2. CASE calls'[d].kind \notin VaultKinds
          BY <5>2 DEF VaultCall, VaultKinds
        <5>3. CASE calls'[d].kind \in VaultKinds
          <6>1. calls'[d] = calls[d] /\ calls[d].kind = "unlock"
            BY <4>2, <5>1, <5>3 DEF VaultKinds
          <6>2. /\ calls[d].server = NoServer
                /\ ~calls[d].answered => ~m.vaultUnlocked
                /\ calls[d].answered => ~calls[d].ok
            BY <3>4, <4>1, <6>1 DEF VaultCall
          <6> QED
            BY <1>1, <2>3, <4>1, <6>1, <6>2 DEF VaultCall
        <5> QED
          BY <5>2, <5>3
      <4> QED
        BY <1>1, <2>3, <4>1, <4>3, <4>4, SessionAssumption DEF VaultShown
    <3> QED
      BY <3>1, <3>3, <3>4
  <2>10. ProfilesKept'
    <3>1. troubles \subseteq troubles'
      BY <2>2
    <3> QED
      BY <1>1, <2>3, <3>1, ProfilesFrame
  <2>11. CursorsInRange'
    BY <1>1, <2>3 DEF CursorsInRange
  <2> QED
    BY <2>7, <2>8, <2>9, <2>10, <2>11 DEF SessionInv
<1> QED
  BY <1>4, <1>5

LEMMA OnFilesKeeps ==
    ASSUME SessionInv, NEW c \in Calls, OnFiles(c)
    PROVE  SessionInv'
<1>1. /\ SessionTypes /\ CursorsInRange /\ Pane /\ VaultShown /\ ProfilesKept
      /\ m \in Model /\ unlocked' = unlocked /\ stored' = stored /\ troubles' = troubles
  BY DEF SessionInv, SessionTypes, OnFiles
<1>2. calls[c].kind = "list" /\ m.modal # "quit"
  BY NotLeft DEF OnFiles, Answered
<1>3. PICK fs : fs = IF calls[c].ok THEN Items[calls[c].server][calls[c].path] ELSE NotConnected
  OBVIOUS
<1>4. fs \in Seq(Item) \cup {NotConnected}
  <2>1. CASE calls[c].ok
    <3>1. calls[c].server \in Servers /\ calls[c].path \in Paths
      BY <1>1, <1>2, <2>1, Fields DEF SessionTypes
    <3>2. Items[calls[c].server][calls[c].path] \in Seq(Item)
      BY <3>1, SessionAssumption
    <3> QED
      BY <1>3, <2>1, <3>2
  <2>2. CASE ~calls[c].ok
    BY <1>3, <2>2
  <2> QED
    BY <2>1, <2>2
<1>5. Len(fs) \in Nat
  BY <1>4, NotConnectedIs
<1>6. PICK k \in Nat : k = IF calls[c].ok /\ m.cursor >= Len(fs) THEN 0 ELSE m.cursor
  BY <1>1, Fields
<1>7. m' = [m EXCEPT !.files = fs, !.cursor = k]
  <2>1. CASE calls[c].ok
    BY <1>3, <1>6, <2>1 DEF OnFiles, Shown
  <2>2. CASE ~calls[c].ok
    <3>1. m' = [m EXCEPT !.files = fs]
      BY <1>3, <2>2 DEF OnFiles
    <3>2. k = m.cursor
      BY <1>6, <2>2
    <3> QED
      BY <1>1, <3>1, <3>2 DEF Model
  <2> QED
    BY <2>1, <2>2
<1>8. /\ m' \in Model /\ m'.connected = m.connected /\ m'.path = m.path /\ m'.files = fs
      /\ m'.cursor = k /\ m'.addr = m.addr /\ m'.server = m.server
      /\ m'.modal = m.modal /\ m'.vaultUnlocked = m.vaultUnlocked
      /\ m'.profiles = m.profiles /\ m'.profileCursor = m.profileCursor
  BY <1>1, <1>4, <1>7 DEF Model
<1>9. /\ calls' \in [Calls -> Call] /\ calls'[c].kind = "free" /\ ~calls'[c].ok
      /\ \A d \in Calls : d # c => calls'[d] = calls[d]
  BY <1>1, HandledIs DEF OnFiles
<1>10. SessionTypes'
  <2>1. m'.modal = "vault" => ~m'.vaultUnlocked
    BY <1>1, <1>8 DEF SessionTypes
  <2> QED
    BY <1>1, <1>2, <1>8, <1>9, <2>1, TypesFrame
<1>11. Pane'
  <2> SUFFICES ASSUME (troubles \cap {"connect", "list"} = {})' PROVE Pane'
    BY DEF Pane
  <2>1. /\ AtMostOne({"connect"}) /\ AtMostOne({"list"})
        /\ \A d \in Calls : calls[d].kind = "connect" => calls[d].server = m.addr
        /\ m.connected /\ NoneOf({"connect"}) =>
             m.server = m.addr /\ calls[c].server = m.server /\ calls[c].path = m.path
    BY <1>1, <1>2 DEF Pane
  <2>2. /\ AtMostOne({"connect"})' /\ AtMostOne({"list"})'
        /\ \A d \in Calls : calls'[d].kind # "list"
        /\ NoneOf({"connect"})' => NoneOf({"connect"})
    BY <1>2, <1>9, <2>1 DEF AtMostOne, NoneOf
  <2>3. \A d \in Calls : calls'[d].kind = "connect" => calls'[d].server = m'.addr
    BY <1>8, <1>9, <2>1
  <2>4. m.connected /\ NoneOf({"connect"}) => fs \in {Items[m.server][m.path], NotConnected}
    BY <1>3, <2>1
  <2> QED
    BY <1>8, <2>1, <2>2, <2>3, <2>4 DEF Pane
<1>12. VaultShown'
  <2>1. VaultCallsKept
    BY <1>2, <1>9 DEF VaultCallsKept, VaultKinds
  <2> QED
    BY <1>1, <1>8, <2>1, VaultFrame
<1>13. ProfilesKept'
  BY <1>1, <1>8, ProfilesFrame
<1>14. CursorsInRange'
  <2>1. fs # NotConnected => k = 0 \/ k < Len(fs)
    BY <1>1, <1>3, <1>5, <1>6, Fields
  <2> QED
    BY <1>1, <1>8, <2>1 DEF CursorsInRange
<1> QED
  BY <1>10, <1>11, <1>12, <1>13, <1>14 DEF SessionInv

\* The answer of Unlock or of Lock is shown.
LEMMA VaultShownKeeps ==
    ASSUME SessionInv, NEW c \in Calls, calls[c].kind \in VaultKinds, calls[c].answered,
           NEW shown \in BOOLEAN, shown <=> calls[c].kind = "unlock" /\ calls[c].ok,
           NEW modal \in Modals, m.modal = "quit" <=> modal = "quit",
           modal = "vault" => ~shown,
           m' = [m EXCEPT !.vaultUnlocked = shown, !.modal = modal], Handled(c),
           UNCHANGED <<unlocked, stored, troubles, pressed>>
    PROVE  SessionInv'
<1>1. /\ SessionTypes /\ CursorsInRange /\ Pane /\ VaultShown /\ ProfilesKept
      /\ m \in Model /\ unlocked' = unlocked /\ stored' = stored /\ troubles' = troubles
  BY DEF SessionInv, SessionTypes
<1>2. m.modal # "quit"
  BY NotLeft DEF VaultKinds
<1>3. /\ m' \in Model /\ m'.connected = m.connected /\ m'.path = m.path /\ m'.files = m.files
      /\ m'.cursor = m.cursor /\ m'.addr = m.addr /\ m'.server = m.server
      /\ m'.modal = modal /\ m'.vaultUnlocked = shown
      /\ m'.profiles = m.profiles /\ m'.profileCursor = m.profileCursor
  BY <1>1 DEF Model
<1>4. /\ calls' \in [Calls -> Call] /\ calls'[c].kind = "free" /\ ~calls'[c].ok
      /\ \A d \in Calls : d # c => calls'[d] = calls[d]
  BY <1>1, HandledIs
<1>5. SessionTypes'
  BY <1>1, <1>2, <1>3, <1>4, TypesFrame
<1>6. Pane'
  <2>1. PaneCallsKept
    BY <1>4 DEF PaneCallsKept, PaneKinds, VaultKinds
  <2> QED
    BY <1>1, <1>2, <1>3, <2>1, PaneFrame
<1>7. VaultShown'
  <2> SUFFICES ASSUME (troubles \cap VaultTroubles = {})' PROVE VaultShown'
    BY DEF VaultShown
  <2>1. /\ AtMostOne(VaultKinds)
        /\ m.server = NoServer => unlocked = {}
        /\ VaultCall(c)
    BY <1>1, <1>2 DEF VaultShown
  <2>2. \A d \in Calls : calls'[d].kind \notin VaultKinds
    BY <1>4, <2>1 DEF AtMostOne, VaultKinds
  <2>3. AtMostOne(VaultKinds)' /\ \A d \in Calls : VaultCall(d)'
    BY <2>2 DEF AtMostOne, VaultCall, VaultKinds
  <2>4. shown <=> m.server \in unlocked
    BY <2>1 DEF VaultCall, VaultKinds
  <2> QED
    BY <1>1, <1>3, <2>1, <2>3, <2>4 DEF VaultShown
<1>8. ProfilesKept'
  BY <1>1, <1>3, ProfilesFrame
<1>9. CursorsInRange'
  BY <1>1, <1>3 DEF CursorsInRange
<1> QED
  BY <1>5, <1>6, <1>7, <1>8, <1>9 DEF SessionInv

LEMMA OnVaultKeeps ==
    ASSUME SessionInv, NEW c \in Calls, OnUnlocked(c) \/ OnLocked(c)
    PROVE  SessionInv'
<1>1. SessionTypes /\ m \in Model
  BY DEF SessionInv, SessionTypes
<1>2. CASE OnUnlocked(c)
  <2>1. PICK shown \in BOOLEAN : shown = calls[c].ok
    BY <1>1, Fields
  <2>2. PICK modal \in Modals : modal = IF m.modal = "vault" THEN "none" ELSE m.modal
    BY <1>1, Fields DEF Modals
  <2>3. m' = [m EXCEPT !.vaultUnlocked = shown, !.modal = modal]
    BY <1>2, <2>1, <2>2 DEF OnUnlocked, UnlockResult
  <2>4. /\ calls[c].kind = "unlock" /\ calls[c].answered /\ Handled(c)
        /\ UNCHANGED <<unlocked, stored, troubles, pressed>>
    BY <1>2 DEF OnUnlocked, Answered
  <2>5. (m.modal = "quit" <=> modal = "quit") /\ modal # "vault"
    BY <2>2
  <2> QED
    BY <2>1, <2>3, <2>4, <2>5, VaultShownKeeps DEF VaultKinds
<1>3. CASE OnLocked(c)
  <2>1. PICK shown \in BOOLEAN : shown = FALSE
    OBVIOUS
  <2>2. PICK modal \in Modals : modal = m.modal
    BY <1>1, Fields
  <2>3. m' = [m EXCEPT !.vaultUnlocked = shown, !.modal = modal]
    <3>1. m' = [m EXCEPT !.vaultUnlocked = shown]
      BY <1>3, <2>1 DEF OnLocked
    <3> QED
      BY <1>1, <2>2, <3>1 DEF Model
  <2>4. /\ calls[c].kind = "lock" /\ calls[c].answered /\ Handled(c)
        /\ UNCHANGED <<unlocked, stored, troubles, pressed>>
    BY <1>3 DEF OnLocked, Answered
  <2> QED
    BY <2>1, <2>2, <2>3, <2>4, VaultShownKeeps DEF VaultKinds
<1> QED
  BY <1>2, <1>3

-----------------------------------------------------------------------------
(* The theorems                                                             *)

LEMMA InitHolds == SessionInit => SessionInv
<1> SUFFICES ASSUME SessionInit PROVE SessionInv
  OBVIOUS
<1>1. PICK c \in Calls : calls = [d \in Calls |->
                           IF d = c THEN Request("connect", Home, "/") ELSE NoCall]
  BY DEF SessionInit
<1>2. /\ m = InitialModel(Saved) /\ unlocked = {} /\ stored = Saved /\ troubles = {}
      /\ Saved \in Seq(Profile) /\ Saved # Broken
  BY SessionAssumption DEF SessionInit
<1>3. /\ m \in Model /\ m.files = <<>> /\ m.cursor = 0 /\ m.profileCursor = 0
      /\ m.modal = "none" /\ m.addr = Home /\ ~m.connected /\ m.server = NoServer
      /\ ~m.vaultUnlocked /\ m.profiles = Saved
  BY <1>2, InitialModelIs
<1>4. PICK r \in Call : /\ r = Request("connect", Home, "/") /\ r.kind = "connect"
                        /\ r.server = Home
  BY RequestIs, SessionAssumption DEF Kinds
<1>5. /\ calls \in [Calls -> Call] /\ calls[c].kind = "connect" /\ calls[c].server = Home
      /\ \A d \in Calls : d # c => calls[d].kind = "free"
  BY <1>1, <1>4, NoCallIs
<1>6. SessionTypes
  BY <1>2, <1>3, <1>5, SessionAssumption DEF SessionTypes
<1>7. Pane
  BY <1>3, <1>5 DEF Pane, AtMostOne, NoneOf
<1>8. VaultShown
  <2>1. \A d \in Calls : calls[d].kind \notin VaultKinds
    BY <1>5 DEF VaultKinds
  <2>2. \A d \in Calls : VaultCall(d)
    BY <2>1 DEF VaultCall, VaultKinds
  <2> QED
    BY <1>2, <1>3, <2>1, <2>2 DEF VaultShown, AtMostOne
<1>9. ProfilesKept /\ CursorsInRange
  BY <1>2, <1>3 DEF ProfilesKept, CursorsInRange
<1> QED
  BY <1>6, <1>7, <1>8, <1>9 DEF SessionInv

\* The inductive invariant of a session, through every key, answer and restart
\* of the client, every way a save may end, and whatever restarts of the servers
\* and other clients do to the vaults.
THEOREM SessionInvariant == SessionSpec => []SessionInv
<1>1. SessionInit => SessionInv
  BY InitHolds
<1>2. SessionInv /\ [SessionNext]_sessionVars => SessionInv'
  <2> SUFFICES ASSUME SessionInv, [SessionNext]_sessionVars PROVE SessionInv'
    OBVIOUS
  <2>1. CASE Key
    BY <2>1, MoveCursorKeeps, LeftKeeps, EnterKeeps, CloseModalKeeps, OpenModalKeeps,
       LockOrUnlockKeeps, MoveProfileKeeps, UseProfileKeeps, DeleteProfileKeeps,
       ReconnectKeeps, QuitKeeps DEF Key
  <2>2. CASE Restart
    BY <2>2, RestartKeeps
  <2>3. CASE \E c \in Calls : CallStep(c)
    BY <2>3, LookKeeps, VaultCallKeeps, OnConnectedKeeps, OnFilesKeeps, OnVaultKeeps
    DEF CallStep
  <2>4. CASE \E s \in Servers : ServerStep(s)
    BY <2>4, ServerStepKeeps
  <2>5. CASE UNCHANGED sessionVars
    BY <2>5 DEF sessionVars, SessionInv, SessionTypes, CursorsInRange, Pane, VaultShown,
       VaultCall, ProfilesKept, AtMostOne, NoneOf
  <2> QED
    BY <2>1, <2>2, <2>3, <2>4, <2>5 DEF SessionNext
<1> QED
  BY <1>1, <1>2, PTL DEF SessionSpec

\* The cursors of the remote pane and of the profiles are on an item, whichever
\* listing arrives and whatever is deleted under them.
THEOREM CursorsStayInRange == SessionSpec => []CursorsInRange
<1>1. SessionInv => CursorsInRange
  BY DEF SessionInv
<1> QED
  BY <1>1, SessionInvariant, PTL

\* The remote pane shows the directory it says, on the server whose address is
\* set, once every answer is in, if no two listings and no two dials crossed.
THEOREM PaneShowsTheDirectory == SessionSpec => []PaneIsCurrent
<1>1. SessionInv => PaneIsCurrent
  <2> SUFFICES ASSUME SessionInv, m.connected, m.modal # "quit",
                      UnderWay("connect") \cup UnderWay("list") = {},
                      troubles \cap {"connect", "list"} = {}
               PROVE  m.server = m.addr /\ m.files \in {Items[m.server][m.path], NotConnected}
    BY DEF PaneIsCurrent
  <2>1. calls \in [Calls -> Call] /\ Pane
    BY DEF SessionInv, SessionTypes
  <2>2. NoneOf({"connect"}) /\ NoneOf({"list"})
    BY <2>1, UnderWayIs
  <2> QED
    BY <2>1, <2>2 DEF Pane
<1> QED
  BY <1>1, SessionInvariant, PTL

\* F2 offers to unlock a vault that is locked and to lock one that is unlocked,
\* once the answers are in: from the start, and again from every Unlock or Lock
\* that succeeds by itself with the server the client is connected to, until two
\* calls cross, one fails, the client moves, or someone else changes the vault.
THEOREM VaultShownAsItIs == SessionSpec => []VaultIsAsShown
<1>1. SessionInv => VaultIsAsShown
  <2> SUFFICES ASSUME SessionInv, m.modal # "quit", UnderWay("unlock") = {},
                      troubles \cap VaultTroubles = {}
               PROVE  m.vaultUnlocked <=> m.server \in unlocked
    BY DEF VaultIsAsShown
  <2>1. calls \in [Calls -> Call] /\ VaultShown
    BY DEF SessionInv, SessionTypes
  <2>2. NoneOf(VaultKinds)
    BY <2>1, UnderWayIs
  <2> QED
    BY <2>1, <2>2 DEF VaultShown
<1> QED
  BY <1>1, SessionInvariant, PTL

\* The profiles on the screen are those on disk, over deletions and restarts,
\* unless the last save failed; then the file has them still, if it was not cut
\* short by the failure, and the next save that succeeds makes up for it.
THEOREM ProfilesAreKept == SessionSpec => []ProfilesKept
<1>1. SessionInv => ProfilesKept
  BY DEF SessionInv
<1> QED
  BY <1>1, SessionInvariant, PTL
=============================================================================
