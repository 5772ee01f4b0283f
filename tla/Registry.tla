------------------------------- MODULE Registry -------------------------------
(***************************************************************************)
(* The channels and identities of a Protocol, in memory and in the         *)
(* storage: addChannel, removeChannel, addIdentity, removeIdentity,        *)
(* saveChannel, saveIdentity, createIdentityPair, channelFromInvite,       *)
(* feedFromPublicKey and load of lib/protocol.js, with what they call of   *)
(* lib/protocol/channel.js and identity.js, and the entities of            *)
(* lib/storage/memory.js.                                                  *)
(*                                                                         *)
(* Every operation of the storage is asynchronous; operations take effect  *)
(* in the order in which they are called.  A step is what a call does      *)
(* between two awaits: the effect of the operation it awaits, and the code *)
(* up to the next one.  The process may stop at any moment; then load()    *)
(* runs on what the storage holds.                                         *)
(***************************************************************************)
EXTENDS Naturals, Sequences, SequencesExt

CONSTANTS
  Own,          \* the keys that this process may generate, for an identity and its channel
  Foreign,      \* keys of channels of others
  OwnName,      \* names that the user gives to identities, ordered like strings
  ForeignName,  \* names that channels of others come with
  Slots,        \* bound on the concurrent calls of the API
  MaxCalls,     \* bound on all calls
  MaxCrashes,   \* bound on the crashes
  None          \* JavaScript's undefined

Key == Own \cup Foreign
Name == OwnName \cup ForeignName

ASSUME RegistryAssumption ==
  /\ Own \cap Foreign = {} /\ IsFiniteSet(Own) /\ Name \subseteq Nat
  /\ None \notin Name \cup Key \cup [name : Name, chains : SUBSET Key]
  /\ {Slots, MaxCalls, MaxCrashes} \subseteq Nat

VARIABLES
  up,           \* the protocol is loaded
  channels,     \* channels[k]: name of the channel with key k in Protocol.channels, or None
  identities,   \* Protocol.identities: their keys, sorted by name
  idName,       \* idName[i]: name of the Identity object with key i, or None
  chains,       \* chains[i]: channels that Identity i has a chain for
  call,         \* the calls in progress
  queue,        \* calls that await the storage, in the order of their operations
  chanDisk,     \* chanDisk[k]: stored name of channel k, or None
  idDisk,       \* idDisk[i]: stored identity, or None
  messages,     \* messages[k]: stored messages of channel k
  used,         \* keys generated
  calls,        \* number of calls so far
  crashes,      \* number of crashes so far
  gone,         \* history: identities that were removed
  usedGone,     \* history: identities used after they were removed
  excused,      \* history: channels a call about which failed or did not end
  overlapped    \* history: channels whose removal overlapped with a call that concerns them

memory == <<channels, identities, idName, chains, call, queue>>
disk == <<chanDisk, idDisk, messages>>
history == <<gone, usedGone, excused, overlapped>>
counters == <<calls, crashes>>
vars == <<up, memory, disk, used, counters, history>>

-----------------------------------------------------------------------------
Slot == 1..Slots
Listed == ToSet(identities)

\* What a call awaits the storage to do; a read changes nothing.
Op(do, key, data) == [do |-> do, key |-> key, data |-> data]
Read == Op("read", None, None)
StoreChannel(k, name) == Op("storeChannel", k, name)

\* Mutant: the identity is serialized before it changes.
StoreBefore(i, ch) == Op("storeIdentity", i, [name |-> idName[i], chains |-> chains[i]])

StoreIdentity(i, ch) == Op("storeIdentity", i, [name |-> idName[i], chains |-> ch])

\* MemoryStorage.storeEntity(), removeEntity(), addMessage() and removeChannelMessages().
Apply(w) ==
  /\ chanDisk' = CASE w.do = "storeChannel" -> [chanDisk EXCEPT ![w.key] = w.data]
                   [] w.do = "eraseChannel" -> [chanDisk EXCEPT ![w.key] = None]
                   [] OTHER -> chanDisk
  /\ idDisk' = CASE w.do = "storeIdentity" -> [idDisk EXCEPT ![w.key] = w.data]
                 [] w.do = "eraseIdentity" -> [idDisk EXCEPT ![w.key] = None]
                 [] OTHER -> idDisk
  /\ messages' = CASE w.do = "addMessage" -> [messages EXCEPT ![w.key] = @ \cup {w.data}]
                   [] w.do = "removeMessages" -> [messages EXCEPT ![w.key] = {}]
                   [] OTHER -> messages

\* A call: its operation, the channel and the identity it is about, the name it gives, how
\* far it is and what it awaits.
Call(op, key, id, name) ==
  [op |-> op, key |-> key, id |-> id, name |-> name, step |-> "begun", at |-> 1, awaits |-> Read]
Idle == Call("idle", None, None, None)

\* A removal of a channel does not go well with another call about the channel, nor with
\* the removal of an identity.
Clash(c, d) == IF c.op = "removeChannel" /\ (d.op = "removeIdentity" \/ d.key = c.key) THEN {c.key} ELSE {}

Overlap(c) ==
  overlapped' = overlapped \cup UNION {Clash(c, call[t]) \cup Clash(call[t], c) : t \in ToSet(queue)}

\* Call s begins, and awaits w.
Begin(s, c, w) ==
  /\ up = "yes" /\ call[s] = Idle /\ \A t \in Slot : call[t] = Idle => s <= t
  /\ call' = [call EXCEPT ![s] = [c EXCEPT !.awaits = w]]
  /\ queue' = Append(queue, s)
  /\ Overlap(c)
  /\ calls < MaxCalls /\ calls' = calls + 1
  /\ gone' = IF c.op = "removeIdentity" THEN gone \cup {c.id} ELSE gone
  /\ UNCHANGED <<up, disk, crashes, usedGone, excused>>

\* What call s, being at the given step, awaits takes effect.
Resume(s, op, step) ==
  /\ queue # << >> /\ s = Head(queue) /\ call[s].op = op /\ call[s].step = step
  /\ Apply(call[s].awaits)
  /\ UNCHANGED <<up, idName, used, counters, gone, usedGone, overlapped>>

Await(s, step, w) ==
  /\ call' = [call EXCEPT ![s].step = step, ![s].awaits = w]
  /\ queue' = Append(Tail(queue), s)

Return(s) ==
  /\ call' = [call EXCEPT ![s] = Idle]
  /\ queue' = Tail(queue)

\* A call that throws leaves behind what it did so far.
Throw(s) == Return(s) /\ excused' = excused \cup {call[s].key}

Init ==
  /\ up = "yes" /\ channels = [k \in Key |-> None] /\ identities = << >>
  /\ idName = [i \in Own |-> None] /\ chains = [i \in Own |-> {}]
  /\ call = [s \in Slot |-> Idle] /\ queue = << >>
  /\ chanDisk = [k \in Key |-> None] /\ idDisk = [i \in Own |-> None]
  /\ messages = [k \in Key |-> {}]
  /\ used = {} /\ calls = 0 /\ crashes = 0
  /\ gone = {} /\ usedGone = {} /\ excused = {} /\ overlapped = {}

-----------------------------------------------------------------------------
(* addChannel() and addIdentity() *)

\* Mutant: only the key counts.
AnyName(k, name) == channels[k] # None

Refused(k, name) == \E j \in Key \ {k} : channels[j] = name

\* The rest of a call that adds its channel: an equal one is kept, unless the name belongs
\* to another channel.  The list is sorted by name, which nobody relies upon.
AddChannel(s, k, name) ==
  IF Refused(k, name) THEN Throw(s) /\ UNCHANGED channels
  ELSE IF channels[k] # None THEN Return(s) /\ UNCHANGED <<channels, excused>>
  ELSE /\ channels' = [channels EXCEPT ![k] = name]
       /\ Await(s, "saved", StoreChannel(k, name))
       /\ UNCHANGED excused

\* Mutant: not sorted.
PushOnly(i) == Append(identities, i)

\* Array.prototype.push() and sort(), which is stable.
Insert(i) ==
  LET before == {n \in DOMAIN identities : idName[identities[n]] <= idName[i]}
  IN  InsertAt(identities, IF before = {} THEN 1 ELSE 1 + CHOOSE n \in before : \A m \in before : m <= n, i)

(* createIdentityPair() *)

\* Until the first await: a new identity, with the empty chain of an owner, and a root
\* which Channel.fromIdentity() receives.
Create(s, i, name) ==
  /\ i \notin used /\ used' = used \cup {i}
  /\ idName' = [idName EXCEPT ![i] = name]
  /\ chains' = [chains EXCEPT ![i] = {i}]
  /\ Begin(s, Call("create", i, i, name), Op("addMessage", i, "root"))
  /\ UNCHANGED <<channels, identities>>

CreateChannel(s) ==
  /\ Resume(s, "create", "begun")
  /\ AddChannel(s, call[s].key, call[s].name)
  /\ UNCHANGED <<identities, chains>>

\* addIdentity().
CreateIdentity(s) ==
  /\ Resume(s, "create", "saved")
  /\ IF \E i \in Listed : idName[i] = call[s].name
     THEN Throw(s) /\ UNCHANGED identities
     ELSE /\ identities' = Insert(call[s].id)
          /\ Await(s, "done", StoreIdentity(call[s].id, chains[call[s].id]))
          /\ UNCHANGED excused
  /\ UNCHANGED <<channels, chains>>

-----------------------------------------------------------------------------
(* channelFromInvite() and feedFromPublicKey() *)

\* requestInvite() of the chat: an identity of ours waits for an invite.
Request(s, k, i, name) ==
  /\ up = "yes" /\ call[s] = Idle /\ \A t \in Slot : call[t] = Idle => s <= t
  /\ i \in Listed
  /\ call' = [call EXCEPT ![s] = [Call("join", k, i, name) EXCEPT !.step = "invited"]]
  /\ calls < MaxCalls /\ calls' = calls + 1
  /\ UNCHANGED <<up, channels, identities, idName, chains, queue, disk, used, crashes, history>>

\* The invite is there: its chain is added to the identity, which may be removed by now.
Invited(s) ==
  /\ call[s].step = "invited"
  /\ LET i == call[s].id
         ch == chains[i] \cup {call[s].key}
     IN  /\ chains' = [chains EXCEPT ![i] = ch]
         /\ call' = [call EXCEPT ![s].step = "begun", ![s].awaits = StoreIdentity(i, ch)]
         /\ usedGone' = IF i \in Listed THEN usedGone ELSE usedGone \cup {i}
  /\ queue' = Append(queue, s)
  /\ Overlap(call[s])
  /\ UNCHANGED <<up, channels, identities, idName, disk, used, counters, gone, excused>>

Join(s) ==
  /\ Resume(s, "join", "begun")
  /\ AddChannel(s, call[s].key, call[s].name)
  /\ UNCHANGED <<identities, chains>>

\* feedFromPublicKey() saves a channel that is new and whose name is free.
Feed(s, k, name) ==
  /\ channels[k] = None /\ ~Refused(k, name)
  /\ channels' = [channels EXCEPT ![k] = name]
  /\ Begin(s, Call("feed", k, None, name), StoreChannel(k, name))
  /\ UNCHANGED <<identities, idName, chains, used>>

\* The last operation of any of these calls.
Saved(s) ==
  /\ \/ Resume(s, "join", "saved") \/ Resume(s, "feed", "begun")
     \/ Resume(s, "create", "done") \/ Resume(s, "receive", "done")
     \/ Resume(s, "removeIdentity", "begun")
  /\ Return(s)
  /\ UNCHANGED <<channels, identities, chains, excused>>

-----------------------------------------------------------------------------
(* removeChannel() and removeIdentity() *)

\* Mutant: the messages go first.
MessagesFirst(k) == <<Op("removeMessages", k, None), Op("eraseChannel", k, None)>>

\* Mutant: the messages stay.
EntityOnly(k) == <<Op("eraseChannel", k, None), Read>>

Removals(k) == <<Op("eraseChannel", k, None), Op("removeMessages", k, None)>>

RemoveChannel(s, k) ==
  /\ channels[k] # None
  /\ channels' = [channels EXCEPT ![k] = None]
  /\ Begin(s, Call("removeChannel", k, None, None), Removals(k)[1])
  /\ UNCHANGED <<identities, idName, chains, used>>

ForgetMessages(s) ==
  /\ Resume(s, "removeChannel", "begun")
  /\ Await(s, "cleanup", Removals(call[s].key)[2])
  /\ UNCHANGED <<channels, identities, chains, excused>>

\* Mutant: all chains go.
DropAll(i, k) == {}

\* Identity.removeChain().
RemoveChain(i, k) == chains[i] \ {k}

\* The loop over the identities, from position call[s].at of the list as it is now: the next
\* one that has a chain for the channel loses it, and is saved.
Cleanup(s) ==
  /\ Resume(s, "removeChannel", "cleanup")
  /\ LET k == call[s].key
         left == {n \in DOMAIN identities : n >= call[s].at /\ k \in chains[identities[n]]}
     IN  IF left = {} THEN Return(s) /\ UNCHANGED chains
         ELSE LET n == CHOOSE n \in left : \A m \in left : n <= m
                  i == identities[n]
              IN  /\ chains' = [chains EXCEPT ![i] = RemoveChain(i, k)]
                  /\ call' = [call EXCEPT ![s].at = n + 1, ![s].awaits = StoreIdentity(i, chains'[i])]
                  /\ queue' = Append(Tail(queue), s)
  /\ UNCHANGED <<channels, identities, excused>>

RemoveIdentity(s, i) ==
  /\ i \in Listed
  /\ identities' = RemoveAt(identities, CHOOSE n \in DOMAIN identities : identities[n] = i)
  /\ Begin(s, Call("removeIdentity", None, i, None), Op("eraseIdentity", i, None))
  /\ UNCHANGED <<channels, idName, chains, used>>

-----------------------------------------------------------------------------
(* Messages of a remote *)

\* Mutant: parents are not looked for.
AnyParents(k, m) == m \in {"root", "next"}

ParentsStored(k, m) == m = "root" \/ "root" \in messages[k]

\* Channel.receive(): the parent of the message is there; after some more reads the message
\* is added, to the messages of the channel's key.
Receive(s, k, m) ==
  /\ channels[k] # None /\ m \notin messages[k] /\ ParentsStored(k, m)
  /\ Begin(s, Call("receive", k, None, m), Read)
  /\ UNCHANGED <<channels, identities, idName, chains, used>>

ReadMore(s) ==
  /\ Resume(s, "receive", "begun")
  /\ Await(s, "begun", Read)
  /\ UNCHANGED <<channels, identities, chains, excused>>

AddMessage(s) ==
  /\ Resume(s, "receive", "begun")
  /\ Await(s, "done", Op("addMessage", call[s].key, call[s].name))
  /\ UNCHANGED <<channels, identities, chains, excused>>

-----------------------------------------------------------------------------
(* The process stops, and load() *)

Crash ==
  /\ up = "yes" /\ crashes < MaxCrashes
  /\ crashes' = crashes + 1
  /\ up' = "no"
  /\ channels' = [k \in Key |-> None] /\ identities' = << >>
  /\ idName' = [i \in Own |-> None] /\ chains' = [i \in Own |-> {}]
  /\ excused' = excused \cup ({call[s].key : s \in ToSet(queue)} \ {None})
  /\ call' = [s \in Slot |-> Idle] /\ queue' = << >>
  /\ UNCHANGED <<disk, used, calls, gone, usedGone, overlapped>>

SameName == \E j, k \in Key : j # k /\ chanDisk[j] # None /\ chanDisk[j] = chanDisk[k]

\* Identities are not compared; their list is sorted.
Load ==
  /\ up = "no"
  /\ IF SameName
     THEN up' = "failed" /\ UNCHANGED <<channels, identities, idName, chains>>
     ELSE /\ up' = "yes" /\ channels' = chanDisk
          /\ idName' = [i \in Own |-> IF idDisk[i] = None THEN None ELSE idDisk[i].name]
          /\ chains' = [i \in Own |-> IF idDisk[i] = None THEN {} ELSE idDisk[i].chains]
          /\ identities' \in {t \in SetToSeqs({i \in Own : idDisk[i] # None}) :
               \A m, n \in DOMAIN t : m < n => idName'[t[m]] <= idName'[t[n]]}
  /\ UNCHANGED <<call, queue, disk, used, counters, history>>

User(s) ==
  \/ \E i \in Own, name \in OwnName : Create(s, i, name)
  \/ \E k \in Foreign, i \in Own, name \in ForeignName : Request(s, k, i, name)
  \/ \E k \in Foreign, name \in ForeignName : Feed(s, k, name)
  \/ \E k \in Key : RemoveChannel(s, k)
  \/ \E i \in Own : RemoveIdentity(s, i)
  \/ \E k \in Foreign, m \in {"root", "next"} : Receive(s, k, m)

Step(s) ==
  \/ CreateChannel(s) \/ CreateIdentity(s) \/ Invited(s) \/ Join(s) \/ Saved(s)
  \/ ForgetMessages(s) \/ Cleanup(s) \/ ReadMore(s) \/ AddMessage(s)

Next == Crash \/ Load \/ \E s \in Slot : User(s) \/ Step(s)

Spec == Init /\ [][Next]_vars

-----------------------------------------------------------------------------
(* Properties *)

TypeOK ==
  /\ up \in {"yes", "no", "failed"}
  /\ {channels, chanDisk} \subseteq [Key -> Name \cup {None}]
  /\ Listed \subseteq used /\ IsInjective(identities)
  /\ \A m, n \in DOMAIN identities : m < n => idName[identities[m]] <= idName[identities[n]]
  /\ \A i \in Own : chains[i] \subseteq Key /\ (idName[i] = None => chains[i] = {})
  /\ \A s \in Slot : call[s].op = "idle" <=> call[s] = Idle
  /\ ToSet(queue) = {s \in Slot : call[s] # Idle /\ call[s].step # "invited"}
  /\ messages \in [Key -> SUBSET {"root", "next"}]

\* Whenever the process stops, load() accepts what it left in the storage.
Restartable == ~SameName /\ up # "failed"

\* No two channels have one name, and no two identities, with which getChannel() and
\* getIdentity() look them up; unless an identity was used after it was removed.
NamesUnique ==
  /\ \A j, k \in Key : j # k /\ channels[j] # None => channels[j] # channels[k]
  /\ usedGone = {} => \A i, j \in Listed : idName[i] = idName[j] => i = j

Quiet == up = "yes" /\ queue = << >>

\* With no call in progress, the storage holds what the memory does. A removed identity
\* that waited for an invite is stored again.
DiskAgrees ==
  Quiet => /\ chanDisk = channels
           /\ \A i \in Own : idDisk[i] # None /\ i \notin Listed => i \in usedGone
           /\ \A i \in Listed : idDisk[i] = [name |-> idName[i], chains |-> chains[i]]

\* A channel made here has the identity that can post to it, or the identity was removed,
\* or createIdentityPair() did not end: it is left with a channel to which nobody can post.
OrphansExplained ==
  Quiet => \A k \in Own : channels[k] # None =>
    (k \in Listed /\ k \in chains[k]) \/ k \in gone \cup excused

\* Messages and chains of a channel that does not exist are left by calls that did not end,
\* or by calls that ran at the same time as the removal of the channel.
LeftoversExplained ==
  Quiet => \A k \in Key : channels[k] = None /\
    (messages[k] # {} \/ \E i \in Listed \ usedGone : k \in chains[i]) => k \in excused \cup overlapped

\* The parents of a stored message are stored, in particular after a channel was removed
\* and joined again; unless messages were being received during the removal.
StoreClosed ==
  Quiet => \A k \in Key : channels[k] # None /\ "next" \in messages[k] =>
    "root" \in messages[k] \/ k \in overlapped
===============================================================================
