-------------------------------- MODULE Wire --------------------------------
(***************************************************************************)
(* The encoding of PeerLinks values (lib/messages.js, generated from       *)
(* messages.proto) and the objects that the library hands to it and builds *)
(* from it.  Signatures and hashes cover encoded bytes, and a receiver     *)
(* does not keep the bytes it got: it decodes, rebuilds, and encodes again *)
(* before it verifies, hashes, stores or passes on.  So encoding must be   *)
(* stable over any number of hops.                                         *)
(*                                                                         *)
(* An object is a function from the names of its own properties to the     *)
(* sequence of their values (one value if the field is not repeated); a    *)
(* value has a leaf or is an object itself.  The leaf Blank is what a      *)
(* default is: zero, false, the empty string, no bytes.  Bytes are a       *)
(* sequence of fields with their number; an embedded message is a sequence *)
(* within it, which stands for its length prefix.                          *)
(***************************************************************************)
EXTENDS Naturals, Sequences, SequencesExt

CONSTANTS
  MaxHops,     \* bound: how often a value is passed on
  MaxList      \* bound: elements of a repeated field

ASSUME WireAssumption == MaxHops \in Nat /\ MaxList \in Nat

VARIABLES
  kind,        \* the message type on its way
  sent,        \* the object given to encode()
  bytes,       \* what encode() returned
  got,         \* the object decode() returned
  signed,      \* history: what the signatures cover, at their makers
  pc,          \* "ready", "wire" or "read"
  hops,        \* how often the value was passed on
  extended     \* a field this version does not know was added

vars == <<kind, sent, bytes, got, signed, pc, hops, extended>>

-----------------------------------------------------------------------------
(***************************************************************************)
(* The message types: in this order encode() writes the fields an object   *)
(* has, and under these numbers decode() reads them back into a new        *)
(* message, whose repeated fields the constructor made empty lists.        *)
(***************************************************************************)

One(no, name)        == [no |-> no, name |-> name, type |-> "leaf", rule |-> "optional"]
Many(no, name)       == [no |-> no, name |-> name, type |-> "leaf", rule |-> "repeated"]
Sub(no, name, type)  == [no |-> no, name |-> name, type |-> type, rule |-> "optional"]
Subs(no, name, type) == [no |-> no, name |-> name, type |-> type, rule |-> "repeated"]

Choice(fields, names) == [fields |-> fields, oneof |-> names]
Codec(fields)         == Choice(fields, {})

Hello           == Codec(<<One(1, "version"), One(2, "peerId")>>)
Shake           == Codec(<<One(1, "isDuplicate")>>)
Link            == Codec(<<Sub(1, "tbs", "LinkTBS"), One(2, "signature")>>)

LinkTBS         == Codec(<<One(1, "trusteePubKey"), One(2, "trusteeDisplayName"),
                           One(3, "validFrom"), One(4, "validTo"), One(5, "channelId")>>)
Invite          == Codec(<<One(1, "channelPubKey"), One(2, "channelName"),
                           Subs(3, "chain", "Link")>>)
EncryptedInvite == Codec(<<One(1, "requestId"), One(2, "box")>>)
InviteRequest   == Codec(<<One(1, "peerId"), One(2, "trusteePubKey"), One(3, "boxPubKey")>>)
ChannelMessage  == Codec(<<Sub(1, "tbs", "MessageTBS"), One(2, "signature")>>)
Root            == Codec(<< >>)
Body            == Choice(<<Sub(1, "root", "Root"), One(2, "json")>>, {"root", "json"})
MessageTBS      == Codec(<<Many(1, "parents"), One(2, "height"), Subs(3, "chain", "Link"),
                           One(4, "timestamp"), Sub(5, "body", "Body")>>)
Query           == Choice(<<One(1, "height"), One(2, "hash"), One(3, "isBackward"),
                            One(4, "limit")>>, {"height", "hash"})
QueryResponse   == Codec(<<Subs(1, "abbreviatedMessages", "Abbreviated"),
                           One(2, "forwardHash"), One(3, "backwardHash")>>)
Abbreviated     == Codec(<<Many(1, "parents"), One(2, "hash")>>)
Bulk            == Codec(<<Many(1, "hashes")>>)
BulkResponse    == Codec(<<Subs(1, "messages", "ChannelMessage"), One(2, "forwardIndex")>>)
SyncRequest     == Codec(<<One(1, "channelId"), One(2, "seq"), One(3, "nonce"), One(4, "box")>>)
RequestTBS      == Choice(<<Subs(1, "chain", "Link"), Sub(2, "query", "Query"),
                            Sub(3, "bulk", "Bulk"), One(4, "responsePubKey")>>,
                          {"query", "bulk"})
RequestContent  == Codec(<<Sub(1, "tbs", "RequestTBS"), One(2, "signature")>>)
SyncResponse    == Codec(<<One(1, "channelId"), One(2, "seq"), One(3, "box")>>)
ResponseContent == Choice(<<Sub(1, "queryResponse", "QueryResponse"),
                            Sub(2, "bulkResponse", "BulkResponse")>>,
                          {"queryResponse", "bulkResponse"})
Error           == Codec(<<One(1, "reason")>>)
Notification    == Codec(<<One(1, "channelId")>>)
Ping            == Codec(<<One(1, "seq")>>)
Pong            == Codec(<<One(1, "seq")>>)
Packet          == Choice(<<Sub(1, "error", "Error"), Sub(2, "invite", "EncryptedInvite"),
                            Sub(3, "syncRequest", "SyncRequest"),
                            Sub(4, "syncResponse", "SyncResponse"),
                            Sub(5, "notification", "Notification"),
                            Sub(6, "ping", "Ping"), Sub(7, "pong", "Pong")>>,
                          {"error", "invite", "syncRequest", "syncResponse",
                           "notification", "ping", "pong"})
Identity        == Codec(<<One(1, "name"), One(2, "publicKey"), One(3, "secretKey"),
                           Subs(4, "channelChains", "ChannelChain"), One(5, "metadata")>>)
ChannelChain    == Codec(<<One(1, "channelId"), Subs(2, "links", "Link")>>)
Channel         == Codec(<<One(1, "publicKey"), One(2, "name"), One(3, "isFeed"),
                           One(4, "metadata")>>)

Schema ==
  [Hello |-> Hello, Shake |-> Shake, Link |-> Link, LinkTBS |-> LinkTBS, Invite |-> Invite,
   EncryptedInvite |-> EncryptedInvite, InviteRequest |-> InviteRequest,
   ChannelMessage |-> ChannelMessage, Root |-> Root, Body |-> Body,
   MessageTBS |-> MessageTBS, Query |-> Query, QueryResponse |-> QueryResponse,
   Abbreviated |-> Abbreviated, Bulk |-> Bulk, BulkResponse |-> BulkResponse,
   SyncRequest |-> SyncRequest, RequestTBS |-> RequestTBS,
   RequestContent |-> RequestContent, SyncResponse |-> SyncResponse,
   ResponseContent |-> ResponseContent, Error |-> Error, Notification |-> Notification,
   Ping |-> Ping, Pong |-> Pong, Packet |-> Packet, Identity |-> Identity,
   ChannelChain |-> ChannelChain, Channel |-> Channel]

Fields(type)   == Schema[type].fields
FieldsOf(type) == Range(Fields(type))
Names(type)    == {f.name : f \in FieldsOf(type)}
FieldNamed(type, name) == CHOOSE f \in FieldsOf(type) : f.name = name
Repeated(f)    == f.rule = "repeated"
Embedded(f)    == f.type # "leaf"

-----------------------------------------------------------------------------
(***************************************************************************)
(* encode, decode and reading a decoded message.  Each is defined for one  *)
(* level, given what it does to the messages embedded in it, and then for  *)
(* the six levels a value has at most: a response, the bulk response in    *)
(* it, a message, its signed part, a link and the signed part of that.     *)
(***************************************************************************)

Blank == ""                       \* zero, false, the empty string, no bytes
None  == [name \in {} |-> << >>]  \* an object without properties
Leaf(s)   == <<[leaf |-> s, obj |-> None]>>
Object(o) == <<[leaf |-> Blank, obj |-> o]>>

\* A field is written iff the object has it itself, also when it holds the
\* default; a repeated field once for each element.
Written(Nested(_, _), f, obj) ==
  IF f.name \notin DOMAIN obj THEN << >>
  ELSE [k \in DOMAIN obj[f.name] |->
          [no |-> f.no, leaf |-> obj[f.name][k].leaf,
           sub |-> IF Embedded(f) THEN Nested(f.type, obj[f.name][k].obj) ELSE << >>]]
EncodeBy(Nested(_, _), type, obj) ==
  FlattenSeq([i \in DOMAIN Fields(type) |-> Written(Nested, Fields(type)[i], obj)])

Encode0(type, obj) == << >>
Encode1(type, obj) == EncodeBy(Encode0, type, obj)
Encode2(type, obj) == EncodeBy(Encode1, type, obj)
Encode3(type, obj) == EncodeBy(Encode2, type, obj)
Encode4(type, obj) == EncodeBy(Encode3, type, obj)
Encode5(type, obj) == EncodeBy(Encode4, type, obj)
Encode(type, obj)  == EncodeBy(Encode5, type, obj)

\* The fields of the input under the number of f, in their order: the case of f in
\* the switch over the numbers.
Under(f, input) ==
  FlattenSeq([i \in DOMAIN input |-> IF input[i].no = f.no THEN <<input[i]>> ELSE << >>])

\* Mutant: a repeated field is assigned, not appended.
AssignOver(f, values) == IF values = << >> THEN values ELSE <<values[Len(values)]>>

\* Mutant: a plain field that did not come is set to its default.
AssignDefault(f, values) ==
  IF Repeated(f) THEN values
  ELSE IF values = << >> /\ ~Embedded(f) THEN <<[no |-> f.no, leaf |-> Blank, sub |-> << >>]>>
  ELSE IF values = << >> THEN << >> ELSE <<values[Len(values)]>>

\* A repeated field is appended to, one that is not repeated is assigned.
Assign(f, values) ==
  IF Repeated(f) \/ values = << >> THEN values ELSE <<values[Len(values)]>>

\* A field with another number is skipped.  The constructor makes the repeated fields
\* empty lists; any other field is there only if it came.
DecodeBy(Nested(_, _), type, input) ==
  LET Came(f) == Assign(f, Under(f, input))
      has == {f \in FieldsOf(type) : Repeated(f) \/ Came(f) # << >>}
      Value(f, t) == [leaf |-> t.leaf,
                      obj |-> IF Embedded(f) THEN Nested(f.type, t.sub) ELSE None]
      Values(f) == [k \in DOMAIN Came(f) |-> Value(f, Came(f)[k])]
  IN  [name \in {f.name : f \in has} |-> Values(FieldNamed(type, name))]

Decode0(type, input) == None
Decode1(type, input) == DecodeBy(Decode0, type, input)
Decode2(type, input) == DecodeBy(Decode1, type, input)
Decode3(type, input) == DecodeBy(Decode2, type, input)
Decode4(type, input) == DecodeBy(Decode3, type, input)
Decode5(type, input) == DecodeBy(Decode4, type, input)

\* Mutant: a field with an unknown number is kept.
DecodeUnknown(type, input) ==
  LET unknown == {i \in DOMAIN input : \A f \in FieldsOf(type) : f.no # input[i].no}
  IN  DecodeBy(Decode5, type, input) @@ [name \in {"unknown" : i \in unknown} |-> << >>]

Decode(type, input) == DecodeBy(Decode5, type, input)

\* Reading a property falls back to the default in the prototype: a leaf for a
\* plain field, nothing (null) for an embedded message.
Default(f) == IF Repeated(f) \/ Embedded(f) THEN << >> ELSE Leaf(Blank)
Get(type, obj, name) ==
  IF name \in DOMAIN obj THEN obj[name] ELSE Default(FieldNamed(type, name))

\* The getter of a oneof names the member the object has itself.
Which(type, obj) == Schema[type].oneof \cap DOMAIN obj

\* What the program can read of an object, all levels.
ReadsBy(Nested(_, _), type, obj) ==
  LET Seen(f) == LET list == Get(type, obj, f.name)
                 IN  [k \in DOMAIN list |->
                        IF Embedded(f) THEN [leaf |-> Blank, in |-> <<Nested(f.type, list[k].obj)>>]
                        ELSE [leaf |-> list[k].leaf, in |-> << >>]]
  IN  [which |-> Which(type, obj),
       fields |-> [i \in DOMAIN Fields(type) |-> Seen(Fields(type)[i])]]

Reads0(type, obj) == << >>
Reads1(type, obj) == ReadsBy(Reads0, type, obj)
Reads2(type, obj) == ReadsBy(Reads1, type, obj)
Reads3(type, obj) == ReadsBy(Reads2, type, obj)
Reads4(type, obj) == ReadsBy(Reads3, type, obj)
Reads5(type, obj) == ReadsBy(Reads4, type, obj)
Reads(type, obj)  == ReadsBy(Reads5, type, obj)

-----------------------------------------------------------------------------
(***************************************************************************)
(* What is signed and hashed                                               *)
(***************************************************************************)

Elements(list) == {list[k].obj : k \in DOMAIN list}

\* All fields of an object, read one by one, and the signed part of one.
All(type, obj) == [name \in Names(type) |-> Get(type, obj, name)]
Tbs(type, obj) == Get(type, obj, "tbs")[1].obj

\* Link.tbs(): the fields of the link and the id of the channel, which does not
\* travel with it.
LinkSigned(link) == [All("LinkTBS", Tbs("Link", link)) EXCEPT !.channelId = Leaf("channel")]

\* Link.deserialize() and serialize(): the four fields again, and the signature.
LinkAgain(link) ==
  [tbs |-> Object([name \in Names("LinkTBS") \ {"channelId"} |-> LinkSigned(link)[name]]),
   signature |-> Get("Link", link, "signature")]

Again(Op(_), list) == [k \in DOMAIN list |-> Object(Op(list[k].obj))[1]]

\* Message.deserialize() and serializeTBS(): every field is set again; the body
\* is the decoded one.
MessageSigned(message) ==
  [All("MessageTBS", Tbs("ChannelMessage", message)) EXCEPT !.chain = Again(LinkAgain, @)]

\* Mutant: a message is rebuilt without its timestamp; the constructor then takes
\* the present time.
MessageAgainUntimed(message) ==
  [tbs |-> Object([MessageSigned(message) EXCEPT !.timestamp = Leaf("now")]),
   signature |-> Get("ChannelMessage", message, "signature")]

MessageAgain(message) ==
  [tbs |-> Object(MessageSigned(message)),
   signature |-> Get("ChannelMessage", message, "signature")]

Signature(type, obj) == Get(type, obj, "signature")[1].leaf

MessagesIn(type, obj) ==
  CASE type = "ChannelMessage" -> {obj}
    [] type = "ResponseContent" /\ "bulkResponse" \in DOMAIN obj ->
         Elements(Get("BulkResponse", obj["bulkResponse"][1].obj, "messages"))
    [] OTHER -> {}

ChainsIn(type, obj) ==
  CASE type = "Invite"         -> {Get("Invite", obj, "chain")}
    [] type = "RequestContent" -> {Get("RequestTBS", Tbs(type, obj), "chain")}
    [] type = "Identity"       ->
         {Get("ChannelChain", c, "links") : c \in Elements(Get("Identity", obj, "channelChains"))}
    [] OTHER -> {}

LinkParts(list) == {<<Signature("Link", l), "LinkTBS", LinkSigned(l)>> : l \in Elements(list)}
MessageParts(m) ==
  LinkParts(MessageSigned(m).chain)
    \cup {<<Signature("ChannelMessage", m), "MessageTBS", MessageSigned(m)>>,
          <<"hash", "ChannelMessage", MessageAgain(m)>>}

\* The pairs of a signature and the bytes it covers, as the code computes them from
\* this object; for a message also its hash, which identifies it everywhere.  The
\* receiver of a request encodes the decoded tbs as it is (getSyncRequestKey).
Marks(parts) == {<<p[1], Encode(p[2], p[3])>> : p \in parts}
LinksOf(type, obj)    == UNION {LinkParts(c) : c \in ChainsIn(type, obj)}
MessagesOf(type, obj) == UNION {MessageParts(m) : m \in MessagesIn(type, obj)}
RequestOf(type, obj)  ==
  {<<Signature(t, obj), "RequestTBS", Tbs(t, obj)>> : t \in {type} \cap {"RequestContent"}}
Covered(type, obj) == Marks(LinksOf(type, obj) \cup MessagesOf(type, obj) \cup RequestOf(type, obj))

-----------------------------------------------------------------------------
(***************************************************************************)
(* The objects the library encodes, as it builds them                      *)
(***************************************************************************)

Lists(values) == UNION {[1..n -> values] : n \in 0..MaxList}
LeafValues(s) == {Leaf(x)[1] : x \in s}
ObjectValues(s) == {Object(x)[1] : x \in s}

\* Link.serialize(); the times are never zero.
LinkOut(names) ==
  {[tbs |-> Object([trusteePubKey |-> Leaf(n), trusteeDisplayName |-> Leaf("name"),
                    validFrom |-> Leaf("from"), validTo |-> Leaf("to")]),
    signature |-> Leaf("on link to " \o n)] : n \in names}

Chains == Lists(ObjectValues(LinkOut({"a", "b"})))

HelloOut == {[version |-> Leaf("1"), peerId |-> Leaf("id")]}
ShakeOut == {[isDuplicate |-> Leaf(d)] : d \in {Blank, "true"}}

\* Message.serialize() of the root and of messages with a parent.
RootTBS == [parents |-> << >>, height |-> Leaf(Blank), chain |-> << >>,
            timestamp |-> Leaf("time"), body |-> Object([root |-> Object(None)])]
TextTBS(parents, chain) ==
  [parents |-> parents, height |-> Leaf("1"), chain |-> chain, timestamp |-> Leaf("time"),
   body |-> Object([json |-> Leaf("text")])]
MessageWith(tbs) == [tbs |-> Object(tbs), signature |-> Leaf("on message")]
MessageOut ==
  {MessageWith(RootTBS)} \cup
  {MessageWith(TextTBS(ps, c)) : ps \in Lists(LeafValues({"h1", "h2"})) \ {<< >>}, c \in Chains}

\* SyncAgent.query(), bulk() and sendAndWait().  The channel id and the number they
\* put into the query are not in its schema; a feed sends no chain.
QueryOut ==
  {[channelId |-> Leaf("channel"), seq |-> Leaf(Blank), height |-> Leaf(h),
    isBackward |-> Leaf(Blank), limit |-> Leaf("1024")] : h \in {Blank, "1"}} \cup
  {[channelId |-> Leaf("channel"), seq |-> Leaf(Blank), hash |-> Leaf("h1"),
    isBackward |-> Leaf(back), limit |-> Leaf("1024")] : back \in {Blank, "true"}}
BulkOut == {[channelId |-> Leaf("channel"), seq |-> Leaf("1"), hashes |-> hs] :
              hs \in Lists(LeafValues({"h1", "h2"})) \ {<< >>}}
QueryAsked(q) == [responsePubKey |-> Leaf("box key"), query |-> Object(q)]
BulkAsked(b)  == [responsePubKey |-> Leaf("box key"), bulk |-> Object(b)]
Asked == {QueryAsked(q) : q \in QueryOut} \cup {BulkAsked(b) : b \in BulkOut}
RequestWith(tbs) == [tbs |-> Object(tbs), signature |-> Leaf("on request")]
Chained(a, c) == [name \in DOMAIN a \cup {"chain"} |-> IF name = "chain" THEN c ELSE a[name]]
RequestOut(chains) == {RequestWith(Chained(a, c)) : a \in Asked, c \in chains}
FeedRequestOut == {RequestWith(a) : a \in Asked}

\* SyncAgent.receiveQuery() and receiveBulk(); a hash that is null is not written.
AbbreviatedOut == {[hash |-> Leaf("h1"), parents |-> ps] : ps \in Lists(LeafValues({"h2"}))}
QueryResponseOut ==
  UNION {{[abbreviatedMessages |-> l],
          [abbreviatedMessages |-> l, forwardHash |-> Leaf("h3")],
          [abbreviatedMessages |-> l, backwardHash |-> Leaf("h4")]} :
           l \in Lists(ObjectValues(AbbreviatedOut))}
BulkResponseOut(list) ==
  [bulkResponse |-> Object([channelId |-> << >>, messages |-> list, forwardIndex |-> Leaf("1")])]
ResponseOut ==
  {[queryResponse |-> Object(q)] : q \in QueryResponseOut} \cup
  {BulkResponseOut(list) : list \in {<< >>} \cup {Object(m) : m \in MessageOut}}

\* Everything Peer sends after the handshake.
PacketOut ==
  {[error |-> Object([reason |-> Leaf("why")])],
   [invite |-> Object([requestId |-> Leaf("id"), box |-> Leaf("box")])],
   [notification |-> Object([channelId |-> Leaf("channel")])]}
  \cup UNION {{[ping |-> Object([seq |-> Leaf(s)])], [pong |-> Object([seq |-> Leaf(s)])],
               [syncRequest |-> Object([channelId |-> Leaf("channel"), seq |-> Leaf(s),
                                        nonce |-> Leaf("nonce"), box |-> Leaf("box")])],
               [syncResponse |-> Object([channelId |-> Leaf("channel"), seq |-> Leaf(s)])],
               [syncResponse |-> Object([channelId |-> Leaf("channel"), seq |-> Leaf(s),
                                         box |-> Leaf("box")])]} : s \in {Blank, "1"}}

InviteOut == {[channelPubKey |-> Leaf("key"), channelName |-> Leaf("name"), chain |-> c] :
                c \in Chains \ {<< >>}}
InviteRequestOut == {[peerId |-> Leaf("id"), trusteePubKey |-> Leaf("a"), boxPubKey |-> Leaf("box")]}

\* Identity.serialize() and Channel.serialize(); a root chain is an empty list.
IdentityWith(chains, metadata) ==
  [name |-> Leaf("name"), publicKey |-> Leaf("a"), secretKey |-> Leaf("secret"),
   channelChains |-> chains, metadata |-> Leaf(metadata)]
ChannelChainOut == {[channelId |-> Leaf("channel"), links |-> c] : c \in Chains}
OwnChannel == Object([channelId |-> Leaf("own channel"), links |-> << >>])[1]
IdentityOut ==
  {IdentityWith(cs, m) :
     cs \in {<< >>} \cup UNION {{<<c>>, <<OwnChannel, c>>} : c \in ObjectValues(ChannelChainOut)},
     m \in {Blank, "json"}}
ChannelOut == {[publicKey |-> Leaf("key"), name |-> Leaf("name"), isFeed |-> Leaf(f),
                metadata |-> Leaf(m)] : f \in {Blank, "true"}, m \in {Blank, "json"}}

Out(type) ==
  CASE type = "Hello"           -> HelloOut
    [] type = "Shake"           -> ShakeOut
    [] type = "Packet"          -> PacketOut
    [] type = "RequestContent"  -> RequestOut(Chains) \cup FeedRequestOut
    [] type = "ResponseContent" -> ResponseOut
    [] type = "ChannelMessage"  -> MessageOut
    [] type = "Invite"          -> InviteOut
    [] type = "InviteRequest"   -> InviteRequestOut
    [] type = "Identity"        -> IdentityOut
    [] type = "Channel"         -> ChannelOut

Kinds == {"Hello", "Shake", "Packet", "RequestContent", "ResponseContent", "ChannelMessage",
          "Invite", "InviteRequest", "Identity", "Channel"}

\* deserialize() and serialize() of a stored identity or channel.
ChainAgain(c) == [All("ChannelChain", c) EXCEPT !.links = Again(LinkAgain, @)]
IdentityAgain(id) == [All("Identity", id) EXCEPT !.channelChains = Again(ChainAgain, @)]
ChannelAgain(c) == All("Channel", c)

\* What the receiver of a value makes of it and encodes next: a message is stored
\* and handed out again, an invite becomes a chain of the identity, a stored
\* identity signs requests with its chains.
Onward(type, obj) ==
  CASE type = "ChannelMessage"  ->
         {<<"ResponseContent", BulkResponseOut(Object(MessageAgain(obj)))>>}
    [] type = "ResponseContent" ->
         {<<"ChannelMessage", MessageAgain(m)>> : m \in MessagesIn(type, obj)}
    [] type = "Invite"          ->
         {<<"Identity",
            IdentityWith(Object([channelId |-> Leaf("channel"),
                                 links |-> Again(LinkAgain, Get("Invite", obj, "chain"))]), Blank)>>}
    [] type = "Identity"        ->
         {<<"Identity", IdentityAgain(obj)>>} \cup
         UNION {{<<"RequestContent", r>> : r \in RequestOut({Get("ChannelChain", c, "links")})} :
                  c \in Elements(IdentityAgain(obj).channelChains)}
    [] type = "Channel"         -> {<<"Channel", ChannelAgain(obj)>>}
    [] OTHER -> {}

-----------------------------------------------------------------------------
(***************************************************************************)
(* A value on its way                                                      *)
(***************************************************************************)

Init ==
  /\ kind \in Kinds
  /\ sent \in Out(kind)
  /\ signed = Covered(kind, sent)
  /\ bytes = << >> /\ got = None
  /\ pc = "ready" /\ hops = 0 /\ extended = FALSE

Send ==
  /\ pc = "ready"
  /\ bytes' = Encode(kind, sent)
  /\ pc' = "wire"
  /\ UNCHANGED <<kind, sent, got, signed, hops, extended>>

Later == [no |-> 15, leaf |-> "later", sub |-> << >>]

\* A peer of a later version adds a field: what the default branch of every
\* decode() is for.
Extend ==
  /\ pc = "wire" /\ ~extended
  /\ \E i \in 1..Len(bytes) + 1 : bytes' = InsertAt(bytes, i, Later)
  /\ extended' = TRUE
  /\ UNCHANGED <<kind, sent, got, signed, pc, hops>>

Receive ==
  /\ pc = "wire"
  /\ got' = Decode(kind, bytes)
  /\ pc' = "read"
  /\ UNCHANGED <<kind, sent, bytes, signed, hops, extended>>

PassOn ==
  /\ pc = "read" /\ hops < MaxHops
  /\ \E next \in Onward(kind, got) :
       /\ kind' = next[1]
       /\ sent' = next[2]
       /\ signed' = signed \cup {p \in Covered(next[1], next[2]) : p[1] = "on request"}
  /\ bytes' = << >> /\ got' = None
  /\ pc' = "ready" /\ hops' = hops + 1 /\ extended' = FALSE

Next == Send \/ Extend \/ Receive \/ PassOn

Spec == Init /\ [][Next]_vars

-----------------------------------------------------------------------------
(***************************************************************************)
(* Properties                                                              *)
(***************************************************************************)

\* A value is of a type the library sends or stores, and its parts belong to it.
TypeOK ==
  /\ kind \in Kinds
  /\ pc \in {"ready", "wire", "read"} /\ hops \in 0..MaxHops /\ extended \in BOOLEAN
  /\ DOMAIN got \subseteq Names(kind)
  /\ \A i \in DOMAIN bytes : DOMAIN bytes[i] = {"no", "leaf", "sub"}

\* The receiver reads what the sender wrote, in every field of every level: defaults
\* that were written or left out, empty lists, the empty root body, and which member of
\* a oneof is set, on which Peer.loop() and onSyncRequest() branch; also next to a field
\* it does not know.
Faithful == pc = "read" => Reads(kind, got) = Reads(kind, sent)

\* Encoding what was decoded gives the bytes that came: getSyncRequestKey() verifies
\* a signature over the re-encoded request, and the hash of a message is that of its
\* re-encoding (message.js:46-47).
BytesStable == (pc = "read" /\ ~extended) => Encode(kind, got) = bytes

\* However often messages are stored and handed on, and wherever links travel - in an
\* invite, a stored identity, a message, a request - their signatures cover the bytes their
\* makers signed, and a message keeps its hash.
SignaturesSurvive == pc = "read" => Covered(kind, got) \subseteq signed

=============================================================================
