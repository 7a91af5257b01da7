------------------------------ MODULE Channels ------------------------------
(***************************************************************************)
(* Messages that arrive over Discord, Telegram, WhatsApp and e-mail, and   *)
(* their answers: the flow of BaseChannel (backend/channels/base.py) with  *)
(* the four adapters, the identity records, the framework's commands, the  *)
(* attachment pipeline and the bridge to a skill.                          *)
(*                                                                         *)
(* A provider delivers a message again while no delivery of it has been    *)
(* answered with 200, so two deliveries of a message may run at once, on   *)
(* any instance of the service; each read or write of Firestore is a step. *)
(* Signatures are abstracted: a message says whether its is good.          *)
(*                                                                         *)
(* A text is a sequence of positive numbers, 0 standing for a space, so    *)
(* that what a chat shows can be compared with what was to be said.        *)
(***************************************************************************)
EXTENDS Naturals, Sequences, FiniteSets, SequencesExt

CONSTANTS
    Users,         \* the senders, each a user of one channel
    ChannelOf,     \* the channel of a sender
    Skills,        \* what a command may name
    Catalogue,     \* the skills that exist
    Keyed,         \* the channels whose keys are configured
    Files,         \* what a message may carry
    Messages,      \* the messages sent
    Posts,         \* what they may be, together
    Texts,         \* what a skill or a command may answer
    MaxLength,     \* the longest message a chat takes
    MaxDeliveries, \* bound on the deliveries of a message
    MaxActive,     \* bound on the deliveries under way at once
    None

Channels == {"discord", "telegram", "whatsapp", "email"}

\* InboundMessage as the adapters build it.  cmd is what the text is: no text,
\* plain text, or a command; subject is the skill an e-mail's subject names;
\* malformed are the entries of files that lack an address or a name.
PostType ==
    [user : Users, cmd : {"none", "ask", "help", "skill"},
     arg : Skills \union {None}, subject : Skills \union {None},
     files : SUBSET Files, malformed : SUBSET Files, signed : BOOLEAN, listed : BOOLEAN, gateway : BOOLEAN]

ASSUME ChannelsAssumption ==
    /\ ChannelOf \in [Users -> Channels]
    /\ Catalogue \subseteq Skills /\ Keyed \subseteq Channels
    /\ Posts \subseteq [Messages -> PostType]
    /\ Texts \subseteq Seq(Nat) /\ <<>> \notin Texts
    /\ {MaxLength, MaxDeliveries} \subseteq Nat \ {0} /\ MaxActive \in Nat
    /\ None \notin Users \union Skills \union Files

Requests == Messages \X (1 .. MaxDeliveries)

VARIABLES
    post,      \* what is sent in this behaviour
    identity,  \* channel_identities: the uid of a sender; a uid is written as
               \* the sender it is derived from, channel-{channel}_{user}
    settings,  \* user_settings: the default skill of a uid
    blobs,     \* the attachments in the bucket
    records,   \* the documents registered for them
    req,       \* the deliveries
    \* Histories, read by properties only:
    contested, \* the choices of a skill that ran beside another of their user
    settled    \* a user's last choice of a skill, answered and not contested

choices == <<contested, settled>>
vars == <<post, identity, settings, blobs, records, req, choices>>

\* up is the attachment that is stored and not yet registered, bad those that
\* were given up, rest the chunks still to be sent.  Histories: said is what the
\* delivery put in the chat, lost whether a call to the provider failed.
Request ==
    [at : {"off", "resolve", "unknown", "route", "files", "send", "ok", "died"},
     carries : SUBSET Files, uid : Users \union {None}, todo : SUBSET Files, up : Files \union {None},
     bad : SUBSET Files, docs : SUBSET Files, skill : Skills \union {None},
     text : Texts \union {<<>>}, rest : Seq(Seq(Nat)),
     said : Seq(Seq(Nat)), lost : BOOLEAN]

Idle == [at |-> "off", carries |-> {}, uid |-> None, todo |-> {}, up |-> None, bad |-> {},
         docs |-> {}, skill |-> None, text |-> <<>>, rest |-> <<>>,
         said |-> <<>>, lost |-> FALSE]

Of(r) == post[r[1]]
ChannelFor(r) == ChannelOf[Of(r).user]
Active(r) == req[r].at \notin {"off", "ok", "died"}
Acknowledged(m) == \E n \in 1 .. MaxDeliveries : req[<<m, n>>].at = "ok"
Deliveries(m) == Cardinality({n \in 1 .. MaxDeliveries : req[<<m, n>>].at # "off"})

-----------------------------------------------------------------------------
(* What a message is to its channel, and how a reply is cut.               *)

\* A channel is mounted when its key is configured, and refuses a call whose
\* signature is wrong; the gateway checks its own events.
DiscordVerifies(m) == post[m].gateway \/ post[m].signed
TelegramVerifies(m) == post[m].signed
WhatsAppVerifies(m) == post[m].signed
EmailVerifies(m) == post[m].signed

Verified(m) ==
    LET channel == ChannelOf[post[m].user]
    IN  /\ channel \in Keyed
        /\ \/ channel = "discord" /\ DiscordVerifies(m)
           \/ channel = "telegram" /\ TelegramVerifies(m)
           \/ channel = "whatsapp" /\ WhatsAppVerifies(m)
           \/ channel = "email" /\ EmailVerifies(m)

\* The attachments an adapter may find: Telegram asks for each file's address,
\* which may fail; WhatsApp's and e-mail's adapters skip a malformed entry;
\* Discord's takes none.
TelegramFiles(m) == SUBSET post[m].files
WhatsAppFiles(m) == {post[m].files \ post[m].malformed}
EmailFiles(m) == {post[m].files \ post[m].malformed}
FilesFound(m) ==
    CASE ChannelOf[post[m].user] = "discord" -> {{}}
      [] ChannelOf[post[m].user] = "telegram" -> TelegramFiles(m)
      [] ChannelOf[post[m].user] = "whatsapp" -> WhatsAppFiles(m)
      [] ChannelOf[post[m].user] = "email" -> EmailFiles(m)

\* parse_inbound: None for an event that is not a message.  Discord takes a
\* known slash command and any mention, the others want a text or a file.
DiscordParses(m) == post[m].gateway \/ post[m].cmd # "none"
TelegramParses(m, files) == post[m].cmd # "none" \/ files # {}
WhatsAppParses(m, files) == post[m].cmd # "none" \/ files # {}
EmailParses(m, files) == post[m].cmd # "none" \/ files # {}
Actionable(m, files) ==
    CASE ChannelOf[post[m].user] = "discord" -> DiscordParses(m)
      [] ChannelOf[post[m].user] = "telegram" -> TelegramParses(m, files)
      [] ChannelOf[post[m].user] = "whatsapp" -> WhatsAppParses(m, files)
      [] ChannelOf[post[m].user] = "email" -> EmailParses(m, files)

\* CommandParser.parse: the prefix of e-mail is "[", which only names a skill.
Commands(channel) == IF channel = "email" THEN {"skill"} ELSE {"skill", "help"}
IsCommand(m) == post[m].cmd \in Commands(ChannelOf[post[m].user])

\* Mutant of LastSpace: the search reaches one place too far.
LastSpaceFar(text, i) ==
    LET found == {j \in i + 1 .. i + MaxLength + 1 : j <= Len(text) /\ text[j] = 0}
    IN  IF found = {} THEN 0 ELSE CHOOSE j \in found : \A k \in found : k <= j

\* The rightmost space a chunk that begins at i may end before, 0 for none.
LastSpace(text, i) ==
    LET found == {j \in i + 1 .. i + MaxLength : j <= Len(text) /\ text[j] = 0}
    IN  IF found = {} THEN 0 ELSE CHOOSE j \in found : \A k \in found : k <= j

\* The first place from i on that is not a space.
SkipSpaces(text, i) ==
    CHOOSE j \in i .. Len(text) + 1 :
       /\ j = Len(text) + 1 \/ text[j] # 0
       /\ \A k \in i .. j - 1 : text[k] = 0

\* Where the chunk that begins at i ends, and where the one after it begins.
ChunkEnd(text, i) == LET space == LastSpace(text, i) IN IF space = 0 THEN i + MaxLength - 1 ELSE space - 1
NextChunk(text, i) ==
    LET space == LastSpace(text, i) IN SkipSpaces(text, IF space = 0 THEN i + MaxLength ELSE space + 1)

\* chunk_message: pieces of at most MaxLength, cut at spaces where there are.
ChunksFrom(text) ==
    LET From[i \in 1 .. Len(text) + 1] ==
           IF i > Len(text) THEN <<>>
           ELSE IF Len(text) - i + 1 <= MaxLength THEN <<SubSeq(text, i, Len(text))>>
           ELSE <<SubSeq(text, i, ChunkEnd(text, i))>> \o From[NextChunk(text, i)]
    IN  From
Chunks(text) == IF \A i \in DOMAIN text : text[i] = 0 THEN <<>> ELSE ChunksFrom(text)[1]

\* An e-mail goes out whole.
Pieces(channel, text) == IF channel = "email" THEN <<text>> ELSE Chunks(text)

\* _resolve_skill_by_name_or_id
Resolved(name) == IF name \in Catalogue THEN name ELSE None

\* select_skill: an e-mail's subject comes before the user's default; None
\* stands for the general assistant.
Selected(r) ==
    LET named == IF ChannelFor(r) = "email" /\ Of(r).subject # None
                 THEN Resolved(Of(r).subject) ELSE None
    IN  IF named # None THEN named ELSE settings[req[r].uid]

-----------------------------------------------------------------------------
(* One delivery, step by step.                                             *)

Choosing(r) == Active(r) /\ Of(r).cmd = "skill" /\ IsCommand(r[1])

\* A webhook call or a gateway event; a gateway event comes once.
Deliver(m) ==
    /\ ~Acknowledged(m)
    /\ Cardinality({r \in Requests : Active(r)}) < MaxActive
    /\ Deliveries(m) < IF post[m].gateway THEN 1 ELSE MaxDeliveries
    /\ LET r == <<m, Deliveries(m) + 1>>
           others == {o \in Requests : Choosing(o) /\ Of(o).user = post[m].user}
           chooses == Verified(m) /\ post[m].cmd = "skill" /\ IsCommand(m)
       IN  /\ \E files \in FilesFound(m) :
                 req' = [req EXCEPT ![r].carries = files,
                            ![r].at = CASE ~Verified(m) -> "died"
                                        [] Verified(m) /\ Actionable(m, files) -> "resolve"
                                        [] OTHER -> "ok"]
           /\ settled' = IF chooses THEN [settled EXCEPT ![post[m].user] = None]
                         ELSE settled
           /\ contested' = IF chooses /\ others # {}
                           THEN contested \union others \union {r} ELSE contested
    /\ UNCHANGED <<post, identity, settings, blobs, records>>

\* IdentityResolver.resolve
Resolve(r) ==
    /\ req[r].at = "resolve"
    /\ LET uid == identity[Of(r).user]
       IN  req' = [req EXCEPT ![r].uid = uid,
                              ![r].at = IF uid = None THEN "unknown" ELSE "route"]
    /\ UNCHANGED <<post, identity, settings, blobs, records, choices>>

\* Mutant of AutoUid: a new uid on every call, as uuid4 would give.
AutoUidFresh(user, uid) == uid \in Users

\* The uid that auto_create gives a sender.
AutoUid(user, uid) == uid = user

\* on_unknown_user: auto_create overwrites the record, whatever it has become
\* since it was looked up.
Admit(r) ==
    /\ req[r].at = "unknown"
    /\ ChannelFor(r) = "discord" => Of(r).listed
    /\ \E uid \in Users :
          /\ AutoUid(Of(r).user, uid)
          /\ identity' = [identity EXCEPT ![Of(r).user] = uid]
          /\ req' = [req EXCEPT ![r].uid = uid, ![r].at = "route"]
    /\ UNCHANGED <<post, settings, blobs, records, choices>>

\* A sender the guild does not list, or one outside any guild.
Reject(r) ==
    /\ req[r].at = "unknown"
    /\ ChannelFor(r) = "discord" /\ ~Of(r).listed
    /\ req' = [req EXCEPT ![r].at = "ok"]
    /\ UNCHANGED <<post, identity, settings, blobs, records, choices>>

\* The migration script gives senders of the earlier system their record.
Migrate(user) ==
    /\ ChannelOf[user] \in {"whatsapp", "telegram"} /\ identity[user] = None
    /\ identity' = [identity EXCEPT ![user] = user]
    /\ UNCHANGED <<post, settings, blobs, records, req, choices>>

\* Mutant of Chosen: a choice that is there already is kept.
ChosenOnce(uid, skill) ==
    [settings EXCEPT ![uid] = IF skill = None \/ @ # None THEN @ ELSE skill]

\* set_user_default_skill, when the name is a skill's.
Chosen(uid, skill) == [settings EXCEPT ![uid] = IF skill = None THEN @ ELSE skill]

Reply(r, text, skill) ==
    req' = [req EXCEPT ![r].at = "send", ![r].text = text, ![r].skill = skill,
                       ![r].rest = Pieces(ChannelFor(r), text)]

\* execute_command: /skill stores the choice, /help only answers.
Command(r) ==
    /\ req[r].at = "route" /\ IsCommand(r[1])
    /\ settings' = IF Of(r).cmd = "skill"
                   THEN Chosen(req[r].uid, Resolved(Of(r).arg)) ELSE settings
    /\ \E text \in Texts : Reply(r, text, None)
    /\ UNCHANGED <<post, identity, blobs, records, choices>>

Upload(r) ==
    /\ req[r].at = "route" /\ ~IsCommand(r[1])
    /\ req' = [req EXCEPT ![r].at = "files", ![r].todo = req[r].carries]
    /\ UNCHANGED <<post, identity, settings, blobs, records, choices>>

\* Mutant of StoreFile: the record is written before the bytes are stored.
StoreFileLate(r, f) ==
    /\ req[r].at = "files" /\ f \in req[r].todo /\ req[r].up = None
    /\ records' = records \union {<<r, f>>}
    /\ req' = [req EXCEPT ![r].up = f, ![r].todo = @ \ {f}]
    /\ UNCHANGED <<post, identity, settings, blobs, choices>>

\* An attachment is downloaded and stored in the bucket ...
StoreFile(r, f) ==
    /\ req[r].at = "files" /\ f \in req[r].todo /\ req[r].up = None
    /\ blobs' = blobs \union {<<r, f>>}
    /\ req' = [req EXCEPT ![r].up = f, ![r].todo = @ \ {f}]
    /\ UNCHANGED <<post, identity, settings, records, choices>>

\* ... and then registered, with the status "pending".
RegisterFile(r) ==
    /\ req[r].at = "files" /\ req[r].up # None
    /\ records' = records \union {<<r, req[r].up>>}
    /\ req' = [req EXCEPT ![r].docs = @ \union {req[r].up}, ![r].up = None]
    /\ UNCHANGED <<post, identity, settings, blobs, choices>>

\* Mutant of GiveUp: the first failure ends the batch.
GiveUpAll(request, f) == [request EXCEPT !.bad = @ \union {f}, !.todo = {}, !.up = None]

\* A failure is one attachment's alone.
GiveUp(request, f) ==
    [request EXCEPT !.bad = @ \union {f}, !.todo = @ \ {f}, !.up = None]

\* Its kind or its size is refused, or the download, the bucket or the write of
\* the record fails; bytes that are stored already stay.
FileFails(r, f) ==
    /\ req[r].at = "files"
    /\ IF req[r].up = None THEN f \in req[r].todo ELSE f = req[r].up
    /\ req' = [req EXCEPT ![r] = GiveUp(@, f)]
    /\ UNCHANGED <<post, identity, settings, blobs, records, choices>>

\* invoke_skill_collected: the answer is what the skill said before it
\* finished or broke off, "(no response)", or that it is not available.
Invoke(r) ==
    /\ req[r].at = "files" /\ req[r].todo = {} /\ req[r].up = None
    /\ \E text \in Texts : Reply(r, text, Selected(r))
    /\ UNCHANGED <<post, identity, settings, blobs, records, choices>>

SendChunk(r) ==
    /\ req[r].at = "send" /\ req[r].rest # <<>>
    /\ req' = [req EXCEPT ![r].rest = Tail(@), ![r].said = Append(@, Head(req[r].rest))]
    /\ UNCHANGED <<post, identity, settings, blobs, records, choices>>

\* The provider refuses a chunk, and the next one is tried all the same.
LoseChunk(r) ==
    /\ req[r].at = "send" /\ req[r].rest # <<>>
    /\ req' = [req EXCEPT ![r].rest = Tail(@), ![r].lost = TRUE]
    /\ UNCHANGED <<post, identity, settings, blobs, records, choices>>

\* The channel is not configured, or Discord's is not found: nothing is sent.
DropReply(r) ==
    /\ req[r].at = "send" /\ req[r].said = <<>> /\ req[r].rest # <<>>
    /\ req' = [req EXCEPT ![r].rest = <<>>, ![r].lost = TRUE]
    /\ UNCHANGED <<post, identity, settings, blobs, records, choices>>

\* The adapters' send; where Discord refuses a chunk, the delivery dies.
DiscordSends(r) == ChannelFor(r) = "discord" /\ (SendChunk(r) \/ DropReply(r))
TelegramSends(r) ==
    ChannelFor(r) = "telegram" /\ (SendChunk(r) \/ LoseChunk(r) \/ DropReply(r))
WhatsAppSends(r) ==
    ChannelFor(r) = "whatsapp" /\ (SendChunk(r) \/ LoseChunk(r) \/ DropReply(r))
EmailSends(r) == ChannelFor(r) = "email" /\ (SendChunk(r) \/ LoseChunk(r))

\* Mutant of Acknowledge: the webhook is answered while the reply goes out.
AcknowledgeEarly(r) ==
    /\ req[r].at = "send"
    /\ req' = [req EXCEPT ![r].at = "ok"]
    /\ settled' =
          IF Choosing(r) /\ Resolved(Of(r).arg) # None /\ r \notin contested
          THEN [settled EXCEPT ![req[r].uid] = Of(r).arg] ELSE settled
    /\ UNCHANGED <<post, identity, settings, blobs, records, contested>>

\* The webhook is answered with 200.
Acknowledge(r) ==
    /\ req[r].at = "send" /\ req[r].rest = <<>>
    /\ req' = [req EXCEPT ![r].at = "ok"]
    /\ settled' =
          IF Choosing(r) /\ Resolved(Of(r).arg) # None /\ r \notin contested
          THEN [settled EXCEPT ![req[r].uid] = Of(r).arg] ELSE settled
    /\ UNCHANGED <<post, identity, settings, blobs, records, contested>>

\* A delivery that raises is answered with 500; one that is cut off, not at all.
Ended == "died"

Dies(r) ==
    /\ Active(r)
    /\ req' = [req EXCEPT ![r] = [Idle EXCEPT !.at = Ended]]
    /\ UNCHANGED <<post, identity, settings, blobs, records, choices>>

-----------------------------------------------------------------------------

Init ==
    /\ post \in Posts
    /\ identity = [u \in Users |-> None]
    /\ settings = [u \in Users |-> None]
    /\ blobs = {} /\ records = {}
    /\ req = [r \in Requests |-> Idle]
    /\ contested = {} /\ settled = [u \in Users |-> None]

Step(r) ==
    \/ Resolve(r) \/ Admit(r) \/ Reject(r) \/ Command(r) \/ Upload(r)
    \/ \E f \in Files : StoreFile(r, f) \/ FileFails(r, f)
    \/ RegisterFile(r) \/ Invoke(r)
    \/ DiscordSends(r) \/ TelegramSends(r) \/ WhatsAppSends(r) \/ EmailSends(r)
    \/ Acknowledge(r)

Next ==
    \/ \E m \in Messages : Deliver(m)
    \/ \E u \in Users : Migrate(u)
    \/ \E r \in Requests : Step(r) \/ Dies(r)

Spec == Init /\ [][Next]_vars

-----------------------------------------------------------------------------

\* The records, the deliveries and the histories are well typed.
TypeOK ==
    /\ post \in Posts
    /\ identity \in [Users -> Users \union {None}]
    /\ settings \in [Users -> Catalogue \union {None}]
    /\ records \subseteq blobs /\ blobs \subseteq Requests \X Files
    /\ \A r \in Requests : req[r] \in Request
    /\ contested \subseteq Requests
    /\ settled \in [Users -> Skills \union {None}]

\* Every delivery of a sender's messages runs under one uid, the one on record,
\* though two first messages, a redelivery and the migration may each create
\* the record after another has (identity.py:105-111).
OneIdentity ==
    \A r \in Requests : req[r].uid # None => identity[Of(r).user] = req[r].uid

\* Once a user's choice of a skill is answered, and until another delivery of a
\* choice arrives, the default is that choice, whichever deliveries died before
\* and whatever else runs; choices under way at once may win in any order
\* (_commands_runtime.py:39-56).
ChoiceStands ==
    \A u \in Users : settled[u] # None => settings[u] = settled[u]

\* Every attachment reaches the turn's documents unless it failed itself, and
\* a document that is handed to a turn is registered with its bytes stored
\* (attachments.py:102-106).
UploadsReachTurn ==
    \A r \in Requests :
       /\ \A f \in req[r].docs : <<r, f>> \in records \intersect blobs
       /\ req[r].at = "send" /\ ~IsCommand(r[1])
             => req[r].docs = req[r].carries \ req[r].bad

\* The pieces are cut out of the text one after another, each begin[k] its place, and all they
\* leave out is spaces.
Spells(pieces, text) ==
    \E begin \in [DOMAIN pieces -> DOMAIN text] :
       /\ \A k \in DOMAIN pieces : /\ begin[k] + Len(pieces[k]) - 1 \in DOMAIN text
                                   /\ pieces[k] = SubSeq(text, begin[k], begin[k] + Len(pieces[k]) - 1)
       /\ \A j, k \in DOMAIN pieces : j < k => begin[j] + Len(pieces[j]) <= begin[k]
       /\ \A i \in DOMAIN text :
             text[i] = 0 \/ \E k \in DOMAIN pieces : i \in begin[k] .. begin[k] + Len(pieces[k]) - 1

\* A delivery that was acknowledged, and so is the last of its message, has
\* answered it itself: unless it was no message or its sender was turned away,
\* it has an answer, and unless the provider failed one of this delivery's own
\* calls the chunks it sent are the whole of it in order; and no chunk of any
\* delivery is longer than the chat takes (base.py:189-241, _chunk.py).
AckedIsAnswered ==
    \A r \in Requests :
       /\ ChannelFor(r) # "email" =>
             \A i \in DOMAIN req[r].said : Len(req[r].said[i]) <= MaxLength
       /\ req[r].at = "ok" =>
             \/ ~Actionable(r[1], req[r].carries)
             \/ req[r].uid = None /\ ChannelFor(r) = "discord" /\ ~Of(r).listed
             \/ req[r].text # <<>> /\ (req[r].lost \/ Spells(req[r].said, req[r].text))
=============================================================================
