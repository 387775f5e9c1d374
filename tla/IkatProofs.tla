----------------------------- MODULE IkatProofs -----------------------------
(* Theorems about Ikat, for every reply and command length, every deferral and   *)
(* pointer period, and every set of commands and masks the host uses.           *)
EXTENDS Ikat, TLAPS

ChannelTypes ==
  /\ response \in [Channel -> Replies \cup {None}] /\ unread \in [Channel -> 0 .. ReplyBytes]
  /\ interrupt_status \subseteq Channel /\ interrupt_mask \subseteq Channel /\ line \in BOOLEAN
  /\ taken \subseteq Channel /\ rebooting \in BOOLEAN

DiscTypes ==
  /\ command \in FourByteCommands \cup {None} /\ command_length \in 0 .. CommandBytes - 1
  /\ deferred \in Replies \cup {None} /\ deferred_ticks \in 0 .. DeferTicks
  /\ seek_report_pending \in BOOLEAN /\ ready_report_pending \in BOOLEAN
  /\ blocked \in BOOLEAN

MediaTypes ==
  /\ present \in BOOLEAN /\ generation \in Nat /\ change \in BOOLEAN
  /\ media_generation \in Nat /\ told \in BOOLEAN /\ pc \in {"run", "report"}

HistoryTypes ==
  /\ call \in {None, "resume", "seek_audio", "seek_data", "cpu_reset"}
  /\ heard \in Replies \cup {None} /\ meanwhile \subseteq {"command", "cancel"}

-----------------------------------------------------------------------------
(* The channels and their interrupts. *)

ChannelInv == ChannelTypes /\ StatusMeansUnread /\ NoLostReport

\* Publishing on any channels keeps status, line and history in step.
LEMMA PublishKeepsChannels ==
  ASSUME ChannelInv, NEW on \in SUBSET Channel, NEW d,
         "D" \in on => d \in Replies, Publish(on, d)
  PROVE  ChannelInv'
<1> USE TicksAssumption
<1>1. \A c \in on : Published(c, d) \in Replies
  BY DEF Published, Channel, Replies
<1>2. ChannelTypes'
  <2>1. response' \in [Channel -> Replies \cup {None}]
    BY <1>1 DEF Publish, ChannelInv, ChannelTypes
  <2>2. unread' \in [Channel -> 0 .. ReplyBytes]
    BY DEF Publish, ChannelInv, ChannelTypes
  <2>3. interrupt_status' \subseteq Channel /\ taken' \subseteq Channel
    BY DEF Publish, ChannelInv, ChannelTypes
  <2>4. line' \in BOOLEAN
    BY DEF Publish, ChannelInv, ChannelTypes
  <2> QED
    BY <2>1, <2>2, <2>3, <2>4 DEF Publish, ChannelInv, ChannelTypes
<1>3. StatusMeansUnread'
  <2>1. \A c \in Channel : unread'[c] > 0 <=> c \in on \/ unread[c] > 0
    BY DEF Publish, ChannelInv, ChannelTypes
  <2> QED
    BY <2>1 DEF Publish, ChannelInv, StatusMeansUnread
<1>4. NoLostReport'
  BY DEF Publish, ChannelInv, ChannelTypes, NoLostReport
<1> QED
  BY <1>2, <1>3, <1>4 DEF ChannelInv

\* Reading a byte keeps them in step: the bit falls with the last one.
LEMMA ReadKeepsChannels ==
  ASSUME ChannelInv, NEW c \in Channel, ReadResponse(c)
  PROVE  ChannelInv'
<1> USE TicksAssumption
<1>1. unread[c] \in 0 .. ReplyBytes /\ unread[c] > 0 /\ unread' = [unread EXCEPT ![c] = @ - 1]
  BY DEF ReadResponse, ChannelInv, ChannelTypes
<1>2. ChannelTypes'
  BY <1>1 DEF ReadResponse, StatusAfterRead, ChannelInv, ChannelTypes
<1>3. StatusMeansUnread'
  <2>1. \A k \in Channel : unread'[k] > 0 <=> unread[k] > 0 /\ ~(k = c /\ unread[c] = 1)
    BY <1>1 DEF ChannelInv, ChannelTypes
  <2> QED
    BY <2>1 DEF ReadResponse, StatusAfterRead, ChannelInv, StatusMeansUnread
<1>4. NoLostReport'
  BY DEF ReadResponse, StatusAfterRead, ChannelInv, NoLostReport
<1> QED
  BY <1>2, <1>3, <1>4 DEF ChannelInv

LEMMA ChannelStep == DiscTypes /\ MediaTypes /\ ChannelInv /\ [Next]_vars => ChannelInv'
<1> SUFFICES ASSUME DiscTypes, MediaTypes, ChannelInv, [Next]_vars PROVE ChannelInv'
  OBVIOUS
<1> USE TicksAssumption
<1>1. ASSUME NEW c \in Channel, ReadResponse(c) PROVE ChannelInv'
  BY <1>1, ReadKeepsChannels
<1>2. ASSUME NEW m \in Masks, WriteMask(m) PROVE ChannelInv'
  <2>1. m \subseteq Channel
    OBVIOUS
  <2> QED
    BY <1>2, <2>1 DEF WriteMask, LineAfterMask, ChannelInv, ChannelTypes, StatusMeansUnread, NoLostReport
<1>3. CASE TakeInterrupt
  BY <1>3 DEF TakeInterrupt, ChannelInv, ChannelTypes, StatusMeansUnread, NoLostReport
<1>4. CASE SystemCommand
  <2>1. {"C"} \in SUBSET Channel /\ "D" \notin {"C"}
    BY DEF Channel
  <2> QED
    BY <1>4, <2>1, PublishKeepsChannels DEF SystemCommand
<1>5. CASE WarmReset
  BY <1>5 DEF WarmReset, ChannelInv, ChannelTypes, StatusMeansUnread, NoLostReport
<1>6. CASE UNCHANGED channels
  BY <1>6 DEF channels, ChannelInv, ChannelTypes, StatusMeansUnread, NoLostReport
<1>7. ASSUME NEW c \in DiscCommands, DiscByte(c) PROVE ChannelInv'
  BY <1>6, <1>7 DEF DiscByte, CollectByte, RequestStatus, RequestSeekStatus, PlainCommand, Seek,
                    DroppedCommand
<1>8. CASE ImmediateCommand
  <2>1. {"D"} \in SUBSET Channel /\ "B1" \in Replies
    BY DEF Channel, Replies
  <2> QED
    BY <1>8, <2>1, PublishKeepsChannels DEF ImmediateCommand
<1>9. ASSUME NEW packet \in BOOLEAN
      PROVE  /\ PacketChannel(packet) \in SUBSET Channel /\ "D" \notin PacketChannel(packet)
             /\ PacketChannel(packet) \cup {"D"} \in SUBSET Channel
  BY DEF PacketChannel, Channel
<1>10. CASE QuietTick
  <2>1. PICK packet \in BOOLEAN : Publish(PacketChannel(packet), None)
    BY <1>10 DEF QuietTick
  <2> QED
    BY <1>9, <2>1, PublishKeepsChannels
<1>11. CASE LandingTick
  <2>1. PICK packet \in BOOLEAN : Publish(PacketChannel(packet) \cup {"D"}, deferred)
    BY <1>11 DEF LandingTick
  <2>2. deferred \in Replies
    BY <1>11 DEF LandingTick, Lands, Due, DiscTypes
  <2> QED
    BY <1>9, <2>1, <2>2, PublishKeepsChannels
<1>12. CASE ReportMedia
  <2>1. PICK packet \in BOOLEAN : Publish(PacketChannel(packet) \cup {"D"}, DiscStatus)
    BY <1>12 DEF ReportMedia
  <2>2. DiscStatus \in Replies
    BY DEF DiscStatus, Replies
  <2> QED
    BY <1>9, <2>1, <2>2, PublishKeepsChannels
<1>13. CASE NoticeMedia
  BY <1>6, <1>13 DEF NoticeMedia
<1>14. ASSUME NEW n \in 2 .. MaxIdle, IdleJob(n) PROVE ChannelInv'
  BY <1>6, <1>14 DEF IdleJob
<1>15. ASSUME NEW p \in BOOLEAN, StorePresence(p) PROVE ChannelInv'
  BY <1>6, <1>15 DEF StorePresence
<1>16. CASE CountChange
  BY <1>6, <1>16 DEF CountChange
<1>17. CASE UNCHANGED vars
  BY <1>6, <1>17 DEF vars
<1> QED
  BY <1>1, <1>2, <1>3, <1>4, <1>5, <1>7, <1>8, <1>10, <1>11, <1>12, <1>13, <1>14, <1>15, <1>16,
     <1>17 DEF Next, Tick

-----------------------------------------------------------------------------
(* Device time. *)

TimeInv == DiscTypes /\ pointer_elapsed \in Nat /\ NothingOverslept

\* A quantum brings a deferred reply one nearer, and leaves it due only if it is blocked.
LEMMA TickKeepsTime ==
  ASSUME TimeInv, PassPointerTime,
         \/ Approach /\ UNCHANGED <<receiving, seeking>>
         \/ Follow /\ UNCHANGED <<receiving, seek_report_pending>>
  PROVE  TimeInv'
<1> USE TicksAssumption
<1>1. pointer_elapsed' \in Nat /\ pointer_elapsed' < PointerTicks
  BY DEF TimeInv, NothingOverslept, PassPointerTime, Sampled
<1>2. CASE Approach /\ UNCHANGED <<receiving, seeking>>
  <2>1. deferred_ticks \in 0 .. DeferTicks /\ deferred' = deferred
    BY <1>2 DEF Approach, TimeInv, DiscTypes
  <2>2. deferred_ticks' \in 0 .. DeferTicks
    BY <1>2, <2>1 DEF Approach
  <2>3. blocked' \in BOOLEAN /\ (blocked' <=> Due)
    BY <1>2 DEF Approach, Due
  <2>4. ASSUME deferred' # None, deferred_ticks' = 0 PROVE blocked'
    <3>1. deferred_ticks <= 1
      BY <1>2, <2>1, <2>4 DEF Approach
    <3> QED
      BY <2>1, <2>3, <2>4, <3>1 DEF Due
  <2>5. DiscTypes'
    BY <1>2, <2>1, <2>2, <2>3 DEF TimeInv, DiscTypes, receiving, seeking
  <2> QED
    BY <1>1, <2>4, <2>5 DEF TimeInv, NothingOverslept
<1>3. CASE Follow /\ UNCHANGED <<receiving, seek_report_pending>>
  <2>1. deferred' \in Replies \cup {None} /\ deferred_ticks' \in 0 .. DeferTicks
    BY <1>3 DEF Follow, Replies
  <2>2. deferred' # None => deferred_ticks' > 0
    BY <1>3 DEF Follow
  <2>3. blocked' \in BOOLEAN /\ ready_report_pending' \in BOOLEAN
    BY <1>3 DEF Follow
  <2>4. DiscTypes'
    BY <1>3, <2>1, <2>3 DEF TimeInv, DiscTypes, receiving
  <2> QED
    BY <1>1, <2>1, <2>2, <2>4 DEF TimeInv, NothingOverslept
<1> QED
  BY <1>2, <1>3

\* An idle job stops short of the next event.
LEMMA IdleKeepsTime ==
  ASSUME TimeInv, NEW n \in 2 .. MaxIdle, IdleJob(n)
  PROVE  TimeInv'
<1> USE TicksAssumption
<1>1. /\ pointer_elapsed \in Nat /\ pointer_elapsed < PointerTicks
      /\ deferred_ticks \in 0 .. DeferTicks /\ n \in Nat /\ n >= 2
      /\ deferred' = deferred /\ blocked' = blocked
  BY DEF TimeInv, NothingOverslept, DiscTypes, IdleJob
<1>2. n <= QuietQuanta /\ pointer_elapsed' = pointer_elapsed + n
  BY DEF IdleJob
<1>3. n < PointerTicks - pointer_elapsed
  BY <1>1, <1>2 DEF QuietQuanta
<1>4. ASSUME deferred # None PROVE n < deferred_ticks
  BY <1>1, <1>2, <1>4 DEF QuietQuanta
<1>5. pointer_elapsed' \in Nat /\ pointer_elapsed' < PointerTicks
  BY <1>1, <1>2, <1>3
<1>6. CASE deferred = None
  <2>1. deferred_ticks' = deferred_ticks
    BY <1>6 DEF IdleJob
  <2>2. DiscTypes'
    BY <1>1, <2>1 DEF IdleJob, TimeInv, DiscTypes, receiving, seeking
  <2> QED
    BY <1>1, <1>5, <1>6, <2>2 DEF TimeInv, NothingOverslept
<1>7. CASE deferred # None
  <2>1. deferred_ticks' = deferred_ticks - n
    BY <1>7 DEF IdleJob
  <2>2. deferred_ticks' \in 0 .. DeferTicks /\ deferred_ticks' # 0
    BY <1>1, <1>4, <1>7, <2>1
  <2>3. DiscTypes'
    BY <1>1, <2>2 DEF IdleJob, TimeInv, DiscTypes, receiving, seeking
  <2> QED
    BY <1>5, <2>2, <2>3 DEF TimeInv, NothingOverslept
<1> QED
  BY <1>6, <1>7

\* A disc command defers a reply by the full delay, or defers none.
LEMMA CommandKeepsTime ==
  ASSUME TimeInv, NEW c \in DiscCommands, DiscByte(c)
  PROVE  TimeInv'
<1> USE TicksAssumption
<1>1. CASE CollectByte(c)
  <2>1. command_length \in 0 .. CommandBytes - 1 /\ command \in FourByteCommands \cup {None}
    BY DEF TimeInv, DiscTypes
  <2>2. command_length' \in 0 .. CommandBytes - 1 /\ command' \in FourByteCommands \cup {None}
    BY <1>1, <2>1 DEF CollectByte
  <2> QED
    BY <1>1, <2>2 DEF CollectByte, TimeInv, DiscTypes, NothingOverslept, deferral, seeking
<1>2. ASSUME Completes(c)
      PROVE  /\ command' = None /\ command_length' = 0 /\ 0 \in 0 .. CommandBytes - 1
             /\ pointer_elapsed' = pointer_elapsed
  BY <1>2 DEF Completes
<1>3. ASSUME Completes(c), NEW r \in Replies, Defer(r), seek_report_pending' \in BOOLEAN,
             ready_report_pending' \in BOOLEAN
      PROVE  TimeInv'
  <2>1. deferred' \in Replies /\ deferred_ticks' \in 0 .. DeferTicks /\ deferred_ticks' # 0
    BY <1>3 DEF Defer
  <2>2. blocked' \in BOOLEAN
    BY <1>3 DEF Defer
  <2>3. DiscTypes'
    BY <1>2, <1>3, <2>1, <2>2 DEF DiscTypes
  <2> QED
    BY <1>2, <1>3, <2>1, <2>3 DEF TimeInv, NothingOverslept
<1>4. CASE RequestStatus(c)
  <2>1. DiscStatus \in Replies
    BY DEF DiscStatus, Replies
  <2> QED
    BY <1>3, <1>4, <2>1 DEF RequestStatus, TimeInv, DiscTypes, seeking
<1>5. CASE RequestSeekStatus(c)
  <2>1. "busy" \in Replies
    BY DEF Replies
  <2> QED
    BY <1>3, <1>5, <2>1 DEF RequestSeekStatus
<1>6. CASE PlainCommand(c)
  <2>1. c \in Replies
    BY <1>6 DEF PlainCommand, Replies
  <2> QED
    BY <1>3, <1>6, <2>1 DEF PlainCommand
<1>7. CASE Seek(c)
  BY <1>2, <1>7 DEF Seek, TimeInv, DiscTypes, NothingOverslept, deferral
<1>8. CASE DroppedCommand(c)
  BY <1>2, <1>8 DEF DroppedCommand, TimeInv, DiscTypes, NothingOverslept, deferral, seeking
<1> QED
  BY <1>1, <1>4, <1>5, <1>6, <1>7, <1>8 DEF DiscByte

LEMMA TimeStep == TimeInv /\ [Next]_vars => TimeInv'
<1> SUFFICES ASSUME TimeInv, [Next]_vars PROVE TimeInv'
  OBVIOUS
<1>1. CASE UNCHANGED <<receiving, deferral, seeking, pointer_elapsed>>
  BY <1>1 DEF TimeInv, DiscTypes, NothingOverslept, receiving, deferral, seeking
<1>2. ASSUME NEW c \in Channel, ReadResponse(c) PROVE TimeInv'
  BY <1>1, <1>2 DEF ReadResponse
<1>3. ASSUME NEW m \in Masks, WriteMask(m) PROVE TimeInv'
  BY <1>1, <1>3 DEF WriteMask
<1>4. CASE TakeInterrupt \/ SystemCommand \/ WarmReset \/ NoticeMedia \/ CountChange
  BY <1>1, <1>4 DEF TakeInterrupt, SystemCommand, WarmReset, NoticeMedia, CountChange
<1>5. CASE ImmediateCommand
  <2>1. command' = None /\ command_length' = 0 /\ 0 \in 0 .. CommandBytes - 1
    BY <1>5, TicksAssumption DEF ImmediateCommand, Completes
  <2> QED
    BY <1>5, <2>1 DEF ImmediateCommand, Completes, TimeInv, DiscTypes, NothingOverslept, deferral,
                      seeking
<1>6. CASE QuietTick
  BY <1>6, TickKeepsTime DEF QuietTick
<1>7. CASE LandingTick
  BY <1>7, TickKeepsTime DEF LandingTick
<1>8. CASE ReportMedia
  BY <1>8, TickKeepsTime DEF ReportMedia
<1>9. ASSUME NEW p \in BOOLEAN, StorePresence(p) PROVE TimeInv'
  BY <1>1, <1>9 DEF StorePresence
<1>10. CASE UNCHANGED vars
  BY <1>1, <1>10 DEF vars
<1> QED
  BY <1>2, <1>3, <1>4, <1>5, <1>6, <1>7, <1>8, <1>9, <1>10, CommandKeepsTime, IdleKeepsTime
     DEF Next, Tick

-----------------------------------------------------------------------------
(* Media changes. *)

\* The generation last noticed is not ahead of the drive's.
MediaInv == MediaTypes /\ media_generation <= generation /\ MediaSettles

LEMMA MediaStep == MediaInv /\ [Next]_vars => MediaInv'
<1> SUFFICES ASSUME MediaInv, [Next]_vars PROVE MediaInv'
  OBVIOUS
<1>1. CASE UNCHANGED <<reporting, media>>
  BY <1>1 DEF MediaInv, MediaTypes, MediaSettles, reporting, media
<1>2. ASSUME NEW c \in Channel, ReadResponse(c) PROVE MediaInv'
  BY <1>1, <1>2 DEF ReadResponse
<1>3. ASSUME NEW m \in Masks, WriteMask(m) PROVE MediaInv'
  BY <1>1, <1>3 DEF WriteMask
<1>4. CASE TakeInterrupt \/ SystemCommand \/ WarmReset \/ QuietTick \/ LandingTick
  BY <1>1, <1>4 DEF TakeInterrupt, SystemCommand, WarmReset, QuietTick, LandingTick
<1>5. ASSUME NEW c, Completes(c) PROVE MediaInv'
  BY <1>1, <1>5 DEF Completes
<1>6. ASSUME NEW c \in DiscCommands, DiscByte(c) PROVE MediaInv'
  <2>1. CASE CollectByte(c)
    BY <1>1, <2>1 DEF CollectByte
  <2> QED
    BY <1>5, <1>6, <2>1 DEF DiscByte, RequestStatus, RequestSeekStatus, PlainCommand, Seek,
                            DroppedCommand
<1>7. CASE ImmediateCommand
  BY <1>5, <1>7 DEF ImmediateCommand
<1>8. ASSUME NEW n \in 2 .. MaxIdle, IdleJob(n) PROVE MediaInv'
  BY <1>1, <1>8 DEF IdleJob
<1>9. CASE NoticeMedia
  BY <1>9 DEF NoticeMedia, MediaInv, MediaTypes, MediaSettles, media
<1>10. CASE ReportMedia
  BY <1>10 DEF ReportMedia, MediaInv, MediaTypes, MediaSettles, media
<1>11. ASSUME NEW p \in BOOLEAN, StorePresence(p) PROVE MediaInv'
  BY <1>11 DEF StorePresence, MediaInv, MediaTypes, MediaSettles, reporting
<1>12. CASE CountChange
  <2>1. generation' = generation + 1 /\ media_generation' = media_generation
        /\ ~change' /\ present' = present /\ told' = told /\ pc' = pc
    BY <1>12 DEF CountChange, Counted, reporting
  <2>2. media_generation' <= generation' /\ media_generation' # generation' /\ generation' \in Nat
    BY <2>1 DEF MediaInv, MediaTypes
  <2>3. MediaTypes'
    BY <1>12, <2>1, <2>2 DEF CountChange, MediaInv, MediaTypes
  <2>4. MediaSettles'
    BY <2>2 DEF MediaSettles
  <2> QED
    BY <2>2, <2>3, <2>4 DEF MediaInv
<1>13. CASE UNCHANGED vars
  BY <1>1, <1>13 DEF vars
<1> QED
  BY <1>2, <1>3, <1>4, <1>6, <1>7, <1>8, <1>9, <1>10, <1>11, <1>12, <1>13 DEF Next, Tick

-----------------------------------------------------------------------------
(* The reports of a seek, read by a host that does nothing else. *)

\* Ordered, busy unread, busy read, on-target unread, on-target read.
Ordered == deferred = "busy" /\ ready_report_pending /\ unread["D"] = 0 /\ heard = None
BusyUnread ==
  /\ response["D"] = "busy" /\ unread["D"] > 0 /\ heard = None
  /\ deferred = "on_target" /\ ~ready_report_pending
BusyRead == unread["D"] = 0 /\ heard = "busy" /\ deferred = "on_target" /\ ~ready_report_pending
OnTargetUnread ==
  /\ response["D"] = "on_target" /\ unread["D"] > 0 /\ heard = "busy"
  /\ deferred = None /\ ~ready_report_pending
AllRead ==
  unread["D"] = 0 /\ heard \in {None, "on_target"} /\ deferred = None /\ ~ready_report_pending

HandshakeInv ==
  meanwhile = {} => Ordered \/ BusyUnread \/ BusyRead \/ OnTargetUnread \/ AllRead

\* The state of channel D a step may leave alone.
discState == <<response["D"], unread["D"], heard, deferred, ready_report_pending>>

LEMMA HandshakeUnmoved ==
  ASSUME HandshakeInv, UNCHANGED discState, meanwhile' = {} => meanwhile = {}
  PROVE  HandshakeInv'
BY DEF HandshakeInv, discState, Ordered, BusyUnread, BusyRead, OnTargetUnread, AllRead

\* Publishing elsewhere leaves channel D alone.
LEMMA PublishElsewhere ==
  ASSUME NEW on, NEW d, Publish(on, d), "D" \notin on
  PROVE  UNCHANGED <<response["D"], unread["D"]>>
BY DEF Publish, Channel

LEMMA PublishHere ==
  ASSUME NEW on, NEW d, Publish(on, d), "D" \in on
  PROVE  response'["D"] = d /\ unread'["D"] = ReplyBytes
BY DEF Publish, Channel, Published

LEMMA HandshakeStep == ChannelInv /\ HandshakeInv /\ [Next]_vars => HandshakeInv'
<1> SUFFICES ASSUME ChannelInv, HandshakeInv, [Next]_vars PROVE HandshakeInv'
  OBVIOUS
<1> USE TicksAssumption
<1>1. ASSUME NEW c \in Channel, ReadResponse(c) PROVE HandshakeInv'
  <2>0. unread["D"] \in Nat /\ "D" \in Channel /\ unread \in [Channel -> 0 .. ReplyBytes]
    BY DEF ChannelInv, ChannelTypes, Channel
  <2>1. CASE c # "D"
    <3>1. UNCHANGED discState /\ meanwhile' = meanwhile
      BY <1>1, <2>0, <2>1 DEF ReadResponse, discState, deferral, seeking
    <3> QED
      BY <3>1, HandshakeUnmoved
  <2>2. CASE c = "D" /\ unread["D"] # 1
    <3>1. /\ unread'["D"] = unread["D"] - 1 /\ unread["D"] > 0 /\ unread'["D"] > 0
          /\ heard' = heard /\ meanwhile' = meanwhile
          /\ UNCHANGED <<response, deferred, ready_report_pending>>
      BY <1>1, <2>0, <2>2 DEF ReadResponse, deferral, seeking
    <3> QED
      BY <3>1 DEF HandshakeInv, Ordered, BusyUnread, BusyRead, OnTargetUnread, AllRead
  <2>3. CASE c = "D" /\ unread["D"] = 1
    <3>1. /\ unread'["D"] = 0 /\ heard' = response["D"] /\ meanwhile' = meanwhile
          /\ UNCHANGED <<response, deferred, ready_report_pending>>
      BY <1>1, <2>0, <2>3 DEF ReadResponse, deferral, seeking
    <3> QED
      BY <2>3, <3>1 DEF HandshakeInv, Ordered, BusyUnread, BusyRead, OnTargetUnread, AllRead
  <2> QED
    BY <2>1, <2>2, <2>3
<1>2. ASSUME NEW m \in Masks, WriteMask(m) PROVE HandshakeInv'
  BY <1>2, HandshakeUnmoved DEF WriteMask, discState, deferral, seeking
<1>3. CASE TakeInterrupt \/ WarmReset
  BY <1>3, HandshakeUnmoved DEF TakeInterrupt, WarmReset, discState, deferral, seeking
<1>4. CASE SystemCommand
  <2>1. UNCHANGED <<response["D"], unread["D"]>>
    BY <1>4, PublishElsewhere DEF SystemCommand
  <2> QED
    BY <1>4, <2>1, HandshakeUnmoved DEF SystemCommand, discState, deferral, seeking
<1>5. ASSUME NEW c \in DiscCommands, DiscByte(c) PROVE HandshakeInv'
  <2>1. CASE CollectByte(c) \/ DroppedCommand(c)
    BY <2>1, HandshakeUnmoved DEF CollectByte, DroppedCommand, discState, channels, deferral, seeking
  <2>2. CASE RequestStatus(c) \/ PlainCommand(c) \/ Seek(c)
    <3>1. meanwhile' # {}
      BY <2>2 DEF RequestStatus, PlainCommand, Seek
    <3> QED
      BY <3>1 DEF HandshakeInv
  <2>3. CASE RequestSeekStatus(c)
    BY <2>3 DEF RequestSeekStatus, Defer, channels, HandshakeInv, Ordered
  <2> QED
    BY <1>5, <2>1, <2>2, <2>3 DEF DiscByte
<1>6. CASE ImmediateCommand \/ ReportMedia
  <2>1. meanwhile' # {}
    BY <1>6 DEF ImmediateCommand, ReportMedia
  <2> QED
    BY <2>1 DEF HandshakeInv
<1>7. CASE QuietTick
  <2>1. PICK packet \in BOOLEAN : Publish(PacketChannel(packet), None)
    BY <1>7 DEF QuietTick
  <2>2. "D" \notin PacketChannel(packet)
    BY DEF PacketChannel
  <2>3. UNCHANGED <<response["D"], unread["D"]>>
    BY <2>1, <2>2, PublishElsewhere
  <2> QED
    BY <1>7, <2>3, HandshakeUnmoved DEF QuietTick, Approach, discState, seeking
<1>8. CASE LandingTick
  <2>1. PICK packet \in BOOLEAN : Publish(PacketChannel(packet) \cup {"D"}, deferred)
    BY <1>8 DEF LandingTick
  <2>2. response'["D"] = deferred /\ unread'["D"] = ReplyBytes
    BY <2>1, PublishHere
  <2>3. unread'["D"] > 0
    BY <2>2
  <2>4. /\ deferred # None /\ unread["D"] = 0 /\ heard' = heard /\ meanwhile' = meanwhile
        /\ deferred' = (IF ready_report_pending THEN "on_target" ELSE None)
        /\ ~ready_report_pending'
    BY <1>8 DEF LandingTick, Lands, Due, Follow
  <2>5. SUFFICES ASSUME meanwhile = {} PROVE BusyUnread' \/ OnTargetUnread'
    BY <2>4 DEF HandshakeInv
  <2>6. CASE Ordered
    BY <2>2, <2>3, <2>4, <2>6 DEF Ordered, BusyUnread
  <2>7. CASE BusyRead
    BY <2>2, <2>3, <2>4, <2>7 DEF BusyRead, OnTargetUnread
  <2> QED
    BY <2>4, <2>5, <2>6, <2>7 DEF HandshakeInv, BusyUnread, OnTargetUnread, AllRead
<1>9. CASE NoticeMedia \/ CountChange
  BY <1>9, HandshakeUnmoved DEF NoticeMedia, CountChange, discState, channels, deferral, seeking
<1>10. ASSUME NEW n \in 2 .. MaxIdle, IdleJob(n) PROVE HandshakeInv'
  BY <1>10, HandshakeUnmoved DEF IdleJob, discState, channels, seeking
<1>11. ASSUME NEW p \in BOOLEAN, StorePresence(p) PROVE HandshakeInv'
  BY <1>11, HandshakeUnmoved DEF StorePresence, discState, channels, deferral, seeking
<1>12. CASE UNCHANGED vars
  BY <1>12, HandshakeUnmoved DEF vars, discState, channels, deferral, seeking
<1> QED
  BY <1>1, <1>2, <1>3, <1>4, <1>5, <1>6, <1>7, <1>8, <1>9, <1>10, <1>11, <1>12 DEF Next, Tick

-----------------------------------------------------------------------------
(* The theorems. *)

LEMMA HistoryStep ==
  DiscTypes /\ ChannelTypes /\ HistoryTypes /\ [Next]_vars => HistoryTypes'
<1> SUFFICES ASSUME DiscTypes, ChannelTypes, HistoryTypes, [Next]_vars PROVE HistoryTypes'
  OBVIOUS
<1>1. ASSUME NEW c \in Channel, ReadResponse(c) PROVE HistoryTypes'
  BY <1>1 DEF ReadResponse, HistoryTypes, ChannelTypes
<1>2. ASSUME NEW m \in Masks, WriteMask(m) PROVE HistoryTypes'
  BY <1>2 DEF WriteMask, HistoryTypes
<1>3. CASE TakeInterrupt \/ SystemCommand \/ WarmReset
  BY <1>3 DEF TakeInterrupt, SystemCommand, WarmReset, HistoryTypes
<1>4. ASSUME NEW c \in DiscCommands, DiscByte(c) PROVE HistoryTypes'
  <2>1. CASE CollectByte(c) \/ DroppedCommand(c) \/ Seek(c)
    BY <2>1 DEF CollectByte, DroppedCommand, Seek, HistoryTypes
  <2>2. CASE RequestStatus(c) \/ RequestSeekStatus(c) \/ PlainCommand(c)
    BY <2>2 DEF RequestStatus, RequestSeekStatus, PlainCommand, HistoryTypes
  <2> QED
    BY <1>4, <2>1, <2>2 DEF DiscByte
<1>5. CASE ImmediateCommand
  BY <1>5 DEF ImmediateCommand, HistoryTypes
<1>6. CASE Tick
  BY <1>6 DEF Tick, QuietTick, LandingTick, NoticeMedia, ReportMedia, HistoryTypes
<1>7. ASSUME NEW n \in 2 .. MaxIdle, IdleJob(n) PROVE HistoryTypes'
  BY <1>7 DEF IdleJob, HistoryTypes
<1>8. ASSUME NEW p \in BOOLEAN, StorePresence(p) PROVE HistoryTypes'
  BY <1>8 DEF StorePresence, HistoryTypes
<1>9. CASE CountChange
  BY <1>9 DEF CountChange, HistoryTypes
<1>10. CASE UNCHANGED vars
  BY <1>10 DEF vars, HistoryTypes
<1> QED
  BY <1>1, <1>2, <1>3, <1>4, <1>5, <1>6, <1>7, <1>8, <1>9, <1>10 DEF Next

IkatInv == ChannelInv /\ TimeInv /\ MediaInv /\ HistoryTypes /\ HandshakeInv

LEMMA IkatSound == Spec => []IkatInv
<1> USE TicksAssumption
<1>1. Init => IkatInv
  <2> SUFFICES ASSUME Init PROVE IkatInv
    OBVIOUS
  <2>1. ChannelInv
    <3>1. 0 \in 0 .. ReplyBytes /\ unread = [c \in Channel |-> 0]
      BY DEF Init
    <3>2. ChannelTypes
      BY <3>1 DEF Init, ChannelTypes
    <3>3. StatusMeansUnread
      BY <3>1 DEF Init, StatusMeansUnread
    <3> QED
      BY <3>2, <3>3 DEF Init, ChannelInv, NoLostReport
  <2>2. TimeInv
    <3>1. 0 \in 0 .. CommandBytes - 1 /\ 0 \in 0 .. DeferTicks /\ 0 < PointerTicks
      OBVIOUS
    <3>2. DiscTypes
      BY <3>1 DEF Init, DiscTypes
    <3> QED
      BY <3>1, <3>2 DEF Init, TimeInv, NothingOverslept
  <2>3. MediaInv
    <3>1. media_generation = 0 /\ generation = 0 /\ 0 <= 0
      BY DEF Init
    <3>2. MediaTypes
      <4>1. present \in BOOLEAN /\ told = present /\ change = FALSE /\ pc = "run"
        BY DEF Init
      <4>2. generation \in Nat /\ media_generation \in Nat
        BY <3>1
      <4> QED
        BY ONLY <4>1, <4>2, Zenon DEF MediaTypes
    <3>3. MediaSettles
      BY DEF Init, MediaSettles
    <3> QED
      BY <3>1, <3>2, <3>3 DEF MediaInv
  <2>4. HistoryTypes
    BY DEF Init, HistoryTypes
  <2>5. HandshakeInv
    BY DEF Init, HandshakeInv, AllRead, Channel
  <2> QED
    BY <2>1, <2>2, <2>3, <2>4, <2>5 DEF IkatInv
<1>2. IkatInv /\ [Next]_vars => IkatInv'
  BY ChannelStep, TimeStep, MediaStep, HistoryStep, HandshakeStep
     DEF IkatInv, ChannelInv, TimeInv, MediaInv
<1> QED
  BY <1>1, <1>2, PTL DEF Spec

\* Every variable of the gate keeps its type; the unsigned deferral count of an idle job
\* never wraps (slave_advance_quiet).
THEOREM TypeCorrect == Spec => []TypeOK
<1>1. IkatInv => TypeOK
  BY DEF IkatInv, ChannelInv, ChannelTypes, TimeInv, DiscTypes, MediaInv, MediaTypes,
         HistoryTypes, TypeOK
<1> QED
  BY <1>1, IkatSound, PTL

\* The interrupt status tells exactly which channels hold unread bytes.
THEOREM StatusExact == Spec => []StatusMeansUnread
<1>1. IkatInv => StatusMeansUnread
  BY DEF IkatInv, ChannelInv
<1> QED
  BY <1>1, IkatSound, PTL

\* No enabled reply stays unannounced, whatever order replies, mask writes, reads,
\* interrupts and warm resets come in (raise_channel_interrupt, write_register).
THEOREM ReportsAnnounced == Spec => []NoLostReport
<1>1. IkatInv => NoLostReport
  BY DEF IkatInv, ChannelInv
<1> QED
  BY <1>1, IkatSound, PTL

\* Batched idle time never passes an event of the gate (slave_quiet_quanta).
THEOREM IdleTimeFaithful == Spec => []NothingOverslept
<1>1. IkatInv => NothingOverslept
  BY DEF IkatInv, TimeInv
<1> QED
  BY <1>1, IkatSound, PTL

\* Once the mounting thread and the emulation thread are done, the last media report is
\* the state of the drive (slave_increment_time, cdi_media_mount, cdi_media_eject).
THEOREM MediaReportSettles == Spec => []MediaSettles
<1>1. IkatInv => MediaSettles
  BY DEF IkatInv, MediaInv
<1> QED
  BY <1>1, IkatSound, PTL

\* A host that only reads sees busy before on-target.
THEOREM HandshakeInOrder == Spec => BusyBeforeOnTarget
<1> DEFINE Order == heard' = "on_target" /\ heard # "on_target" /\ meanwhile = {} => heard = "busy"
<1>1. IkatInv /\ [Next]_vars => [Order]_vars
  <2> SUFFICES ASSUME IkatInv, Next, heard' = "on_target", heard # "on_target", meanwhile = {}
               PROVE  heard = "busy"
    OBVIOUS
  <2>1. ASSUME heard' = heard PROVE FALSE
    BY <2>1
  <2>2. ASSUME NEW c \in Channel, ReadResponse(c) PROVE heard = "busy"
    <3>1. c = "D" /\ unread["D"] = 1 /\ response["D"] = "on_target"
      BY <2>1, <2>2 DEF ReadResponse
    <3> QED
      BY <3>1 DEF IkatInv, HandshakeInv, Ordered, BusyUnread, BusyRead, OnTargetUnread, AllRead
  <2>3. ASSUME NEW c \in DiscCommands, DiscByte(c) PROVE FALSE
    BY <2>1, <2>3 DEF DiscByte, CollectByte, RequestStatus, RequestSeekStatus, PlainCommand, Seek,
                      DroppedCommand, None
  <2>4. CASE \/ TakeInterrupt \/ SystemCommand \/ WarmReset \/ ImmediateCommand \/ Tick
             \/ CountChange
    BY <2>1, <2>4 DEF TakeInterrupt, SystemCommand, WarmReset, ImmediateCommand, Tick, QuietTick,
                      LandingTick, NoticeMedia, ReportMedia, CountChange
  <2>5. ASSUME NEW m \in Masks, WriteMask(m) PROVE FALSE
    BY <2>1, <2>5 DEF WriteMask
  <2>6. ASSUME NEW n \in 2 .. MaxIdle, IdleJob(n) PROVE FALSE
    BY <2>1, <2>6 DEF IdleJob
  <2>7. ASSUME NEW p \in BOOLEAN, StorePresence(p) PROVE FALSE
    BY <2>1, <2>7 DEF StorePresence
  <2> QED
    BY <2>2, <2>3, <2>4, <2>5, <2>6, <2>7 DEF Next
<1> QED
  BY <1>1, IkatSound, PTL DEF Spec, BusyBeforeOnTarget

\* Status bits and line together lead a host to every reply (raise_channel_interrupt,
\* read_register).
THEOREM RepliesReachHost == Spec => []ReplyReachesHost
  BY StatusExact, ReportsAnnounced, PTL DEF ReplyReachesHost
=============================================================================
