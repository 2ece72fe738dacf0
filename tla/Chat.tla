-------------------------------- MODULE Chat --------------------------------
(***************************************************************************)
(* The chat of the play layer (src/hooked/play_layer.hpp): messages that   *)
(* the network thread has queued in g_messages are taken in a frame, those *)
(* of blocked users are dropped, the others become ChatMessages            *)
(* (src/ui/game/chat_message.cpp) in the chat box.  Who is blocked depends *)
(* on two lists that are saved by the mod, on the friend list that the     *)
(* game fetches, and on two settings; the user list                        *)
(* (src/ui/popup/spectate_popup.cpp and spectate_user_cell.cpp) has a      *)
(* button to block or unblock.                                             *)
(*                                                                         *)
(* A character is its width.  Names, icons and colours are left out.       *)
(***************************************************************************)
EXTENDS Integers, SequencesExt

CONSTANTS
  Players,       \* account ids of the others
  Friends,       \* those on the user's friend list
  Self, Server,  \* the user's account id, and -1
  ChatSettings,  \* values of the setting "chat"
  Texts,         \* what is written: sequences of character widths
  NameWidth,     \* what a name takes of the first line
  LineWidth,     \* m_chatBoxWidth - 10
  BoxLines,      \* lines that fit below the top of the chat box
  Cap,           \* the capacity of m_messageList
  MaxQueue,      \* bound: messages that wait
  MaxLevels,     \* bound: levels entered
  None           \* no play layer, no user list, no delegate

ASSUME OthersAreOthers ==
  /\ Friends \subseteq Players /\ IsFiniteSet(Players)
  /\ Self \notin Players /\ Server \notin Players
  /\ ChatSettings \subseteq BOOLEAN
ASSUME WidthsAreNumbers ==
  Texts \subseteq Seq(Nat) /\ {NameWidth, LineWidth, BoxLines} \subseteq Int
ASSUME BoundsArePositive ==
  Cap \in Nat \ {0} /\ MaxQueue \in Nat /\ MaxLevels \in Nat /\ None \notin Int

VARIABLES
  queue,       \* g_messages
  saved,       \* the mod's saved values chat-blacklist and chat-whitelist
  layer,       \* the play layer's fields, or None
  popup,       \* the user list: m_isBlocked of its cells, or None
  delegate,    \* m_userListDelegate: the level of the layer it is in, or None
  fetches,     \* friend list requests that are not answered
  levels,      \* levels entered so far
  crashed,     \* has a null or a freed pointer been used?
  decision,    \* what the user last chose for a player in the user list
  allowedLost  \* was a message dropped of someone the user had allowed?

vars == <<queue, saved, layer, popup, delegate, fetches, levels, crashed,
          decision, allowedLost>>

-----------------------------------------------------------------------------
(* ChatMessage::init: the first line has the name, a second and a third    *)
(* one follow as needed.                                                   *)
Width(text) ==
  LET sum[n \in 0..Len(text)] == IF n = 0 THEN 0 ELSE sum[n - 1] + text[n]
  IN sum[Len(text)]

(* A binary search for the first length that is too wide.                  *)
FindLowerCharacterBound(text, maxSize) ==
  LET find[bounds \in (0..Len(text)) \X (0..Len(text))] ==
        LET low == bounds[1]
            high == bounds[2]
            mid == low + (high - low) \div 2
        IN IF low >= high THEN low
           ELSE IF Width(SubSeq(text, 1, mid)) < maxSize
             THEN find[<<mid + 1, high>>] ELSE find[<<low, mid>>]
  IN find[<<0, Len(text)>>]

(* Faulty: the character at the split is lost.                             *)
SplitAround(text, length) ==
  <<SubSeq(text, 1, length), SubSeq(text, length + 2, Len(text))>>

SplitAt(text, length) ==
  <<SubSeq(text, 1, length), SubSeq(text, length + 1, Len(text))>>

(* A server's message has no name, and then no first line either.          *)
FirstLineWidth(sender) == IF sender = Server THEN 0 ELSE LineWidth - NameWidth

MessageLines(text, sender) ==
  LET first == SplitAt(text, FindLowerCharacterBound(text, FirstLineWidth(sender)))
      second == SplitAt(first[2], FindLowerCharacterBound(first[2], LineWidth))
  IN IF first[2] = <<>> THEN <<first[1]>>
     ELSE IF second[2] = <<>> THEN <<first[1], second[1]>>
     ELSE <<first[1], second[1], second[2]>>

-----------------------------------------------------------------------------
(* serialzieIdList writes a set in any order; parseIdList reads it.        *)
IdLists(ids) ==
  {list \in [1..Cardinality(ids) -> ids] : ToSet(list) = ids}

(* Faulty: nothing saved is read as a number.                              *)
ParseAnything(list) == IF list = <<>> THEN {0} ELSE ToSet(list)

ParseIdList(list) == ToSet(list)

Layer(level, chat, onlyAllowed, black, white) ==
  [level |-> level, chat |-> chat, chatWhitelist |-> onlyAllowed,
   blacklist |-> black, whitelist |-> white, friends |-> {},
   expanded |-> TRUE, box |-> <<>>]

(* Faulty: friends come before what the user has chosen.                   *)
FriendsFirst(sender) ==
  /\ sender # Self /\ sender \notin layer.friends
  /\ \/ sender \in layer.blacklist
     \/ sender \notin layer.whitelist /\ layer.chatWhitelist

IsUserBlocked(sender) ==
  /\ sender # Self
  /\ \/ sender \in layer.blacklist
     \/ /\ sender \notin layer.whitelist /\ sender \notin layer.friends
        /\ layer.chatWhitelist

Passes(message) == message.sender = Server \/ ~IsUserBlocked(message.sender)

(* The messages that are shown, in their order.                            *)
Passing(messages) ==
  LET passing[n \in 0..Len(messages)] ==
        IF n = 0 THEN <<>>
        ELSE IF Passes(messages[n]) THEN Append(passing[n - 1], messages[n])
        ELSE passing[n - 1]
  IN passing[Len(messages)]

Chosen(sender) == IF sender \in Players THEN decision[sender] ELSE "none"

(* A ChatMessage in the box.  decided is what the user had chosen for its  *)
(* sender when it was put there.                                           *)
ChatMessage(message) ==
  [lines |-> Len(MessageLines(message.text, message.sender)),
   heardIn |-> message.heardIn, decided |-> Chosen(message.sender),
   visible |-> TRUE]

(* Faulty: removes one when there is one too many already.                 *)
PushTooMany(box, new) ==
  LET all == box \o new
  IN IF Len(all) <= Cap + 1 THEN all ELSE SubSeq(all, Len(all) - Cap, Len(all))

(* The message list takes the oldest out of the box.                       *)
PushAll(box, new) ==
  LET all == box \o new
  IN IF Len(all) <= Cap THEN all ELSE SubSeq(all, Len(all) - Cap + 1, Len(all))

(* The column of messages is laid out from below, the newest one first.    *)
Height(box, i) ==
  LET sum[j \in i..Len(box) + 1] ==
        IF j > Len(box) THEN 0 ELSE box[j].lines + sum[j + 1]
  IN sum[i]

Fits(box, i) == Height(box, i) <= BoxLines

HideTooHigh(box) ==
  [i \in DOMAIN box |-> [box[i] EXCEPT !.visible = Fits(box, i)]]

SetAllVisible(box, visible) ==
  [i \in DOMAIN box |-> [box[i] EXCEPT !.visible = visible]]

-----------------------------------------------------------------------------
Init ==
  /\ queue = <<>>
  /\ saved = [blacklist |-> <<>>, whitelist |-> <<>>]
  /\ layer = None /\ popup = None
  /\ delegate = None /\ fetches = 0
  /\ levels = 0 /\ crashed = FALSE
  /\ decision = [p \in Players |-> "none"] /\ allowedLost = FALSE

(* recvThread.  The model notes in which level a message arrives.          *)
ReceiveMessage(sender, text) ==
  /\ Len(queue) < MaxQueue
  /\ queue' = Append(queue, [sender |-> sender, text |-> text,
                             heardIn |-> IF layer = None THEN None ELSE layer.level])
  /\ UNCHANGED <<saved, layer, popup, delegate, fetches, levels, crashed,
                 decision, allowedLost>>

(* Faulty: messages that came before are not cleared.                      *)
KeepMessages(chat, onlyAllowed) ==
  /\ layer = None /\ levels < MaxLevels
  /\ levels' = levels + 1
  /\ layer' = Layer(levels + 1, chat, onlyAllowed,
                    IF chat THEN ParseIdList(saved.blacklist) ELSE {},
                    IF chat THEN ParseIdList(saved.whitelist) ELSE {})
  /\ delegate' = IF chat THEN levels + 1 ELSE delegate
  /\ fetches' = IF chat THEN fetches + 1 ELSE fetches
  /\ UNCHANGED <<queue, saved, popup, crashed, decision, allowedLost>>

(* PlayLayer's init.  Without the setting there is no chat box, and the    *)
(* lists are not read.                                                     *)
EnterLevel(chat, onlyAllowed) ==
  /\ layer = None /\ levels < MaxLevels
  /\ queue' = <<>>
  /\ levels' = levels + 1
  /\ layer' = Layer(levels + 1, chat, onlyAllowed,
                    IF chat THEN ParseIdList(saved.blacklist) ELSE {},
                    IF chat THEN ParseIdList(saved.whitelist) ELSE {})
  /\ delegate' = IF chat THEN levels + 1 ELSE delegate
  /\ fetches' = IF chat THEN fetches + 1 ELSE fetches
  /\ UNCHANGED <<saved, popup, crashed, decision, allowedLost>>

(* onQuit clears another delegate, m_levelManagerDelegate.                 *)
Quit ==
  /\ layer # None
  /\ layer' = None /\ popup' = None
  /\ UNCHANGED <<queue, saved, delegate, fetches, levels, crashed, decision,
                 allowedLost>>

(* The game calls the delegate, if there is one, when the list is there,   *)
(* and when it cannot be had.  In a layer that is no more, anything may    *)
(* come of it.                                                             *)
FriendListAnswered(ids) ==
  /\ fetches > 0
  /\ fetches' = fetches - 1 /\ delegate' = None
  /\ IF layer # None /\ delegate = layer.level
       THEN layer' = [layer EXCEPT !.friends = @ \cup ids] /\ UNCHANGED crashed
       ELSE crashed' \in (IF delegate = None THEN {FALSE} ELSE BOOLEAN)
            /\ UNCHANGED layer
  /\ UNCHANGED <<queue, saved, popup, levels, decision, allowedLost>>

-----------------------------------------------------------------------------
(* updateMessages, in a frame.                                             *)
UpdateMessages ==
  /\ layer # None /\ layer.expanded /\ queue # <<>>
  /\ queue' = <<>>
  /\ LET passing == Passing(queue)
         new == [i \in DOMAIN passing |-> ChatMessage(passing[i])]
     IN IF layer.chat
          THEN /\ layer' = [layer EXCEPT !.box = HideTooHigh(PushAll(@, new))]
               /\ UNCHANGED crashed
          ELSE crashed' = TRUE /\ UNCHANGED layer
  /\ allowedLost' = (allowedLost
       \/ \E i \in DOMAIN queue : Chosen(queue[i].sender) = "allow" /\ ~Passes(queue[i]))
  /\ UNCHANGED <<saved, popup, delegate, fetches, levels, decision>>

(* Faulty: the messages are not shown again.                               *)
ToggleHides ==
  /\ layer # None /\ layer.chat
  /\ layer' = [layer EXCEPT !.expanded = ~@, !.box = SetAllVisible(@, FALSE)]
  /\ UNCHANGED <<queue, saved, popup, delegate, fetches, levels, crashed,
                 decision, allowedLost>>

(* onToggleChat *)
ToggleChat ==
  /\ layer # None /\ layer.chat
  /\ layer' = [layer EXCEPT !.expanded = ~@,
                            !.box = SetAllVisible(@, ~layer.expanded)]
  /\ UNCHANGED <<queue, saved, popup, delegate, fetches, levels, crashed,
                 decision, allowedLost>>

-----------------------------------------------------------------------------
(* The user list, of any players there are; the game goes on below it.     *)
OpenUserList(listed) ==
  /\ layer # None /\ popup = None
  /\ popup' = [p \in listed |-> IsUserBlocked(p)]
  /\ UNCHANGED <<queue, saved, layer, delegate, fetches, levels, crashed,
                 decision, allowedLost>>

CloseUserList ==
  /\ popup # None
  /\ popup' = None
  /\ UNCHANGED <<queue, saved, layer, delegate, fetches, levels, crashed,
                 decision, allowedLost>>

SaveChatUserLists(black, white) ==
  saved' \in [blacklist : IdLists(black), whitelist : IdLists(white)]

(* Faulty: a user who is allowed stays on the list of those who are not.   *)
UnblockOnly(p) ==
  /\ layer' = [layer EXCEPT !.whitelist = @ \cup {p}]
  /\ SaveChatUserLists(layer.blacklist, layer.whitelist \cup {p})

ChatUnblockUser(p) ==
  /\ layer' = [layer EXCEPT !.blacklist = @ \ {p}, !.whitelist = @ \cup {p}]
  /\ SaveChatUserLists(layer.blacklist \ {p}, layer.whitelist \cup {p})

ChatBlockUser(p) ==
  /\ layer' = [layer EXCEPT !.blacklist = @ \cup {p}, !.whitelist = @ \ {p}]
  /\ SaveChatUserLists(layer.blacklist \cup {p}, layer.whitelist \ {p})

(* The button of a cell.                                                   *)
OnBlock(p) ==
  /\ popup # None /\ p \in DOMAIN popup
  /\ popup' = [popup EXCEPT ![p] = ~@]
  /\ IF popup'[p] THEN ChatBlockUser(p) ELSE ChatUnblockUser(p)
  /\ decision' = [decision EXCEPT ![p] = IF popup'[p] THEN "block" ELSE "allow"]
  /\ UNCHANGED <<queue, delegate, fetches, levels, crashed, allowedLost>>

-----------------------------------------------------------------------------
FromOutside ==
  \/ \E sender \in Players \cup {Self, Server}, text \in Texts :
       ReceiveMessage(sender, text)
  \/ \E ids \in {Friends, {}} : FriendListAnswered(ids)

ByUser ==
  \/ \E chat \in ChatSettings, onlyAllowed \in BOOLEAN : EnterLevel(chat, onlyAllowed)
  \/ Quit
  \/ ToggleChat
  \/ \E listed \in SUBSET Players : OpenUserList(listed)
  \/ CloseUserList
  \/ \E p \in Players : OnBlock(p)

Next == ~crashed /\ (FromOutside \/ UpdateMessages \/ ByUser)

Spec == Init /\ [][Next]_vars
=============================================================================
