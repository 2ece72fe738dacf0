--------------------------- MODULE ChatProperties ---------------------------
(***************************************************************************)
(* What should hold of the chat modelled in Chat.                          *)
(***************************************************************************)
EXTENDS Chat

Messages ==
  [sender : Players \cup {Self, Server}, text : Texts,
   heardIn : Nat \cup {None}]

Shown ==
  [lines : 1..3, heardIn : Nat \cup {None},
   decided : {"none", "block", "allow"}, visible : BOOLEAN]

Layers ==
  [level : Nat, chat : BOOLEAN, chatWhitelist : BOOLEAN,
   blacklist : SUBSET Players, whitelist : SUBSET Players,
   friends : SUBSET Players, expanded : BOOLEAN, box : Seq(Shown)]

ASSUME NoLayerIsNone == None \notin Layers

(* Types. *)
TypeOK ==
  /\ queue \in Seq(Messages)
  /\ DOMAIN saved = {"blacklist", "whitelist"}
  /\ \A list \in DOMAIN saved : saved[list] \in Seq(Players)
  /\ layer \in Layers \cup {None}
  /\ \/ popup = None
     \/ \E listed \in SUBSET Players : popup \in [listed -> BOOLEAN]
  /\ delegate \in Nat \cup {None} /\ fetches \in Nat /\ levels \in Nat
  /\ crashed \in BOOLEAN /\ allowedLost \in BOOLEAN
  /\ decision \in [Players -> {"none", "block", "allow"}]

(* What the user chose in the user list is kept, in this level and in the  *)
(* next ones: a message of a blocked player is not shown, whether it came  *)
(* before the player was blocked or after, and whoever the player is; one  *)
(* of a player who was allowed is not dropped; and neither the layer nor   *)
(* the mod's saved values have a player on both lists.                     *)
BlockedNotShown ==
  layer # None => \A i \in DOMAIN layer.box : layer.box[i].decided # "block"

AllowedHeard == ~allowedLost

ListsApart ==
  /\ layer # None => layer.blacklist \cap layer.whitelist = {}
  /\ ParseIdList(saved.blacklist) \cap ParseIdList(saved.whitelist) = {}

DecisionHonoured == BlockedNotShown /\ AllowedHeard /\ ListsApart

(* The chat box does not grow, and has messages of this level only.  While *)
(* it is closed it shows nothing; opened, it shows its newest message and  *)
(* all others that fit.                                                    *)
BoxOfThisLevel ==
  layer # None =>
    /\ Len(layer.box) <= Cap
    /\ \A i \in DOMAIN layer.box :
         /\ layer.box[i].heardIn = layer.level
         /\ IF layer.expanded
              THEN Fits(layer.box, i) => layer.box[i].visible
              ELSE ~layer.box[i].visible

LinesOf(text, sender) ==
  LET lines == MessageLines(text, sender)
      max == <<FirstLineWidth(sender), LineWidth>>
  IN /\ FlattenSeq(lines) = text
     /\ \A i \in DOMAIN lines \cap {1, 2} :
          /\ lines[i] # <<>> => Width(Front(lines[i])) < max[i]
          /\ i < Len(lines) => Width(lines[i]) >= max[i]

(* The lines of a message have all of its characters in order, and one     *)
(* that another follows is the shortest start of what is left that reaches *)
(* its width.  That is not what the comment on findLowerCharacterBound     *)
(* says ("the max number of characters we can render from the string given *)
(* max width", chat_message.cpp:17): unless the width is met exactly, the  *)
(* line has one character more than fits.  It is looked at before anything *)
(* is received, and for more texts than are sent.                          *)
LinesFaithful ==
  levels = 0 /\ queue = <<>> =>
    \A text \in UNION {[1..n -> 1..2] : n \in 0..6},
       sender \in Players \cup {Self, Server} : LinesOf(text, sender)
=============================================================================
