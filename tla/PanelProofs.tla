----------------------------- MODULE PanelProofs -----------------------------
(***************************************************************************)
(* The popup of Panel for any number of popups and messages, and what the  *)
(* window shows for every report a controller can send.                    *)
(*                                                                         *)
(* That applet and compositor agree rests on the order of the commands on  *)
(* their way: before each popup that is to be shown all earlier ones are   *)
(* to be destroyed, none is shown again after it was destroyed, and a      *)
(* popup whose end is announced is neither shown nor about to be.  That    *)
(* the ages are fresh rests on the timer's running down while they grow.   *)
(* What is shown is computed from bytes: the parser undoes the encoding,   *)
(* signals and getters agree, and the codes survive the bus.               *)
(***************************************************************************)
EXTENDS Panel, SequenceTheorems, FiniteSetTheorems, WellFoundedInduction, TLAPS

Command == [op : {"get", "destroy"}, id : Nat]

Message ==
  {TogglePopup, Tick} \cup {CloseRequested(id) : id \in Nat}
    \cup {StateMessage(a) : a \in Arrivals \cup {Unreachable}}

Ends(m, id) == m.kind = "close" /\ m.id = id
Gets(i, id) == commands[i].op = "get" /\ commands[i].id = id
Destroys(i, id) == commands[i].op = "destroy" /\ commands[i].id = id

PopupTyped ==
  /\ popup \in Nat \cup {None}
  /\ ids \in Nat
  /\ commands \in Seq(Command)
  /\ messages \in Seq(Message)
  /\ surfaces \subseteq Nat

\* An id is used for one popup only.
IdsAreFresh ==
  /\ popup # None => popup <= ids
  /\ \A id \in surfaces : id <= ids
  /\ \A i \in DOMAIN commands : commands[i].id <= ids
  /\ \A id \in Nat : Ended(id) => id <= ids

\* Whatever is on the screen goes before a popup comes.
OneAtATime ==
  /\ \A a, b \in surfaces : a = b
  /\ \A i \in DOMAIN commands, a \in surfaces, b \in Nat :
       Gets(i, b) => \E j \in DOMAIN commands : j < i /\ Destroys(j, a)
  /\ \A i, j \in DOMAIN commands, a, b \in Nat :
       i < j /\ Gets(i, a) /\ Gets(j, b) =>
         \E k \in DOMAIN commands : i < k /\ k < j /\ Destroys(k, a)

\* A popup that the applet does not know any more is being destroyed.
NoneIsLeft ==
  /\ \A id \in surfaces :
       popup = id \/ \E i \in DOMAIN commands : Destroys(i, id)
  /\ \A i \in DOMAIN commands, id \in Nat :
       Gets(i, id) =>
         popup = id \/ \E j \in DOMAIN commands : i < j /\ Destroys(j, id)

\* The one it knows is not, and none comes back.
DestroyedForGood ==
  \A i \in DOMAIN commands, id \in Nat :
    Destroys(i, id) =>
      /\ popup # id
      /\ \A j \in DOMAIN commands : i < j => ~Gets(j, id)

\* What is said to have ended is not on the screen, nor on its way there.
EndsAreTrue ==
  \A id \in Nat :
    Ended(id) => /\ id \notin surfaces
                 /\ \A i \in DOMAIN commands : ~Gets(i, id)

\* The popup the applet knows is there, or coming, or its end announced.
KnownIsSomewhere ==
  popup # None =>
    \/ popup \in surfaces \/ Ended(popup)
    \/ \E i \in DOMAIN commands : Gets(i, popup)

PopupInv ==
  /\ PopupTyped /\ IdsAreFresh /\ OneAtATime /\ NoneIsLeft
  /\ DestroyedForGood /\ EndsAreTrue /\ KnownIsSomewhere

-----------------------------------------------------------------------------
(* The queues *)

\* The announced ends, when a message comes and when one is handled.
LEMMA EndedAppend ==
  ASSUME PopupTyped, NEW m \in Message, messages' = Append(messages, m),
         NEW id \in Nat
  PROVE  /\ messages' \in Seq(Message)
         /\ Ended(id)' <=> Ended(id) \/ Ends(m, id)
<1>1. /\ DOMAIN messages = 1..Len(messages) /\ Len(messages) \in Nat
      /\ DOMAIN messages' = 1..Len(messages) + 1
      /\ messages' \in Seq(Message) /\ messages'[Len(messages) + 1] = m
      /\ \A i \in 1..Len(messages) : messages'[i] = messages[i]
  BY AppendProperties DEF PopupTyped
<1> QED
  BY <1>1 DEF Ended, Ends

LEMMA EndedTail ==
  ASSUME PopupTyped, messages # <<>>, messages' = Tail(messages),
         NEW id \in Nat
  PROVE  /\ messages' \in Seq(Message)
         /\ Ended(id) <=> Ended(id)' \/ Ends(Head(messages), id)
<1>1. /\ DOMAIN messages = 1..Len(messages) /\ Len(messages) \in Nat \ {0}
      /\ DOMAIN messages' = 1..(Len(messages) - 1)
      /\ messages' \in Seq(Message) /\ Head(messages) = messages[1]
      /\ \A i \in 1..(Len(messages) - 1) : messages'[i] = messages[i + 1]
  BY HeadTailProperties, EmptySeq, LenProperties DEF PopupTyped
<1>2. Ended(id)' => Ended(id)
  BY <1>1 DEF Ended, Ends
<1>3. Ends(Head(messages), id) => Ended(id)
  BY <1>1 DEF Ended, Ends
<1>4. Ended(id) => Ended(id)' \/ Ends(Head(messages), id)
  <2> SUFFICES ASSUME NEW i \in 1..Len(messages),
                      Ends(messages[i], id), i # 1
               PROVE  Ended(id)'
    BY <1>1 DEF Ended, Ends
  <2>1. i - 1 \in DOMAIN messages' /\ messages'[i - 1] = messages[i]
    BY <1>1
  <2> QED
    BY <2>1 DEF Ended, Ends
<1> QED
  BY <1>1, <1>2, <1>3, <1>4

\* A command that is given, and one that is carried out.
LEMMA CommandsAppend ==
  ASSUME PopupTyped, NEW c \in Command, commands' = Append(commands, c)
  PROVE  /\ commands' \in Seq(Command)
         /\ \E n \in Nat :
              /\ DOMAIN commands' = DOMAIN commands \cup {n}
              /\ ~(n < n)
              /\ \A i \in DOMAIN commands : i < n /\ ~(n < i)
              /\ \A id : /\ Gets(n, id)' <=> c.op = "get" /\ c.id = id
                         /\ Destroys(n, id)' <=> c.op = "destroy" /\ c.id = id
              /\ \A i \in DOMAIN commands : \A id :
                   /\ Gets(i, id)' <=> Gets(i, id)
                   /\ Destroys(i, id)' <=> Destroys(i, id)
<1>0. PICK n \in Nat : n = Len(commands) + 1
  BY LenProperties DEF PopupTyped
<1>1. /\ Len(commands) \in Nat /\ n = Len(commands) + 1
      /\ DOMAIN commands = 1..Len(commands)
      /\ DOMAIN commands' = 1..n
      /\ commands' \in Seq(Command)
      /\ commands'[n] = c
      /\ \A i \in 1..Len(commands) : commands'[i] = commands[i]
  BY <1>0, AppendProperties DEF PopupTyped
<1>2. /\ n \in Nat /\ ~(n < n)
      /\ DOMAIN commands' = DOMAIN commands \cup {n}
      /\ \A i \in DOMAIN commands : i < n /\ ~(n < i)
  BY <1>1
<1>3. \A i \in DOMAIN commands : \A id :
        /\ Gets(i, id)' <=> Gets(i, id)
        /\ Destroys(i, id)' <=> Destroys(i, id)
  BY <1>1 DEF Gets, Destroys
<1>4. \A id : /\ Gets(n, id)' <=> c.op = "get" /\ c.id = id
              /\ Destroys(n, id)' <=> c.op = "destroy" /\ c.id = id
  BY <1>1 DEF Gets, Destroys
<1> QED
  BY <1>1, <1>2, <1>3, <1>4, Zenon

LEMMA CommandsTail ==
  ASSUME PopupTyped, commands # <<>>, commands' = Tail(commands)
  PROVE  /\ commands' \in Seq(Command)
         /\ 1 \in DOMAIN commands /\ Head(commands) = commands[1]
         /\ Head(commands) \in Command
         /\ \A i \in DOMAIN commands :
              i \in Nat /\ (i = 1 \/ (1 < i /\ i - 1 \in DOMAIN commands'))
         /\ \A i \in DOMAIN commands' :
              i \in Nat \ {0} /\ i + 1 \in DOMAIN commands
         /\ \A i \in DOMAIN commands' : \A id :
              /\ Gets(i, id)' <=> Gets(i + 1, id)
              /\ Destroys(i, id)' <=> Destroys(i + 1, id)
<1>1. /\ Len(commands) \in Nat \ {0}
      /\ DOMAIN commands = 1..Len(commands)
      /\ DOMAIN commands' = 1..(Len(commands) - 1)
      /\ commands' \in Seq(Command)
      /\ Head(commands) = commands[1] /\ Head(commands) \in Command
      /\ \A i \in DOMAIN commands' : commands'[i] = commands[i + 1]
  BY HeadTailProperties, EmptySeq, LenProperties DEF PopupTyped
<1> QED
  BY <1>1 DEF Gets, Destroys


-----------------------------------------------------------------------------
(* The popup *)

\* Messages of other kinds than ends do not matter.
LEMMA MessagesOnly ==
  ASSUME PopupInv, UNCHANGED <<popup, ids, commands, surfaces>>,
         messages' \in Seq(Message),
         \A id \in Nat : Ended(id)' => Ended(id),
         \A id \in Nat : popup = id /\ Ended(id) => Ended(id)'
  PROVE  PopupInv'
<1>1. PopupTyped'
  BY DEF PopupInv, PopupTyped
<1>2. IdsAreFresh'
  BY DEF PopupInv, IdsAreFresh
<1>3. OneAtATime' /\ NoneIsLeft' /\ DestroyedForGood'
  BY DEF PopupInv, OneAtATime, NoneIsLeft, DestroyedForGood, Gets, Destroys
<1>4. EndsAreTrue'
  BY DEF PopupInv, EndsAreTrue, Gets
<1>5. KnownIsSomewhere'
  BY DEF PopupInv, PopupTyped, KnownIsSomewhere, Gets
<1> QED
  BY <1>1, <1>2, <1>3, <1>4, <1>5 DEF PopupInv

\* A press with the popup open.
LEMMA CloseByPress ==
  ASSUME PopupInv, popup # None, popup' = None,
         commands' = Append(commands, [op |-> "destroy", id |-> popup]),
         UNCHANGED <<ids, surfaces>>, messages' \in Seq(Message),
         \A id \in Nat : Ended(id)' => Ended(id)
  PROVE  PopupInv'
<1> DEFINE c == [op |-> "destroy", id |-> popup]
<1>1. PopupTyped /\ popup \in Nat /\ None \notin Nat
  BY PanelAssumption DEF PopupInv, PopupTyped
<1>2. c \in Command /\ c.op = "destroy" /\ c.op # "get" /\ c.id = popup
  BY <1>1 DEF Command
<1> HIDE DEF c
<1>3. commands' \in Seq(Command)
  BY <1>1, <1>2, CommandsAppend DEF c
<1>4. PICK n \in Nat :
        /\ DOMAIN commands' = DOMAIN commands \cup {n}
        /\ ~(n < n)
        /\ \A i \in DOMAIN commands : i < n /\ ~(n < i)
        /\ \A id : /\ Gets(n, id)' <=> c.op = "get" /\ c.id = id
                   /\ Destroys(n, id)' <=> c.op = "destroy" /\ c.id = id
        /\ \A i \in DOMAIN commands : \A id :
             /\ Gets(i, id)' <=> Gets(i, id)
             /\ Destroys(i, id)' <=> Destroys(i, id)
  BY <1>1, <1>2, CommandsAppend DEF c
<1>5. /\ DOMAIN commands' = DOMAIN commands \cup {n}
      /\ ~(n < n)
      /\ \A i \in DOMAIN commands : i < n /\ ~(n < i)
      /\ \A id : ~Gets(n, id)' /\ (Destroys(n, id)' <=> id = popup)
      /\ \A i \in DOMAIN commands : \A id :
           /\ Gets(i, id)' <=> Gets(i, id)
           /\ Destroys(i, id)' <=> Destroys(i, id)
  BY <1>2, <1>4
<1>6. PopupTyped'
  BY <1>3 DEF PopupInv, PopupTyped
<1>7. IdsAreFresh'
  BY <1>1, <1>5 DEF PopupInv, IdsAreFresh
<1>8. OneAtATime'
  BY <1>5 DEF PopupInv, OneAtATime
<1>9. NoneIsLeft'
  <2>1. \A id \in surfaces : \E i \in DOMAIN commands' : Destroys(i, id)'
    BY <1>5 DEF PopupInv, NoneIsLeft
  <2>2. \A i \in DOMAIN commands', id \in Nat :
          Gets(i, id)' => \E j \in DOMAIN commands' : i < j /\ Destroys(j, id)'
    BY <1>5 DEF PopupInv, NoneIsLeft
  <2> QED
    BY <2>1, <2>2 DEF NoneIsLeft
<1>10. DestroyedForGood'
  BY <1>1, <1>5 DEF PopupInv, DestroyedForGood
<1>11. EndsAreTrue'
  BY <1>5 DEF PopupInv, EndsAreTrue
<1>12. KnownIsSomewhere'
  BY DEF KnownIsSomewhere
<1> QED
  BY <1>6, <1>7, <1>8, <1>9, <1>10, <1>11, <1>12 DEF PopupInv

\* A press with no popup.
LEMMA OpenByPress ==
  ASSUME PopupInv, popup = None, ids' = ids + 1, popup' = ids + 1,
         commands' = Append(commands, [op |-> "get", id |-> ids + 1]),
         UNCHANGED surfaces, messages' \in Seq(Message),
         \A id \in Nat : Ended(id)' => Ended(id)
  PROVE  PopupInv'
<1> DEFINE c == [op |-> "get", id |-> ids + 1]
<1>1. /\ PopupTyped /\ ids \in Nat /\ None \notin Nat
      /\ surfaces \subseteq Nat
  BY PanelAssumption DEF PopupInv, PopupTyped
<1>2. c \in Command /\ c.op = "get" /\ c.op # "destroy" /\ c.id = popup'
  BY <1>1 DEF Command
<1> HIDE DEF c
<1>3. commands' \in Seq(Command)
  BY <1>1, <1>2, CommandsAppend DEF c
<1>4. PICK n \in Nat :
        /\ DOMAIN commands' = DOMAIN commands \cup {n}
        /\ ~(n < n)
        /\ \A i \in DOMAIN commands : i < n /\ ~(n < i)
        /\ \A id : /\ Gets(n, id)' <=> c.op = "get" /\ c.id = id
                   /\ Destroys(n, id)' <=> c.op = "destroy" /\ c.id = id
        /\ \A i \in DOMAIN commands : \A id :
             /\ Gets(i, id)' <=> Gets(i, id)
             /\ Destroys(i, id)' <=> Destroys(i, id)
  BY <1>1, <1>2, CommandsAppend DEF c
<1>5. /\ DOMAIN commands' = DOMAIN commands \cup {n}
      /\ ~(n < n)
      /\ \A i \in DOMAIN commands : i < n /\ ~(n < i)
      /\ \A id : ~Destroys(n, id)' /\ (Gets(n, id)' <=> id = popup')
      /\ \A i \in DOMAIN commands : \A id :
           /\ Gets(i, id)' <=> Gets(i, id)
           /\ Destroys(i, id)' <=> Destroys(i, id)
  BY <1>2, <1>4
<1>6. /\ popup' # None /\ popup' \in Nat
      /\ \A id \in Nat : id <= ids => id <= ids' /\ id # popup'
  BY <1>1
<1>7. \A i \in DOMAIN commands : commands[i].id \in Nat
  <2>1. \A i \in DOMAIN commands : commands[i] \in Command
    BY <1>1 DEF PopupTyped
  <2> QED
    BY <2>1 DEF Command
<1>8. /\ \A id \in surfaces : id # popup'
      /\ \A i \in DOMAIN commands : \A id :
           Gets(i, id) \/ Destroys(i, id) => id # popup'
      /\ \A id \in Nat : Ended(id) => id # popup'
  <2>1. \A id \in surfaces : id # popup'
    BY <1>1, <1>6 DEF PopupInv, IdsAreFresh
  <2>2. \A i \in DOMAIN commands : commands[i].id # popup'
    BY <1>6, <1>7 DEF PopupInv, IdsAreFresh
  <2>3. \A id \in Nat : Ended(id) => id # popup'
    BY <1>6 DEF PopupInv, IdsAreFresh
  <2> QED
    BY <2>1, <2>2, <2>3 DEF Gets, Destroys
<1>9. PopupTyped'
  BY <1>1, <1>3 DEF PopupInv, PopupTyped
<1>10. IdsAreFresh'
  BY <1>1, <1>5, <1>6, <1>7 DEF PopupInv, IdsAreFresh
<1>11. OneAtATime'
  <2>1. \A a \in surfaces : \E j \in DOMAIN commands : Destroys(j, a)
    BY <1>1 DEF PopupInv, NoneIsLeft
  <2>2. \A i \in DOMAIN commands, a \in Nat : Gets(i, a) =>
          \E j \in DOMAIN commands : i < j /\ Destroys(j, a)
    BY <1>1 DEF PopupInv, NoneIsLeft
  <2>3. \A i \in DOMAIN commands', a \in surfaces, b \in Nat :
          Gets(i, b)' => \E j \in DOMAIN commands' : j < i /\ Destroys(j, a)'
    BY <1>5, <2>1 DEF PopupInv, OneAtATime
  <2>4. \A i, j \in DOMAIN commands', a, b \in Nat :
          i < j /\ Gets(i, a)' /\ Gets(j, b)' =>
            \E k \in DOMAIN commands' : i < k /\ k < j /\ Destroys(k, a)'
    BY <1>5, <2>2 DEF PopupInv, OneAtATime
  <2> QED
    BY <2>3, <2>4 DEF PopupInv, OneAtATime
<1>12. NoneIsLeft'
  <2>1. \A id \in surfaces : \E i \in DOMAIN commands' : Destroys(i, id)'
    BY <1>1, <1>5 DEF PopupInv, NoneIsLeft
  <2>2. \A i \in DOMAIN commands', id \in Nat :
          Gets(i, id)' =>
            popup' = id \/ \E j \in DOMAIN commands' : i < j /\ Destroys(j, id)'
    BY <1>1, <1>5 DEF PopupInv, NoneIsLeft
  <2> QED
    BY <2>1, <2>2 DEF NoneIsLeft
<1>13. DestroyedForGood'
  BY <1>5, <1>8 DEF PopupInv, DestroyedForGood
<1>14. EndsAreTrue'
  BY <1>5, <1>8 DEF PopupInv, EndsAreTrue
<1>15. KnownIsSomewhere'
  BY <1>5, <1>6 DEF KnownIsSomewhere
<1> QED
  BY <1>9, <1>10, <1>11, <1>12, <1>13, <1>14, <1>15 DEF PopupInv

\* The end of the popup is told: it is not on the screen and will not be.
LEMMA ToldOfEnd ==
  ASSUME PopupInv, popup # None, Ended(popup), popup' = None,
         UNCHANGED <<ids, commands, surfaces>>, messages' \in Seq(Message),
         \A id \in Nat : Ended(id)' => Ended(id)
  PROVE  PopupInv'
<1>1. popup \in Nat /\ None \notin Nat
  BY PanelAssumption DEF PopupInv, PopupTyped
<1>2. popup \notin surfaces /\ \A i \in DOMAIN commands : ~Gets(i, popup)
  BY <1>1 DEF PopupInv, EndsAreTrue
<1>3. PopupTyped' /\ IdsAreFresh'
  BY DEF PopupInv, PopupTyped, IdsAreFresh
<1>4. OneAtATime'
  <2>1. \A i, id : /\ Gets(i, id)' <=> Gets(i, id)
                   /\ Destroys(i, id)' <=> Destroys(i, id)
    BY DEF Gets, Destroys
  <2> QED
    BY <2>1 DEF PopupInv, OneAtATime
<1>5. NoneIsLeft'
  <2>1. \A id \in surfaces : \E i \in DOMAIN commands : Destroys(i, id)
    BY <1>2 DEF PopupInv, NoneIsLeft
  <2>2. \A i \in DOMAIN commands, id \in Nat :
          Gets(i, id) => \E j \in DOMAIN commands : i < j /\ Destroys(j, id)
    BY <1>2 DEF PopupInv, NoneIsLeft
  <2> QED
    BY <2>1, <2>2 DEF NoneIsLeft, Gets, Destroys
<1>6. DestroyedForGood'
  BY <1>1 DEF PopupInv, DestroyedForGood, Gets, Destroys
<1>7. EndsAreTrue' /\ KnownIsSomewhere'
  BY DEF PopupInv, EndsAreTrue, KnownIsSomewhere, Gets
<1> QED
  BY <1>3, <1>4, <1>5, <1>6, <1>7 DEF PopupInv

\* What is carried out first moves all others up.
LEMMA Moved ==
  ASSUME PopupTyped, commands # <<>>, commands' = Tail(commands)
  PROVE  /\ \A i \in DOMAIN commands' : \A id :
              Gets(i, id)' => Gets(i + 1, id) /\ 1 < i + 1
                              /\ i + 1 \in DOMAIN commands
         /\ \A i \in DOMAIN commands' : \A id :
              Destroys(i, id)' => Destroys(i + 1, id) /\ 1 < i + 1
                                  /\ i + 1 \in DOMAIN commands
         /\ \A j \in DOMAIN commands : \A id :
              Destroys(j, id) /\ ~Destroys(1, id) =>
                j - 1 \in DOMAIN commands' /\ Destroys(j - 1, id)'
         /\ \A j \in DOMAIN commands : \A id :
              Destroys(j, id) /\ 1 < j =>
                j - 1 \in DOMAIN commands' /\ Destroys(j - 1, id)'
         /\ \A j \in DOMAIN commands : \A id :
              Gets(j, id) /\ ~Gets(1, id) =>
                j - 1 \in DOMAIN commands' /\ Gets(j - 1, id)'
         /\ DOMAIN commands \subseteq Nat /\ DOMAIN commands' \subseteq Nat
<1>1. \A j \in DOMAIN commands :
        j \in Nat /\ (j = 1 \/ (1 < j /\ j - 1 \in DOMAIN commands'
                                /\ (j - 1) + 1 = j))
  BY CommandsTail
<1> QED
  BY <1>1, CommandsTail

\* The order of the commands that remain.
LEMMA OrderStays ==
  ASSUME PopupInv, commands # <<>>, commands' = Tail(commands)
  PROVE  /\ \A i, j \in DOMAIN commands', a, b \in Nat :
              i < j /\ Gets(i, a)' /\ Gets(j, b)' =>
                \E k \in DOMAIN commands' : i < k /\ k < j /\ Destroys(k, a)'
         /\ UNCHANGED popup =>
              \A i \in DOMAIN commands', id \in Nat :
                Gets(i, id)' =>
                  popup' = id
                  \/ \E j \in DOMAIN commands' : i < j /\ Destroys(j, id)'
         /\ UNCHANGED popup => DestroyedForGood'
<1>1. PopupTyped
  BY DEF PopupInv
<1>2. ASSUME NEW i \in DOMAIN commands', NEW j \in DOMAIN commands',
             NEW a \in Nat, NEW b \in Nat,
             i < j, Gets(i, a)', Gets(j, b)'
      PROVE  \E k \in DOMAIN commands' : i < k /\ k < j /\ Destroys(k, a)'
  <2>1. /\ i \in Nat /\ j \in Nat /\ 1 < i + 1 /\ i + 1 < j + 1
        /\ i + 1 \in DOMAIN commands /\ j + 1 \in DOMAIN commands
        /\ Gets(i + 1, a) /\ Gets(j + 1, b)
    BY <1>1, <1>2, Moved
  <2>2. PICK k \in DOMAIN commands : i + 1 < k /\ k < j + 1 /\ Destroys(k, a)
    BY <2>1 DEF PopupInv, OneAtATime
  <2>3. k \in Nat /\ 1 < k
    BY <1>1, <2>1, <2>2, Moved
  <2>4. k - 1 \in DOMAIN commands' /\ Destroys(k - 1, a)'
    BY <1>1, <2>2, <2>3, Moved
  <2>5. i < k - 1 /\ k - 1 < j
    BY <2>1, <2>2, <2>3
  <2> QED
    BY <2>4, <2>5
<1>3. ASSUME UNCHANGED popup, NEW i \in DOMAIN commands', NEW id \in Nat,
             Gets(i, id)', popup' # id
      PROVE  \E j \in DOMAIN commands' : i < j /\ Destroys(j, id)'
  <2>1. /\ i \in Nat /\ i + 1 \in DOMAIN commands /\ Gets(i + 1, id)
    BY <1>1, <1>3, Moved
  <2>2. PICK j \in DOMAIN commands : i + 1 < j /\ Destroys(j, id)
    BY <1>3, <2>1 DEF PopupInv, NoneIsLeft
  <2>3. j \in Nat /\ 1 < j
    BY <1>1, <2>1, <2>2, Moved
  <2>4. j - 1 \in DOMAIN commands' /\ Destroys(j - 1, id)'
    BY <1>1, <2>2, <2>3, Moved
  <2>5. i < j - 1
    BY <2>1, <2>2, <2>3
  <2> QED
    BY <2>4, <2>5
<1>4. ASSUME UNCHANGED popup, NEW i \in DOMAIN commands', NEW id \in Nat,
             Destroys(i, id)'
      PROVE  /\ popup' # id
             /\ \A j \in DOMAIN commands' : i < j => ~Gets(j, id)'
  <2>1. i \in Nat /\ i + 1 \in DOMAIN commands /\ Destroys(i + 1, id)
    BY <1>1, <1>4, Moved
  <2>2. /\ popup # id
        /\ \A j \in DOMAIN commands : i + 1 < j => ~Gets(j, id)
    BY <2>1 DEF PopupInv, DestroyedForGood
  <2>3. ASSUME NEW j \in DOMAIN commands', i < j, Gets(j, id)'
        PROVE  FALSE
    <3>1. j \in Nat /\ j + 1 \in DOMAIN commands /\ Gets(j + 1, id)
      BY <1>1, <2>3, Moved
    <3>2. i + 1 < j + 1
      BY <2>1, <2>3, <3>1
    <3> QED
      BY <2>2, <3>1, <3>2
  <2> QED
    BY <1>4, <2>2, <2>3
<1>5. UNCHANGED popup => DestroyedForGood'
  BY <1>4 DEF DestroyedForGood
<1>6. UNCHANGED popup =>
        \A i \in DOMAIN commands', id \in Nat :
          Gets(i, id)' =>
            popup' = id
            \/ \E j \in DOMAIN commands' : i < j /\ Destroys(j, id)'
  BY <1>3
<1> QED
  BY <1>2, <1>5, <1>6

\* The compositor shows a popup: nothing else is on the screen.
LEMMA Shown ==
  ASSUME PopupInv, commands # <<>>, commands' = Tail(commands),
         NEW id, Gets(1, id), surfaces' = surfaces \cup {id},
         UNCHANGED <<popup, ids, messages>>
  PROVE  PopupInv'
<1>1. PopupTyped /\ 1 \in DOMAIN commands /\ commands' \in Seq(Command)
  BY CommandsTail DEF PopupInv
<1>2. id \in Nat /\ id <= ids
  <2>1. commands[1] \in Command
    BY <1>1 DEF PopupTyped
  <2> QED
    BY <1>1, <2>1 DEF PopupInv, IdsAreFresh, Gets, Command
<1>3. surfaces = {}
  <2>1. \A j \in DOMAIN commands : ~(j < 1)
    BY <1>1, CommandsTail
  <2> QED
    BY <1>1, <1>2, <2>1 DEF PopupInv, OneAtATime
<1>4. surfaces' = {id}
  BY <1>3
<1>5. \A e : Ended(e)' <=> Ended(e)
  BY DEF Ended
<1>6. PopupTyped'
  BY <1>1, <1>2, <1>4 DEF PopupInv, PopupTyped
<1>7. IdsAreFresh'
  <2>1. \A i \in DOMAIN commands' : commands'[i].id <= ids
    <3> SUFFICES ASSUME NEW i \in DOMAIN commands'
                 PROVE  commands'[i].id <= ids
      OBVIOUS
    <3>1. commands'[i] = commands[i + 1] /\ i + 1 \in DOMAIN commands
      BY <1>1, HeadTailProperties, CommandsTail DEF PopupTyped
    <3> QED
      BY <3>1 DEF PopupInv, IdsAreFresh
  <2> QED
    BY <1>2, <1>4, <1>5, <2>1 DEF PopupInv, IdsAreFresh
<1>8. OneAtATime'
  <2>1. ASSUME NEW i \in DOMAIN commands', NEW b \in Nat, Gets(i, b)'
        PROVE  \E j \in DOMAIN commands' : j < i /\ Destroys(j, id)'
    <3>1. /\ i \in Nat /\ i + 1 \in DOMAIN commands /\ 1 < i + 1
          /\ Gets(i + 1, b)
      BY <1>1, <2>1, Moved
    <3>2. PICK k \in DOMAIN commands : 1 < k /\ k < i + 1 /\ Destroys(k, id)
      BY <1>1, <1>2, <3>1 DEF PopupInv, OneAtATime
    <3>3. k \in Nat /\ k - 1 \in DOMAIN commands' /\ Destroys(k - 1, id)'
      BY <1>1, <3>2, Moved
    <3>4. k - 1 < i
      BY <3>1, <3>2, <3>3
    <3> QED
      BY <3>3, <3>4
  <2>2. \A i, j \in DOMAIN commands', a, b \in Nat :
          i < j /\ Gets(i, a)' /\ Gets(j, b)' =>
            \E k \in DOMAIN commands' : i < k /\ k < j /\ Destroys(k, a)'
    BY OrderStays
  <2> QED
    BY <1>4, <2>1, <2>2 DEF OneAtATime
<1>9. NoneIsLeft'
  <2>1. popup' = id \/ \E i \in DOMAIN commands' : Destroys(i, id)'
    <3> SUFFICES ASSUME popup # id
                 PROVE  \E i \in DOMAIN commands' : Destroys(i, id)'
      OBVIOUS
    <3>1. PICK j \in DOMAIN commands : 1 < j /\ Destroys(j, id)
      BY <1>1, <1>2 DEF PopupInv, NoneIsLeft
    <3> QED
      BY <1>1, <3>1, Moved
  <2> QED
    BY <1>4, <2>1, OrderStays DEF NoneIsLeft
<1>10. DestroyedForGood'
  BY OrderStays
<1>11. EndsAreTrue'
  <2> SUFFICES ASSUME NEW e \in Nat, Ended(e)
               PROVE  /\ e \notin surfaces'
                      /\ \A i \in DOMAIN commands' : ~Gets(i, e)'
    BY <1>5 DEF EndsAreTrue
  <2>1. \A i \in DOMAIN commands : ~Gets(i, e)
    BY DEF PopupInv, EndsAreTrue
  <2>2. e # id
    BY <1>1, <2>1
  <2> QED
    BY <1>1, <1>4, <2>1, <2>2, Moved
<1>12. KnownIsSomewhere'
  <2> SUFFICES ASSUME popup # None, popup # id
               PROVE  \/ Ended(popup)
                      \/ \E i \in DOMAIN commands' : Gets(i, popup)'
    BY <1>4 DEF KnownIsSomewhere, Gets, Ended
  <2>1. Ended(popup) \/ \E i \in DOMAIN commands : Gets(i, popup)
    BY <1>3 DEF PopupInv, KnownIsSomewhere
  <2>2. ~Gets(1, popup)
    BY DEF Gets
  <2> QED
    BY <1>1, <2>1, <2>2, Moved
<1> QED
  BY <1>6, <1>7, <1>8, <1>9, <1>10, <1>11, <1>12 DEF PopupInv

\* The compositor destroys a popup, and perhaps says so.
LEMMA Destroyed ==
  ASSUME PopupInv, commands # <<>>, commands' = Tail(commands),
         NEW id, Destroys(1, id), surfaces' = surfaces \ {id},
         UNCHANGED <<popup, ids>>, messages' \in Seq(Message),
         \A e \in Nat : Ended(e)' => Ended(e) \/ e = id,
         \A e \in Nat : Ended(e) => Ended(e)'
  PROVE  PopupInv'
<1>1. PopupTyped /\ 1 \in DOMAIN commands /\ commands' \in Seq(Command)
  BY CommandsTail DEF PopupInv
<1>2. id \in Nat /\ id <= ids
  <2>1. commands[1] \in Command
    BY <1>1 DEF PopupTyped
  <2> QED
    BY <1>1, <2>1 DEF PopupInv, IdsAreFresh, Destroys, Command
<1>3. \A e : e # id => ~Destroys(1, e)
  BY DEF Destroys
<1>4. popup # id /\ \A e : ~Gets(1, e)
  BY <1>1, <1>2 DEF PopupInv, DestroyedForGood, Gets, Destroys
<1>5. PopupTyped'
  BY <1>1 DEF PopupInv, PopupTyped
<1>6. IdsAreFresh'
  <2>1. \A i \in DOMAIN commands' : commands'[i].id <= ids
    <3> SUFFICES ASSUME NEW i \in DOMAIN commands'
                 PROVE  commands'[i].id <= ids
      OBVIOUS
    <3>1. commands'[i] = commands[i + 1] /\ i + 1 \in DOMAIN commands
      BY <1>1, HeadTailProperties, CommandsTail DEF PopupTyped
    <3> QED
      BY <3>1 DEF PopupInv, IdsAreFresh
  <2> QED
    BY <1>2, <2>1 DEF PopupInv, IdsAreFresh
<1>7. OneAtATime'
  <2>1. ASSUME NEW i \in DOMAIN commands', NEW a \in surfaces', NEW b \in Nat,
               Gets(i, b)'
        PROVE  \E j \in DOMAIN commands' : j < i /\ Destroys(j, a)'
    <3>1. /\ i \in Nat /\ i + 1 \in DOMAIN commands /\ Gets(i + 1, b)
          /\ a \in surfaces /\ a # id
      BY <1>1, <2>1, Moved
    <3>2. PICK k \in DOMAIN commands : k < i + 1 /\ Destroys(k, a)
      BY <3>1 DEF PopupInv, OneAtATime
    <3>3. k \in Nat /\ k - 1 \in DOMAIN commands' /\ Destroys(k - 1, a)'
      BY <1>1, <1>3, <3>1, <3>2, Moved
    <3>4. k - 1 < i
      BY <3>1, <3>2, <3>3
    <3> QED
      BY <3>3, <3>4
  <2>2. \A i, j \in DOMAIN commands', a, b \in Nat :
          i < j /\ Gets(i, a)' /\ Gets(j, b)' =>
            \E k \in DOMAIN commands' : i < k /\ k < j /\ Destroys(k, a)'
    BY OrderStays
  <2>3. \A a, b \in surfaces' : a = b
    BY DEF PopupInv, OneAtATime
  <2> QED
    BY <2>1, <2>2, <2>3 DEF OneAtATime
<1>8. NoneIsLeft'
  <2>1. ASSUME NEW a \in surfaces', popup' # a
        PROVE  \E i \in DOMAIN commands' : Destroys(i, a)'
    <3>1. PICK j \in DOMAIN commands : Destroys(j, a)
      BY <2>1 DEF PopupInv, NoneIsLeft
    <3> QED
      BY <1>1, <1>3, <3>1, Moved
  <2> QED
    BY <2>1, OrderStays DEF NoneIsLeft
<1>9. DestroyedForGood'
  BY OrderStays
<1>10. EndsAreTrue'
  <2> SUFFICES ASSUME NEW e \in Nat, Ended(e) \/ e = id
               PROVE  /\ e \notin surfaces'
                      /\ \A i \in DOMAIN commands' : ~Gets(i, e)'
    BY DEF EndsAreTrue
  <2>1. CASE e = id
    <3>1. \A j \in DOMAIN commands : 1 < j => ~Gets(j, id)
      BY <1>1, <1>2 DEF PopupInv, DestroyedForGood
    <3> QED
      BY <1>1, <2>1, <3>1, Moved
  <2>2. CASE Ended(e)
    <3>1. e \notin surfaces /\ \A i \in DOMAIN commands : ~Gets(i, e)
      BY <2>2 DEF PopupInv, EndsAreTrue
    <3> QED
      BY <1>1, <3>1, Moved
  <2> QED
    BY <2>1, <2>2
<1>11. KnownIsSomewhere'
  <2> SUFFICES ASSUME popup # None
               PROVE  \/ popup \in surfaces' \/ Ended(popup)'
                      \/ \E i \in DOMAIN commands' : Gets(i, popup)'
    BY DEF KnownIsSomewhere, Gets, Ended
  <2>1. popup \in Nat
    BY <1>1 DEF PopupTyped
  <2>2. \/ popup \in surfaces \/ Ended(popup)
        \/ \E i \in DOMAIN commands : Gets(i, popup)
    BY DEF PopupInv, KnownIsSomewhere
  <2> QED
    BY <1>1, <1>4, <2>1, <2>2, Moved
<1> QED
  BY <1>5, <1>6, <1>7, <1>8, <1>9, <1>10, <1>11 DEF PopupInv

\* The compositor takes a popup off the screen on its own.
LEMMA Dismissed ==
  ASSUME PopupInv, NEW id \in surfaces, surfaces' = surfaces \ {id},
         UNCHANGED <<popup, ids, commands>>, messages' \in Seq(Message),
         \A e \in Nat : Ended(e)' <=> Ended(e) \/ e = id
  PROVE  PopupInv'
<1>1. PopupTyped /\ id \in Nat /\ id <= ids
  BY DEF PopupInv, PopupTyped, IdsAreFresh
<1>2. \A i, e : /\ Gets(i, e)' <=> Gets(i, e)
                /\ Destroys(i, e)' <=> Destroys(i, e)
  BY DEF Gets, Destroys
<1>3. \A i \in DOMAIN commands : ~Gets(i, id)
  <2> SUFFICES ASSUME NEW i \in DOMAIN commands, Gets(i, id)
               PROVE  FALSE
    OBVIOUS
  <2>1. PICK j \in DOMAIN commands : j < i /\ Destroys(j, id)
    BY <1>1 DEF PopupInv, OneAtATime
  <2> QED
    BY <1>1, <2>1 DEF PopupInv, DestroyedForGood
<1>4. PopupTyped' /\ IdsAreFresh'
  BY <1>1 DEF PopupInv, PopupTyped, IdsAreFresh
<1>5. OneAtATime'
  BY <1>2 DEF PopupInv, OneAtATime
<1>6. NoneIsLeft'
  BY <1>2 DEF PopupInv, NoneIsLeft
<1>7. DestroyedForGood'
  BY <1>2 DEF PopupInv, DestroyedForGood
<1>8. EndsAreTrue'
  BY <1>2, <1>3 DEF PopupInv, EndsAreTrue
<1>9. KnownIsSomewhere'
  <2> SUFFICES ASSUME popup # None
               PROVE  \/ popup \in surfaces' \/ Ended(popup)'
                      \/ \E i \in DOMAIN commands : Gets(i, popup)
    BY <1>2 DEF KnownIsSomewhere, Gets, Ended
  <2>1. popup \in Nat
    BY <1>1 DEF PopupTyped
  <2> QED
    BY <2>1 DEF PopupInv, KnownIsSomewhere
<1> QED
  BY <1>4, <1>5, <1>6, <1>7, <1>8, <1>9 DEF PopupInv

-----------------------------------------------------------------------------
(* Every step *)

\* The kinds of messages are told apart by `kind`.
LEMMA Kinds ==
  /\ TogglePopup \in Message /\ Tick \in Message
  /\ \A id \in Nat : CloseRequested(id) \in Message
  /\ \A id : ~Ends(TogglePopup, id) /\ ~Ends(Tick, id)
  /\ \A a, id : ~Ends(StateMessage(a), id)
  /\ \A i, id : Ends(CloseRequested(i), id) <=> i = id
<1>1. /\ \A id : ~Ends(TogglePopup, id) /\ ~Ends(Tick, id)
      /\ \A a, id : ~Ends(StateMessage(a), id)
      /\ \A i, id : Ends(CloseRequested(i), id) <=> i = id
  BY DEF Ends, TogglePopup, Tick, StateMessage, CloseRequested
<1> QED
  BY <1>1 DEF Message

LEMMA PopupInit == Init => PopupInv
<1> SUFFICES ASSUME Init
             PROVE  PopupInv
  OBVIOUS
<1>1. /\ popup = None /\ ids = 0 /\ surfaces = {}
      /\ commands = <<>> /\ messages = <<>>
  BY DEF Init
<1>2. /\ DOMAIN commands = {} /\ DOMAIN messages = {}
      /\ commands \in Seq(Command) /\ messages \in Seq(Message)
  BY <1>1, EmptySeq
<1>3. \A id : ~Ended(id)
  BY <1>2 DEF Ended
<1> QED
  BY <1>1, <1>2, <1>3
  DEF PopupInv, PopupTyped, IdsAreFresh, OneAtATime, NoneIsLeft,
      DestroyedForGood, EndsAreTrue, KnownIsSomewhere

\* A message that ends nothing comes in.
LEMMA Quiet ==
  ASSUME PopupInv, NEW m \in Message, \A id \in Nat : ~Ends(m, id),
         messages' = Append(messages, m),
         UNCHANGED <<popup, ids, commands, surfaces>>
  PROVE  PopupInv'
<1>1. PopupTyped
  BY DEF PopupInv
<1>2. /\ messages' \in Seq(Message)
      /\ \A id \in Nat : Ended(id)' <=> Ended(id) \/ Ends(m, id)
  BY <1>1, EndedAppend
<1>3. /\ \A id \in Nat : Ended(id)' => Ended(id)
      /\ \A id \in Nat : popup = id /\ Ended(id) => Ended(id)'
  BY <1>2
<1> QED
  BY <1>2, <1>3, MessagesOnly

LEMMA PopupUpdate == PopupInv /\ Update => PopupInv'
<1> SUFFICES ASSUME PopupInv, Update
             PROVE  PopupInv'
  OBVIOUS
<1> DEFINE m == Head(messages)
<1>1. /\ PopupTyped /\ messages # <<>> /\ messages' = Tail(messages)
      /\ UNCHANGED surfaces
  BY DEF PopupInv, Update
<1>2. /\ messages' \in Seq(Message) /\ m \in Message
      /\ \A id \in Nat : Ended(id) <=> Ended(id)' \/ Ends(m, id)
  BY <1>1, EndedTail, HeadTailProperties DEF PopupTyped
<1>3. \A id \in Nat : Ended(id)' => Ended(id)
  BY <1>2
<1>4. popup \in Nat \cup {None}
  BY <1>1 DEF PopupTyped
<1>5. CASE m.kind = "toggle" /\ OnToggle
  <2>1. CASE popup # None
    <3>1. /\ popup' = None /\ UNCHANGED ids
          /\ commands' = Append(commands, [op |-> "destroy", id |-> popup])
      BY <1>5, <2>1 DEF OnToggle
    <3> QED
      BY <1>1, <1>2, <1>3, <2>1, <3>1, CloseByPress
  <2>2. CASE popup = None
    <3>1. /\ ids' = ids + 1 /\ popup' = ids + 1
          /\ commands' = Append(commands, [op |-> "get", id |-> ids + 1])
      BY <1>5, <2>2 DEF OnToggle
    <3> QED
      BY <1>1, <1>2, <1>3, <2>2, <3>1, OpenByPress
  <2> QED
    BY <2>1, <2>2
<1>6. CASE m.kind = "close" /\ OnClose(m.id) /\ UNCHANGED <<ids, commands>>
  <2>1. CASE popup = m.id /\ popup # None
    <3>1. popup' = None /\ popup \in Nat /\ Ends(m, popup)
      BY <1>4, <1>6, <2>1 DEF OnClose, Ends
    <3>2. Ended(popup)
      BY <1>2, <3>1
    <3> QED
      BY <1>1, <1>2, <1>3, <1>6, <2>1, <3>1, <3>2, ToldOfEnd
  <2>2. CASE popup # m.id \/ popup = None
    <3>1. UNCHANGED popup
      BY <1>6, <2>2 DEF OnClose
    <3>2. \A id \in Nat : popup = id /\ Ended(id) => Ended(id)'
      <4>1. None \notin Nat
        BY PanelAssumption
      <4> QED
        BY <1>2, <2>2, <4>1 DEF Ends
    <3> QED
      BY <1>1, <1>2, <1>3, <1>6, <3>1, <3>2, MessagesOnly
  <2> QED
    BY <2>1, <2>2
<1>7. CASE m.kind \in {"state", "tick"} /\ UNCHANGED <<popup, ids, commands>>
  <2>1. \A id : ~Ends(m, id)
    BY <1>7 DEF Ends
  <2>2. \A id \in Nat : popup = id /\ Ended(id) => Ended(id)'
    BY <1>2, <2>1
  <2> QED
    BY <1>1, <1>2, <1>3, <1>7, <2>2, MessagesOnly
<1> QED
  BY <1>5, <1>6, <1>7 DEF Update

LEMMA PopupCompose == PopupInv /\ Compose => PopupInv'
<1> SUFFICES ASSUME PopupInv, Compose
             PROVE  PopupInv'
  OBVIOUS
<1> DEFINE c == Head(commands)
<1>1. /\ PopupTyped /\ commands # <<>> /\ commands' = Tail(commands)
      /\ UNCHANGED <<popup, ids>>
  BY DEF PopupInv, Compose
<1>2. /\ c = commands[1] /\ c \in Command
  BY <1>1, CommandsTail
<1>3. CASE /\ c.op = "get" /\ surfaces' = surfaces \cup {c.id}
           /\ UNCHANGED messages
  <2>1. Gets(1, c.id)
    BY <1>2, <1>3 DEF Gets
  <2> QED
    BY <1>1, <1>3, <2>1, Shown
<1>4. CASE /\ c.op = "destroy" /\ surfaces' = surfaces \ {c.id}
           /\ Send(CloseRequested(c.id)) \/ UNCHANGED messages
  <2>1. Destroys(1, c.id) /\ c.id \in Nat
    BY <1>2, <1>4 DEF Destroys, Command
  <2>2. /\ messages' \in Seq(Message)
        /\ \A e \in Nat : Ended(e)' => Ended(e) \/ e = c.id
        /\ \A e \in Nat : Ended(e) => Ended(e)'
    <3>1. CASE UNCHANGED messages
      BY <1>1, <3>1 DEF PopupTyped, Ended
    <3>2. CASE Send(CloseRequested(c.id))
      <4>1. /\ CloseRequested(c.id) \in Message
            /\ messages' = Append(messages, CloseRequested(c.id))
            /\ \A e : Ends(CloseRequested(c.id), e) <=> c.id = e
        BY <2>1, <3>2, Kinds DEF Send
      <4>2. /\ messages' \in Seq(Message)
            /\ \A e \in Nat :
                 Ended(e)' <=> Ended(e) \/ Ends(CloseRequested(c.id), e)
        BY <1>1, <4>1, EndedAppend
      <4> QED
        BY <4>1, <4>2
    <3> QED
      BY <1>4, <3>1, <3>2
  <2> QED
    BY <1>1, <1>4, <2>1, <2>2, Destroyed
<1> QED
  BY <1>3, <1>4 DEF Compose

LEMMA PopupDismiss == PopupInv /\ Dismiss => PopupInv'
<1> SUFFICES ASSUME PopupInv, NEW id \in surfaces, surfaces' = surfaces \ {id},
                    Send(CloseRequested(id)), UNCHANGED <<popup, ids, commands>>
             PROVE  PopupInv'
  BY DEF Dismiss
<1>1. PopupTyped /\ id \in Nat
  BY DEF PopupInv, PopupTyped
<1>2. /\ CloseRequested(id) \in Message
      /\ messages' = Append(messages, CloseRequested(id))
      /\ \A e : Ends(CloseRequested(id), e) <=> id = e
  BY <1>1, Kinds DEF Send
<1>3. /\ messages' \in Seq(Message)
      /\ \A e \in Nat : Ended(e)' <=> Ended(e) \/ Ends(CloseRequested(id), e)
  BY <1>1, <1>2, EndedAppend
<1> QED
  BY <1>2, <1>3, Dismissed

LEMMA PopupStep == PopupInv /\ [Next]_vars => PopupInv'
<1> SUFFICES ASSUME PopupInv, [Next]_vars
             PROVE  PopupInv'
  OBVIOUS
<1>1. CASE Update
  BY <1>1, PopupUpdate
<1>2. CASE Press
  <2>1. /\ messages' = Append(messages, TogglePopup)
        /\ UNCHANGED <<popup, ids, commands, surfaces>>
    BY <1>2 DEF Press, Send, screen
  <2> QED
    BY <2>1, Kinds, Quiet
<1>3. CASE Compose
  BY <1>3, PopupCompose
<1>4. CASE Dismiss
  BY <1>4, PopupDismiss
<1>5. CASE Fire
  <2>1. /\ messages' = Append(messages, Tick)
        /\ UNCHANGED <<popup, ids, commands, surfaces>>
    BY <1>5 DEF Fire, Send, screen
  <2> QED
    BY <2>1, Kinds, Quiet
<1>6. ASSUME NEW a \in Arrivals \cup {Unreachable}, ClientSends(a)
      PROVE  PopupInv'
  <2>1. /\ messages' = Append(messages, StateMessage(a))
        /\ UNCHANGED <<popup, ids, commands, surfaces>>
    BY <1>6 DEF ClientSends, Send, screen
  <2>2. StateMessage(a) \in Message
    BY DEF Message
  <2> QED
    BY <2>1, <2>2, Kinds, Quiet
<1>7. CASE Elapse \/ UNCHANGED vars
  <2>1. UNCHANGED <<popup, ids, commands, surfaces, messages>>
    BY <1>7 DEF Elapse, vars, screen
  <2>2. messages' \in Seq(Message) /\ \A id \in Nat : Ended(id)' <=> Ended(id)
    BY <2>1 DEF PopupInv, PopupTyped, Ended
  <2> QED
    BY <2>1, <2>2, MessagesOnly
<1> QED
  BY <1>1, <1>2, <1>3, <1>4, <1>5, <1>6, <1>7 DEF Next

\* window.rs:231-251: applet and compositor agree on the popup, however
\* presses, dismissals and late news of a popup's end interleave.
THEOREM PopupsAlwaysAgree == Spec => []PopupsAgree
<1>1. PopupInv => PopupsAgree
  <2> SUFFICES ASSUME PopupInv
               PROVE  PopupsAgree
    OBVIOUS
  <2>1. \A a, b \in surfaces : a = b
    BY DEF PopupInv, OneAtATime
  <2>2. \A id \in surfaces : popup = id \/ Ordered("destroy", id)
    BY DEF PopupInv, NoneIsLeft, Destroys, Ordered
  <2>3. popup # None =>
          popup \in surfaces \/ Ordered("get", popup) \/ Ended(popup)
    BY DEF PopupInv, KnownIsSomewhere, Gets, Ordered
  <2> QED
    BY <2>1, <2>2, <2>3 DEF PopupsAgree
<1> QED
  BY <1>1, PopupInit, PopupStep, PTL DEF Spec

-----------------------------------------------------------------------------
(* The timer *)

\* While nothing waits for `update`, which renders anew, the age of what is
\* rendered and the timer's time add up to no more than the period.
TimerInv ==
  /\ rendered \in Nat
  /\ popup = None <=> timer = None
  /\ popup # None => /\ timer \in 0..Period
                     /\ rendered <= Period
                     /\ messages = <<>> => rendered + timer <= Period

LEMMA TimerInit == Init => TimerInv
  BY DEF Init, TimerInv

\* A message that comes in leaves popup and timer alone, or is the timer's.
LEMMA TimerSend ==
  ASSUME PopupTyped, TimerInv, NEW m, Send(m), UNCHANGED <<popup, rendered>>,
         UNCHANGED timer \/ (timer = 0 /\ timer' = Period)
  PROVE  TimerInv'
<1>1. messages' # <<>>
  <2>1. messages \in Seq(Message) /\ messages' = Append(messages, m)
    BY DEF PopupTyped, Send
  <2>2. messages \in Seq(Message \cup {m}) /\ m \in Message \cup {m}
    BY <2>1, SeqMonotonic
  <2> QED
    BY <2>1, <2>2, AppendProperties, EmptySeq
<1>2. Period \in Nat /\ None \notin Nat
  BY PanelAssumption
<1> QED
  BY <1>1, <1>2 DEF TimerInv

LEMMA TimerStep == PopupTyped /\ TimerInv /\ [Next]_vars => TimerInv'
<1> SUFFICES ASSUME PopupTyped, TimerInv, [Next]_vars
             PROVE  TimerInv'
  OBVIOUS
<1>1. Period \in Nat /\ None \notin Nat
  BY PanelAssumption
<1>2. CASE Update
  <2>1. rendered' = 0 /\ Subscription
    BY <1>2 DEF Update
  <2> QED
    BY <1>1, <2>1 DEF Subscription, TimerInv
<1>3. CASE Press
  BY <1>3, TimerSend DEF Press
<1>4. CASE Compose
  <2>1. /\ UNCHANGED <<popup, timer, rendered>>
        /\ \/ UNCHANGED messages
           \/ Send(CloseRequested(Head(commands).id))
    BY <1>4 DEF Compose
  <2>2. CASE UNCHANGED messages
    BY <2>1, <2>2 DEF TimerInv
  <2> QED
    BY <2>1, <2>2, TimerSend
<1>5. CASE Dismiss
  BY <1>5, TimerSend DEF Dismiss
<1>6. CASE Fire
  BY <1>6, TimerSend DEF Fire
<1>7. CASE Elapse
  <2>1. /\ messages = <<>> /\ timer # 0 /\ UNCHANGED <<popup, messages>>
        /\ timer' = IF timer = None THEN None ELSE timer - 1
        /\ rendered' = IF rendered <= Period THEN rendered + 1 ELSE rendered
    BY <1>7 DEF Elapse
  <2>2. CASE popup = None
    BY <2>1, <2>2 DEF TimerInv
  <2>3. CASE popup # None
    <3>1. /\ timer # None /\ timer \in 1..Period /\ rendered + timer <= Period
          /\ rendered \in Nat /\ rendered <= Period
      BY <1>1, <2>1, <2>3 DEF TimerInv
    <3>2. timer' = timer - 1 /\ rendered' = rendered + 1
      BY <2>1, <3>1
    <3>3. timer' \in 0..Period /\ rendered' <= Period
          /\ rendered' + timer' <= Period /\ rendered' \in Nat /\ timer' # None
      BY <1>1, <3>1, <3>2
    <3> QED
      BY <2>1, <2>3, <3>3 DEF TimerInv
  <2> QED
    BY <2>2, <2>3
<1>8. ASSUME NEW a \in Arrivals \cup {Unreachable}, ClientSends(a)
      PROVE  TimerInv'
  BY <1>8, TimerSend DEF ClientSends
<1>9. CASE UNCHANGED vars
  BY <1>9 DEF vars, TimerInv
<1> QED
  BY <1>2, <1>3, <1>4, <1>5, <1>6, <1>7, <1>8, <1>9 DEF Next

\* window.rs:219-226: the ages in the open popup are renewed in time, however
\* often it is closed and opened again and whatever else comes in between.
THEOREM AgesStayFresh == Spec => []AgesAreFresh
<1>1. Init => PopupInv /\ TimerInv
  BY PopupInit, TimerInit
<1>2. PopupInv /\ TimerInv /\ [Next]_vars => (PopupInv /\ TimerInv)'
  BY PopupStep, TimerStep DEF PopupInv
<1>3. TimerInv => AgesAreFresh
  BY DEF TimerInv, AgesAreFresh
<1> QED
  BY <1>1, <1>2, <1>3, PTL DEF Spec

-----------------------------------------------------------------------------
(* What is shown *)

Props == {"name", "connected", "charge_state", "level", "last_updated"}
           \cup Analog

\* dbus.rs:105-121, 134-135: the list and the getters agree on everything.
LEMMA ListIsGetters == \A snap : DeviceProps(snap) = Getters(snap)
<1> SUFFICES ASSUME NEW snap
             PROVE  DeviceProps(snap) = Getters(snap)
  OBVIOUS
<1>1. ASSUME NEW p \in Props
      PROVE  DeviceProps(snap)[p] = Getters(snap)[p]
  BY DEF Props, DeviceProps, Served, Getters, Analog
<1> QED
  BY <1>1, Zenon DEF Props, DeviceProps, Served, Getters

\* A cache that was right is right again after the signal.
LEMMA SignalsSuffice ==
  \A old, new :
    Signalled(Getters(old), DeviceProps(old), DeviceProps(new)) = Getters(new)
<1> SUFFICES ASSUME NEW old, NEW new
             PROVE  Signalled(Getters(old), Getters(old), Getters(new))
                      = Getters(new)
  BY ListIsGetters
<1>1. /\ DOMAIN Getters(old) = Props /\ DOMAIN Getters(new) = Props
  BY DEF Getters, Props
<1>3. Getters(new) = [p \in Props |-> Getters(new)[p]]
  <2>1. Getters(new) \in [Props -> {Getters(new)[p] : p \in Props}]
    BY DEF Getters, Props
  <2> QED
    BY <2>1
<1>2. \A p \in Props :
        (IF p \in Changes(Getters(old), Getters(new)) THEN Getters(new)[p]
         ELSE Getters(old)[p]) = Getters(new)[p]
  BY <1>1 DEF Changes
<1> QED
  BY <1>1, <1>2, <1>3, Zenon DEF Signalled

\* The list of devices that is shown is one that the client sent.
Whole == [told |-> told, state |-> state] \in Arrivals \cup {Unreachable}

LEMMA WholeStep == PopupTyped /\ Whole /\ [Next]_vars => Whole'
<1> SUFFICES ASSUME PopupTyped, Whole, [Next]_vars
             PROVE  Whole'
  OBVIOUS
<1>1. CASE UNCHANGED shown
  BY <1>1 DEF Whole, shown
<1>2. CASE Update /\ ~UNCHANGED shown
  <2> DEFINE m == Head(messages)
  <2>1. /\ m \in Message /\ m.kind = "state"
        /\ state' = m.id.state /\ told' = m.id.told
    BY <1>2, HeadTailProperties DEF PopupTyped, Update
  <2>2. PICK a \in Arrivals \cup {Unreachable} : m = StateMessage(a)
    BY <2>1 DEF Message, TogglePopup, Tick, CloseRequested
  <2>3. state' = a.state /\ told' = a.told
    BY <2>1, <2>2 DEF StateMessage
  <2>4. a = [told |-> a.told, state |-> a.state]
    BY <2>2 DEF Arrivals, Unreachable
  <2> QED
    BY <2>2, <2>3, <2>4 DEF Whole
<1> QED
  BY <1>1, <1>2
  DEF Next, Press, Compose, Dismiss, Fire, Elapse, ClientSends, vars, shown

\* What is shown of each device, by what its controller has sent.
LEMMA ShownDevices ==
  ASSUME Whole, state # None
  PROVE  /\ told \in Lists /\ DOMAIN state = DOMAIN told
         /\ \A i \in DOMAIN state :
              state[i] = DeviceInfo(Getters(Snapshot(told[i])))
<1> DEFINE Seen(list, c) == [i \in DOMAIN list |-> Fetched(c, list[i])]
           arrival == [told |-> told, state |-> state]
<1>1. arrival \in Arrivals
  BY DEF Whole, Unreachable
<1>2. Arrivals = {[told |-> list, state |-> Seen(list, c)] :
                    list \in Lists, c \in Controllers}
  BY DEF Arrivals
<1>3. PICK list \in Lists, c \in Controllers :
        arrival = [told |-> list, state |-> Seen(list, c)]
  <2> HIDE DEF Seen, arrival
  <2> QED
    BY <1>1, <1>2
<1>4. told = list /\ state = [i \in DOMAIN list |-> Fetched(c, list[i])]
  BY <1>3
<1> QED
  BY <1>4, SignalsSuffice DEF Fetched

LEMMA AlwaysWhole == Spec => []Whole
<1>1. Init => PopupInv /\ Whole
  BY PopupInit DEF Init, Whole, Unreachable
<1>2. PopupInv /\ Whole /\ [Next]_vars => (PopupInv /\ Whole)'
  BY PopupStep, WholeStep DEF PopupInv
<1> QED
  BY <1>1, <1>2, PTL DEF Spec

\* dbus.rs:134-135: what a client has from an earlier read and from signals
\* is what the getters would answer, whatever controllers have sent.
THEOREM SignalsAlwaysMatch == Spec => []SignalsMatchGetters
<1>1. Whole => SignalsMatchGetters
  BY ShownDevices DEF SignalsMatchGetters
<1> QED
  BY <1>1, AlwaysWhole, PTL

-----------------------------------------------------------------------------
(* From the controller's bytes to the window *)

LEMMA StatusTyped ==
  ASSUME NEW s \in Status
  PROVE  /\ s.code \in Nat /\ s.level \in Nat /\ s.level # LEVEL_UNKNOWN
         /\ s.battery_voltage \in Nat /\ s.system_voltage \in Nat
         /\ s.input_voltage \in Nat /\ s.current \in Nat
         /\ s.input_current \in Nat /\ s.temperature \in Nat
<1>1. s.code \in Byte /\ s.level \in Byte \ {LEVEL_UNKNOWN}
  BY Zenon DEF Status
<1>2. /\ s.battery_voltage \in Word16 /\ s.system_voltage \in Word16
      /\ s.input_voltage \in Word16 /\ s.current \in Word16
      /\ s.input_current \in Word16 /\ s.temperature \in Word16
  BY Zenon DEF Status
<1>3. \A n \in Word16 : n \in Nat
  BY DEF Word16
<1>4. s.code \in Nat
  BY <1>1 DEF Byte
<1>5. s.level \in Nat /\ s.level # LEVEL_UNKNOWN
  BY <1>1 DEF Byte
<1> QED
  BY <1>2, <1>3, <1>4, <1>5, Zenon

\* What the parser makes of a status.
ReadStatus(s) ==
  [charge_state |-> ChargeState(s.code), level |-> s.level,
   battery_voltage |-> s.battery_voltage,
   system_voltage |-> s.system_voltage,
   input_voltage |-> s.input_voltage, current |-> s.current,
   input_current |-> s.input_current, temperature |-> s.temperature]

LEMMA ReadIsSome == \A s \in Status : ReadStatus(s) # None
<1> SUFFICES ASSUME NEW s \in Status
             PROVE  ReadStatus(s) # None
  OBVIOUS
<1>1. /\ s.code \in Byte /\ s.level \in Byte
      /\ s.battery_voltage \in Word16 /\ s.system_voltage \in Word16
      /\ s.input_voltage \in Word16 /\ s.current \in Word16
      /\ s.input_current \in Word16 /\ s.temperature \in Word16
  BY Zenon DEF Status
<1>2. ReadStatus(s) \in BatteryStatus
  BY <1>1 DEF ReadStatus, BatteryStatus
<1> QED
  BY <1>2, PanelAssumption

\* A buffer that begins with another one.
Begins(q, r) ==
  /\ q \in Seq(Nat) /\ r \in Seq(Nat) /\ Len(q) <= Len(r)
  /\ \A i \in 1..Len(q) : r[i] = q[i]

LEMMA BeginsAnd ==
  ASSUME NEW q, NEW r, NEW t, Begins(q, r), Begins(r, t)
  PROVE  Begins(q, t)
<1>1. Len(q) \in Nat /\ Len(r) \in Nat /\ Len(t) \in Nat
  BY LenProperties DEF Begins
<1>2. Len(q) <= Len(t)
  BY <1>1 DEF Begins
<1>3. \A i \in 1..Len(q) : t[i] = q[i]
  BY <1>1 DEF Begins
<1> QED
  BY <1>2, <1>3 DEF Begins

LEMMA ConcatBegins ==
  ASSUME NEW q \in Seq(Nat), NEW p \in Seq(Nat)
  PROVE  Begins(q, q \o p) /\ Len(q \o p) = Len(q) + Len(p)
<1>1. /\ q \o p \in Seq(Nat) /\ Len(q \o p) = Len(q) + Len(p)
      /\ \A i \in 1..Len(q) + Len(p) :
           (q \o p)[i] = IF i <= Len(q) THEN q[i] ELSE p[i - Len(q)]
  BY ConcatProperties, Zenon
<1>2. PICK l \in Nat, m \in Nat : l = Len(q) /\ m = Len(p)
  BY LenProperties
<1> DEFINE r == q \o p
<1>3. /\ \A i \in 1..l + m : r[i] = IF i <= l THEN q[i] ELSE p[i - l]
      /\ Len(r) = l + m
  BY <1>1, <1>2
<1> HIDE DEF r
<1>4. \A i \in 1..l : r[i] = q[i]
  BY <1>3
<1>5. l <= Len(r)
  BY <1>3
<1> QED
  BY <1>1, <1>2, <1>4, <1>5 DEF Begins, r

\* u16_le reads what is inside, and a word at the end.
LEMMA ReadInside ==
  ASSUME NEW q, NEW r, Begins(q, r), NEW off \in Nat, off + 2 <= Len(q)
  PROVE  U16Le(r, off) = U16Le(q, off)
<1>1. Len(q) \in Nat
  BY LenProperties DEF Begins
<1>2. off + 1 \in 1..Len(q) /\ off + 2 \in 1..Len(q)
  BY <1>1
<1> QED
  BY <1>2 DEF Begins, U16Le

LEMMA WordAdded ==
  ASSUME NEW q \in Seq(Nat), NEW n \in Nat
  PROVE  /\ Begins(q, q \o Word(n))
         /\ Len(q \o Word(n)) = Len(q) + 2
         /\ U16Le(q \o Word(n), Len(q)) = n
<1>1. /\ n % 256 \in Nat /\ n \div 256 \in Nat
      /\ (n % 256) + 256 * (n \div 256) = n
  BY SMT
<1> DEFINE w == Word(n)
<1>2. w \in Seq(Nat) /\ Len(w) = 2 /\ w[1] = n % 256 /\ w[2] = n \div 256
  BY <1>1 DEF Word
<1> HIDE DEF w
<1>3. Begins(q, q \o w) /\ Len(q \o w) = Len(q) + 2
  BY <1>2, ConcatBegins
<1>4. \A i \in 1..Len(q) + Len(w) :
        (q \o w)[i] = IF i <= Len(q) THEN q[i] ELSE w[i - Len(q)]
  BY <1>2, ConcatProperties, Zenon
<1>5. PICK l \in Nat : l = Len(q)
  BY LenProperties
<1> DEFINE r == q \o w
<1>6. \A i \in 1..l + 2 : r[i] = IF i <= l THEN q[i] ELSE w[i - l]
  BY <1>2, <1>4, <1>5
<1> HIDE DEF r
<1>7. r[l + 1] = w[1] /\ r[l + 2] = w[2]
  BY <1>6
<1>8. U16Le(r, l) = n
  BY <1>1, <1>2, <1>7 DEF U16Le
<1> QED
  BY <1>2, <1>3, <1>5, <1>8 DEF w, r

\* A report of a status, however padded, is read as that status.
LEMMA ParsedAsSent ==
  ASSUME NEW s \in Status, NEW padding \in Seq(Nat)
  PROVE  /\ Classify(Encode(s) \o padding) = "Battery"
         /\ ParseBatteryReport(Encode(s) \o padding) = ReadStatus(s)
<1>1. /\ s.code \in Nat /\ s.level \in Nat
      /\ s.battery_voltage \in Nat /\ s.system_voltage \in Nat
      /\ s.input_voltage \in Nat /\ s.current \in Nat
      /\ s.input_current \in Nat /\ s.temperature \in Nat
  BY StatusTyped
<1>2. PICK q0 : q0 = <<REPORT_BATTERY_STATUS, s.code, s.level>>
  OBVIOUS
<1>3. /\ q0 \in Seq(Nat) /\ Len(q0) = 3
      /\ q0[1] = 67 /\ q0[2] = s.code /\ q0[3] = s.level
  BY <1>1, <1>2 DEF REPORT_BATTERY_STATUS
<1>4. PICK q1 : q1 = q0 \o Word(s.battery_voltage)
  OBVIOUS
<1>5. /\ Begins(q0, q1) /\ q1 \in Seq(Nat) /\ Len(q1) = 5
      /\ U16Le(q1, 3) = s.battery_voltage
  <2>1. /\ Begins(q0, q1) /\ Len(q1) = Len(q0) + 2
        /\ U16Le(q1, Len(q0)) = s.battery_voltage
    BY <1>1, <1>3, <1>4, WordAdded, Zenon
  <2> QED
    BY <1>3, <2>1 DEF Begins
<1>6. PICK q2 : q2 = q1 \o Word(s.system_voltage)
  OBVIOUS
<1>7. /\ Begins(q1, q2) /\ q2 \in Seq(Nat) /\ Len(q2) = 7
      /\ U16Le(q2, 5) = s.system_voltage
  <2>1. /\ Begins(q1, q2) /\ Len(q2) = Len(q1) + 2
        /\ U16Le(q2, Len(q1)) = s.system_voltage
    BY <1>1, <1>5, <1>6, WordAdded, Zenon
  <2> QED
    BY <1>5, <2>1 DEF Begins
<1>8. PICK q3 : q3 = q2 \o Word(s.input_voltage)
  OBVIOUS
<1>9. /\ Begins(q2, q3) /\ q3 \in Seq(Nat) /\ Len(q3) = 9
      /\ U16Le(q3, 7) = s.input_voltage
  <2>1. /\ Begins(q2, q3) /\ Len(q3) = Len(q2) + 2
        /\ U16Le(q3, Len(q2)) = s.input_voltage
    BY <1>1, <1>7, <1>8, WordAdded, Zenon
  <2> QED
    BY <1>7, <2>1 DEF Begins
<1>10. PICK q4 : q4 = q3 \o Word(s.current)
  OBVIOUS
<1>11. /\ Begins(q3, q4) /\ q4 \in Seq(Nat) /\ Len(q4) = 11
       /\ U16Le(q4, 9) = s.current
  <2>1. /\ Begins(q3, q4) /\ Len(q4) = Len(q3) + 2
        /\ U16Le(q4, Len(q3)) = s.current
    BY <1>1, <1>9, <1>10, WordAdded, Zenon
  <2> QED
    BY <1>9, <2>1 DEF Begins
<1>12. PICK q5 : q5 = q4 \o Word(s.input_current)
  OBVIOUS
<1>13. /\ Begins(q4, q5) /\ q5 \in Seq(Nat) /\ Len(q5) = 13
       /\ U16Le(q5, 11) = s.input_current
  <2>1. /\ Begins(q4, q5) /\ Len(q5) = Len(q4) + 2
        /\ U16Le(q5, Len(q4)) = s.input_current
    BY <1>1, <1>11, <1>12, WordAdded, Zenon
  <2> QED
    BY <1>11, <2>1 DEF Begins
<1>14. PICK q6 : q6 = q5 \o Word(s.temperature)
  OBVIOUS
<1>15. /\ Begins(q5, q6) /\ q6 \in Seq(Nat) /\ Len(q6) = 15
       /\ U16Le(q6, 13) = s.temperature
  <2>1. /\ Begins(q5, q6) /\ Len(q6) = Len(q5) + 2
        /\ U16Le(q6, Len(q5)) = s.temperature
    BY <1>1, <1>13, <1>14, WordAdded, Zenon
  <2> QED
    BY <1>13, <2>1 DEF Begins
<1>16. PICK b : b = q6 \o padding
  OBVIOUS
<1>17. Begins(q6, b)
  BY <1>15, <1>16, ConcatBegins, Zenon
<1>18. Begins(q5, b)
  BY <1>15, <1>17, BeginsAnd
<1>19. Begins(q4, b)
  BY <1>13, <1>18, BeginsAnd
<1>20. Begins(q3, b)
  BY <1>11, <1>19, BeginsAnd
<1>21. Begins(q2, b)
  BY <1>9, <1>20, BeginsAnd
<1>22. Begins(q1, b)
  BY <1>7, <1>21, BeginsAnd
<1>23. Begins(q0, b)
  BY <1>5, <1>22, BeginsAnd
<1>24. b[1] = 67 /\ b[2] = s.code /\ b[3] = s.level
  BY <1>3, <1>23 DEF Begins
<1>25. U16Le(b, 3) = s.battery_voltage
  <2>1. 3 \in Nat /\ 3 + 2 <= Len(q1)
    BY <1>5
  <2> QED
    BY <1>5, <1>22, <2>1, ReadInside, Zenon
<1>26. U16Le(b, 5) = s.system_voltage
  <2>1. 5 \in Nat /\ 5 + 2 <= Len(q2)
    BY <1>7
  <2> QED
    BY <1>7, <1>21, <2>1, ReadInside, Zenon
<1>27. U16Le(b, 7) = s.input_voltage
  <2>1. 7 \in Nat /\ 7 + 2 <= Len(q3)
    BY <1>9
  <2> QED
    BY <1>9, <1>20, <2>1, ReadInside, Zenon
<1>28. U16Le(b, 9) = s.current
  <2>1. 9 \in Nat /\ 9 + 2 <= Len(q4)
    BY <1>11
  <2> QED
    BY <1>11, <1>19, <2>1, ReadInside, Zenon
<1>29. U16Le(b, 11) = s.input_current
  <2>1. 11 \in Nat /\ 11 + 2 <= Len(q5)
    BY <1>13
  <2> QED
    BY <1>13, <1>18, <2>1, ReadInside, Zenon
<1>30. U16Le(b, 13) = s.temperature
  <2>1. 13 \in Nat /\ 13 + 2 <= Len(q6)
    BY <1>15
  <2> QED
    BY <1>15, <1>17, <2>1, ReadInside, Zenon
<1>31. ~(Len(b) < BATTERY_REPORT_LEN) /\ b # <<>>
  BY <1>15, <1>17, LenProperties, EmptySeq DEF BATTERY_REPORT_LEN, Begins
<1>32. b[1] = REPORT_BATTERY_STATUS
  BY <1>24 DEF REPORT_BATTERY_STATUS
<1>33. ParseBatteryReport(b) = ReadStatus(s)
  BY <1>24, <1>25, <1>26, <1>27, <1>28, <1>29, <1>30, <1>31, <1>32
  DEF ParseBatteryReport, ReadStatus
<1>34. ParseBatteryReport(b) # None
  BY <1>33, ReadIsSome
<1>35. Classify(b) = "Battery"
  BY <1>31, <1>32, <1>34 DEF Classify
<1>36. Encode(s) \o padding = b
  BY <1>2, <1>4, <1>6, <1>8, <1>10, <1>12, <1>14, <1>16 DEF Encode
<1> QED
  BY <1>33, <1>35, <1>36

\* What a charge state's code says, and that it survives the bus.
LEMMA ChargeStates ==
  ASSUME NEW v \in Nat
  PROVE  /\ ChargeState(AsU8(ChargeState(v))) = ChargeState(v)
         /\ IsCharging(ChargeState(v)) <=> v \in ChargingCodes
<1>1. CASE v >= 5
  BY <1>1 DEF ChargeState, AsU8, IsCharging, Named, ChargingCodes
<1>2. CASE v = 0
  BY <1>2 DEF ChargeState, AsU8, IsCharging, Named, ChargingCodes
<1>3. CASE v = 1
  BY <1>3 DEF ChargeState, AsU8, IsCharging, Named, ChargingCodes
<1>4. CASE v = 2
  BY <1>4 DEF ChargeState, AsU8, IsCharging, Named, ChargingCodes
<1>5. CASE v = 3
  BY <1>5 DEF ChargeState, AsU8, IsCharging, Named, ChargingCodes
<1>6. CASE v = 4
  BY <1>6 DEF ChargeState, AsU8, IsCharging, Named, ChargingCodes
<1> QED
  BY <1>1, <1>2, <1>3, <1>4, <1>5, <1>6

\* What has arrived at the applet from a controller.
Arrived(c) ==
  [battery |-> IF c.status = None THEN None ELSE ReadStatus(c.status),
   connected |->
     ~c.silent /\ (c.status # None \/ Classify(c.after) = "Liveness")]

LEMMA SnapshotArrived ==
  ASSUME NEW c \in Controllers
  PROVE  /\ Snapshot(c).battery = Arrived(c).battery
         /\ Snapshot(c).connected <=> Arrived(c).connected
         /\ c.status = None => Snapshot(c).last_updated = None
<1> DEFINE reported == IF c.status = None THEN Unheard
                       ELSE Heard(Unheard, Encode(c.status) \o c.padding,
                                  c.stamp)
           heard == Heard(reported, c.after, c.stamp)
           live == Classify(c.after) = "Liveness"
<1>1. /\ c.status \in Status \cup {None} /\ c.padding \in Seq(Nat)
      /\ c.silent \in BOOLEAN /\ Classify(c.after) # "Battery"
  <2>1. c \in Sent /\ Classify(c.after) # "Battery"
    BY PanelAssumption
  <2>2. Byte \subseteq Nat
    BY DEF Byte
  <2>3. c.padding \in Seq(Byte) /\ c.status \in Status \cup {None}
        /\ c.silent \in BOOLEAN
    BY <2>1 DEF Sent
  <2> QED
    BY <2>1, <2>2, <2>3, SeqMonotonic
<1>2. Snapshot(c) = IF c.silent /\ heard.connected THEN Swept(heard, c.stamp)
                    ELSE heard
  BY DEF Snapshot
<1> HIDE DEF reported
<1>3. PICK stamp : /\ reported = [name |-> "controller",
                                  connected |-> (c.status # None),
                                  battery |-> Arrived(c).battery,
                                  last_updated |-> stamp]
                   /\ c.status = None => stamp = None
  <2>1. CASE c.status = None
    <3>1. reported = Unheard
      BY <2>1 DEF reported
    <3>2. Arrived(c).battery = None
      BY <2>1 DEF Arrived
    <3> QED
      BY <2>1, <3>1, <3>2 DEF Unheard
  <2>2. CASE c.status # None
    <3>1. /\ Classify(Encode(c.status) \o c.padding) = "Battery"
          /\ ParseBatteryReport(Encode(c.status) \o c.padding)
               = ReadStatus(c.status)
      BY <1>1, <2>2, ParsedAsSent
    <3>2. reported = [name |-> "controller", connected |-> TRUE,
                      battery |-> ReadStatus(c.status),
                      last_updated |-> c.stamp]
      BY <2>2, <3>1 DEF Heard, Unheard, reported
    <3>3. Arrived(c).battery = ReadStatus(c.status)
      BY <2>2 DEF Arrived
    <3> QED
      BY <2>2, <3>2, <3>3
  <2> QED
    BY <2>1, <2>2
<1> HIDE DEF heard
<1>4. /\ heard.battery = Arrived(c).battery
      /\ heard.connected <=> c.status # None \/ live
      /\ heard.last_updated = stamp
      /\ heard = [name |-> "controller", connected |-> heard.connected,
                  battery |-> heard.battery, last_updated |-> stamp]
  <2>1. CASE live
    <3>1. heard = [reported EXCEPT !.connected = TRUE]
      BY <1>1, <2>1 DEF Heard, heard
    <3> QED
      BY <1>3, <2>1, <3>1
  <2>2. CASE ~live
    <3>1. heard = reported
      BY <1>1, <2>2 DEF Heard, heard
    <3> QED
      BY <1>3, <2>2, <3>1
  <2> QED
    BY <2>1, <2>2
<1>5. CASE c.silent /\ heard.connected
  <2>1. Snapshot(c) = Swept(heard, c.stamp)
    BY <1>2, <1>5
  <2>2. /\ Snapshot(c).battery = heard.battery
        /\ Snapshot(c).connected = FALSE
        /\ heard.battery = None => Snapshot(c).last_updated = stamp
    BY <1>4, <2>1 DEF Swept
  <2>3. ~Arrived(c).connected /\ (c.status = None => Arrived(c).battery = None)
    BY <1>5 DEF Arrived
  <2> QED
    BY <1>3, <1>4, <2>2, <2>3
<1>6. CASE ~(c.silent /\ heard.connected)
  <2>1. Snapshot(c) = heard
    BY <1>2, <1>6
  <2>2. Arrived(c).connected <=> heard.connected
    BY <1>1, <1>4, <1>6 DEF Arrived
  <2> QED
    BY <1>3, <1>4, <2>1, <2>2
<1> QED
  BY <1>5, <1>6

\* The window's view of a snapshot.
LEMMA InfoOfSnapshot ==
  ASSUME NEW snap
  PROVE  LET dev == DeviceInfo(Getters(snap)) IN
         /\ dev.connected = snap.connected
         /\ dev.level = Reading(snap, LEVEL_UNKNOWN, "level")
         /\ dev.last_updated = LastUpdatedSecs(snap)
         /\ dev.charge_state =
              ChargeState(IF snap.battery = None THEN 0
                          ELSE AsU8(snap.battery.charge_state))
         /\ \A f \in Analog : dev[f] = Reading(snap, 0, f)
<1> DEFINE g == Getters(snap)
<1>1. /\ g["connected"] = snap.connected
      /\ g["level"] = Reading(snap, LEVEL_UNKNOWN, "level")
      /\ g["last_updated"] = LastUpdatedSecs(snap)
      /\ g["charge_state"] = IF snap.battery = None THEN 0
                             ELSE AsU8(snap.battery.charge_state)
  BY DEF Getters, Analog
<1>2. \A f \in Analog : g[f] = Reading(snap, 0, f)
  BY DEF Getters, Analog
<1>3. /\ DOMAIN g = Props
      /\ g = [p \in Props |-> g[p]]
  <2>1. g \in [Props -> {g[p] : p \in Props}]
    BY DEF Getters, Props
  <2> QED
    BY <2>1
<1> HIDE DEF g
<1>4. \A p \in Props :
        DeviceInfo(g)[p] =
          IF p = "charge_state" THEN ChargeState(g[p]) ELSE g[p]
  BY <1>3 DEF DeviceInfo
<1>5. /\ \A f \in Analog : f \in Props /\ f # "charge_state"
      /\ {"connected", "level", "last_updated", "charge_state"} \subseteq Props
  BY DEF Analog, Props
<1>6. \A f \in Analog : DeviceInfo(g)[f] = Reading(snap, 0, f)
  BY <1>2, <1>4, <1>5
<1> QED
  BY <1>1, <1>4, <1>5, <1>6 DEF g

\* protocol.rs:58-81, dbus.rs:105-121, interface/src/lib.rs:44-77: whatever
\* bytes a controller puts into its report, the window has every value of it,
\* and only signs of life count as such.
THEOREM ReportsAreShown == Spec => []ShowsTheReport
<1>1. ASSUME Whole
      PROVE  ShowsTheReport
  <2> SUFFICES ASSUME state # None, NEW i \in DOMAIN state
               PROVE  LET dev == state[i]
                          s == told[i].status
                      IN
                      /\ dev.connected <=>
                           /\ ~told[i].silent
                           /\ s # None \/ (told[i].after # <<>> /\
                                           told[i].after[1] \in {66, 69})
                      /\ IF s = None
                         THEN ~HasBatteryData(dev) /\ dev.last_updated = 0
                         ELSE /\ LevelLabel(dev) = s.level
                              /\ dev.charge_state = ChargeState(s.code)
                              /\ Charging(dev) <=> s.code \in ChargingCodes
                              /\ \A f \in Analog : dev[f] = s[f]
    BY DEF ShowsTheReport
  <2>1. /\ told \in Lists /\ DOMAIN state = DOMAIN told
        /\ state[i] = DeviceInfo(Getters(Snapshot(told[i])))
    BY <1>1, ShownDevices
  <2>2. PICK c \in Controllers : c = told[i]
    BY <2>1, PanelAssumption
  <2>3. PICK s : s = c.status
    OBVIOUS
  <2>4. PICK dev : dev = DeviceInfo(Getters(Snapshot(c)))
    OBVIOUS
  <2>5. /\ dev.connected = Snapshot(c).connected
        /\ dev.level = Reading(Snapshot(c), LEVEL_UNKNOWN, "level")
        /\ dev.last_updated = LastUpdatedSecs(Snapshot(c))
        /\ dev.charge_state =
             ChargeState(IF Snapshot(c).battery = None THEN 0
                         ELSE AsU8(Snapshot(c).battery.charge_state))
        /\ \A f \in Analog : dev[f] = Reading(Snapshot(c), 0, f)
    BY <2>4, InfoOfSnapshot
  <2>6. /\ Snapshot(c).battery = Arrived(c).battery
        /\ Snapshot(c).connected <=> Arrived(c).connected
        /\ s = None => Snapshot(c).last_updated = None
    BY <2>3, SnapshotArrived
  <2>7. Classify(c.after) = "Liveness" <=>
          c.after # <<>> /\ c.after[1] \in {66, 69}
    BY DEF Classify, REPORT_BATTERY_STATUS, REPORT_CONTROLLER_STATE,
           REPORT_CONTROLLER_STATE_BLE
  <2>8. dev.connected <=>
          /\ ~c.silent
          /\ s # None \/ (c.after # <<>> /\ c.after[1] \in {66, 69})
    BY <2>3, <2>5, <2>6, <2>7 DEF Arrived
  <2>9. CASE s = None
    <3>1. Snapshot(c).battery = None /\ Snapshot(c).last_updated = None
      BY <2>3, <2>6, <2>9 DEF Arrived
    <3>2. dev.level = LEVEL_UNKNOWN /\ dev.last_updated = 0
      BY <2>5, <3>1 DEF Reading, LastUpdatedSecs
    <3> QED
      BY <2>1, <2>2, <2>3, <2>4, <2>8, <2>9, <3>2 DEF HasBatteryData
  <2>10. CASE s # None
    <3>1. s \in Status
      BY <2>3, <2>10, PanelAssumption DEF Sent
    <3>2. s.code \in Nat /\ s.level # LEVEL_UNKNOWN
      BY <3>1, StatusTyped
    <3>3. Snapshot(c).battery = ReadStatus(s) /\ ReadStatus(s) # None
      BY <2>3, <2>6, <2>10, <3>1, ReadIsSome DEF Arrived
    <3>4. /\ dev.level = s.level
          /\ dev.charge_state = ChargeState(AsU8(ChargeState(s.code)))
      BY <2>5, <3>3 DEF Reading, ReadStatus
    <3>5. \A f \in Analog : dev[f] = s[f]
      BY <2>5, <3>3 DEF Reading, ReadStatus, Analog
    <3>6. /\ dev.charge_state = ChargeState(s.code)
          /\ IsCharging(ChargeState(s.code)) <=> s.code \in ChargingCodes
      BY <3>2, <3>4, ChargeStates
    <3>7. /\ LevelLabel(dev) = s.level
          /\ Charging(dev) <=> s.code \in ChargingCodes
      BY <3>2, <3>4, <3>6 DEF LevelLabel, HasBatteryData, Charging
    <3> QED
      BY <2>1, <2>2, <2>3, <2>4, <2>8, <2>10, <3>5, <3>6, <3>7
  <2> QED
    BY <2>9, <2>10
<1> QED
  BY <1>1, AlwaysWhole, PTL

-----------------------------------------------------------------------------
(* Panel and popup *)

\* What `First` finds, by the positions that hold.
At(s, found) ==
  IF found = {} THEN None
  ELSE s[CHOOSE i \in found : \A j \in found : i <= j]

\* There is a first one.
LEMMA LeastIndex ==
  ASSUME NEW found \in SUBSET Nat, found # {}
  PROVE  \E i \in found : \A j \in found : i <= j
<1> DEFINE Less == {p \in Nat \X Nat : p[1] < p[2]}
<1>1. IsWellFoundedOn(Less, Nat)
  BY NatLessThanWellFounded DEF OpToRel
<1>2. PICK i \in found : \A j \in found : <<j, i>> \notin Less
  <2> HIDE DEF Less
  <2> QED
    BY <1>1, WFMin, Zenon
<1>3. ASSUME NEW j \in found PROVE i <= j
  <2>1. j < i => <<j, i>> \in Less
    OBVIOUS
  <2> QED
    BY <1>2, <2>1
<1> QED
  BY <1>3

LEMMA AtFound ==
  ASSUME NEW s, NEW found \in SUBSET Nat
  PROVE  /\ found = {} => At(s, found) = None
         /\ found # {} => \E i \in found : At(s, found) = s[i]
  BY LeastIndex DEF At

WithBattery == {i \in DOMAIN state : HasBatteryData(state[i])}
LiveWithBattery ==
  {i \in DOMAIN state : state[i].connected /\ HasBatteryData(state[i])}

LEMMA PrimaryFound ==
  ASSUME state # None
  PROVE  Primary(state) = IF At(state, LiveWithBattery) # None
                          THEN At(state, LiveWithBattery)
                          ELSE At(state, WithBattery)
  BY DEF Primary, First, At, WithBattery, LiveWithBattery

\* What the window is shown is a device, and its level a byte.
LEMMA LevelsShown ==
  ASSUME Whole, state # None
  PROVE  /\ DOMAIN state \subseteq Nat
         /\ \A i \in DOMAIN state : state[i] # None /\ state[i].level \in Byte
<1>1. /\ told \in Lists /\ DOMAIN state = DOMAIN told
      /\ \A i \in DOMAIN state :
           state[i] = DeviceInfo(Getters(Snapshot(told[i])))
  BY ShownDevices
<1>2. told \in Seq(Controllers)
  BY <1>1, PanelAssumption
<1>3. ASSUME NEW i \in DOMAIN state
      PROVE  state[i] # None /\ state[i].level \in Byte
  <2>1. PICK c \in Controllers : c = told[i]
    BY <1>1, <1>2
  <2>2. state[i] = DeviceInfo(Getters(Snapshot(c)))
    BY <1>1, <2>1
  <2>3. Fetched(c, c) = DeviceInfo(Getters(Snapshot(c)))
    BY SignalsSuffice DEF Fetched
  <2>4. state[i].level = Reading(Snapshot(c), LEVEL_UNKNOWN, "level")
        /\ Snapshot(c).battery = Arrived(c).battery
    BY <2>2, InfoOfSnapshot, SnapshotArrived
  <2>5. ASSUME c.status = None PROVE state[i].level \in Byte
    BY <2>4, <2>5 DEF Arrived, Reading, LEVEL_UNKNOWN, Byte
  <2>6. ASSUME c.status # None PROVE state[i].level \in Byte
    <3>1. c.status \in Status
      BY <2>6, PanelAssumption DEF Sent
    <3>2. c.status.level \in Byte
      BY <3>1, Zenon DEF Status
    <3>3. state[i].level = c.status.level
      BY <2>4, <2>6, <3>1, ReadIsSome DEF Arrived, Reading, ReadStatus
    <3> QED
      BY <3>2, <3>3
  <2> QED
    BY <2>2, <2>3, <2>5, <2>6, DeviceAssumption
<1> QED
  BY <1>1, <1>2, <1>3

\* window.rs:55-56: the icon's step is the nearest to the level.
LEMMA Steps ==
  ASSUME NEW level \in Byte
  PROVE  /\ \E n \in 0..10 : Step(level) = 10 * n
         /\ level <= 100 => Step(level) - level \in -4..5
<1> DEFINE top == IF level <= 100 THEN level ELSE 100
           n == (top + 5) \div 10
<1>1. level \in Nat /\ top \in 0..100
  BY DEF Byte
<1>2. n \in 0..10 /\ 10 * n <= top + 5 /\ top + 5 < 10 * n + 10
  <2> HIDE DEF top
  <2> QED
    BY <1>1
<1>3. Step(level) = n * 10
  BY DEF Step
<1> HIDE DEF n
<1>4. n * 10 = 10 * n
  BY <1>2
<1>5. level <= 100 => 10 * n - level \in -4..5
  BY <1>1, <1>2
<1> QED
  BY <1>2, <1>3, <1>4, <1>5

LEMMA IconOfPrimary ==
  ASSUME Primary(state) # None
  PROVE  BatteryIcon(state)[2] = Step(Primary(state).level)
  BY DEF BatteryIcon

\* window.rs:39-47, 260-277, 303-327: for any devices in any order, the
\* panel's number is that of a device the popup lists, a live one when there
\* is one, and its icon is the nearest to it.
THEOREM PanelTellsThePopupsStory == Spec => []PanelMatchesPopup
<1>1. ASSUME Whole PROVE PanelMatchesPopup
  <2> DEFINE primary == Primary(state)
             listed == Interesting(state)
             live == {dev \in listed : dev.connected /\ HasBatteryData(dev)}
  <2>1. CASE state = None
    BY <2>1
       DEF PanelMatchesPopup, PanelLabel, Primary, Interesting
  <2>2. CASE state # None
    <3>1. /\ DOMAIN state \subseteq Nat
          /\ \A i \in DOMAIN state :
               state[i] # None /\ state[i].level \in Byte
      BY <1>1, <2>2, LevelsShown
    <3>2. /\ WithBattery \in SUBSET Nat /\ LiveWithBattery \in SUBSET Nat
          /\ WithBattery \subseteq DOMAIN state
          /\ LiveWithBattery \subseteq WithBattery
      BY <3>1 DEF WithBattery, LiveWithBattery
    <3>3. listed = {state[i] : i \in {j \in DOMAIN state :
                      state[j].connected \/ HasBatteryData(state[j])}}
      BY <2>2 DEF Interesting
    <3>4. CASE WithBattery = {}
      <4>1. primary = None
        BY <2>2, <3>2, <3>4, AtFound, PrimaryFound
      <4>2. \A dev \in listed : ~HasBatteryData(dev)
        BY <3>3, <3>4 DEF WithBattery
      <4> QED
        BY <4>1, <4>2 DEF PanelMatchesPopup, PanelLabel
    <3>5. CASE WithBattery # {}
      <4>1. PICK i \in WithBattery :
              /\ primary = state[i]
              /\ LiveWithBattery # {} => i \in LiveWithBattery
        <5>1. CASE LiveWithBattery = {}
          <6>1. primary = At(state, WithBattery)
            BY <2>2, <3>2, <5>1, AtFound, PrimaryFound
          <6> QED
            BY <3>2, <3>5, <5>1, <6>1, AtFound
        <5>2. CASE LiveWithBattery # {}
          <6>1. PICK i \in LiveWithBattery : At(state, LiveWithBattery) = state[i]
            BY <3>2, <5>2, AtFound
          <6>2. primary = state[i]
            BY <2>2, <3>1, <3>2, <6>1, PrimaryFound
          <6> QED
            BY <3>2, <6>1, <6>2
        <5> QED
          BY <5>1, <5>2
      <4>2. /\ primary # None /\ HasBatteryData(primary)
            /\ primary.level \in Byte /\ primary \in listed
        BY <3>1, <3>3, <4>1 DEF WithBattery
      <4>3. PanelLabel(state) = primary.level /\ PanelLabel(state) # None
            /\ LevelLabel(primary) = PanelLabel(state)
        <5>1. primary.level \in Nat
          BY <4>2 DEF Byte
        <5>2. None \notin Nat
          BY PanelAssumption
        <5> HIDE DEF primary
        <5>3. LevelLabel(primary) = primary.level
          BY <4>2 DEF LevelLabel
        <5>4. PanelLabel(state) = LevelLabel(primary)
          BY <4>2 DEF PanelLabel, primary
        <5> QED
          BY <5>1, <5>2, <5>3, <5>4
      <4>4. primary \in IF live = {} THEN listed ELSE live
        <5>1. CASE LiveWithBattery = {}
          <6>1. live = {}
            BY <3>3, <5>1 DEF LiveWithBattery
          <6> QED
            BY <4>2, <6>1
        <5>2. CASE LiveWithBattery # {}
          BY <4>1, <4>2, <5>2 DEF LiveWithBattery
        <5> QED
          BY <5>1, <5>2
      <4>5. BatteryIcon(state)[2] = Step(primary.level)
        BY <4>2, IconOfPrimary
      <4>6. /\ BatteryIcon(state)[2] \in {10 * n : n \in 0..10}
            /\ PanelLabel(state) <= 100
                 => BatteryIcon(state)[2] - PanelLabel(state) \in -4..5
        BY <4>2, <4>3, <4>5, Steps
      <4> HIDE DEF primary
      <4> QED
        BY <4>2, <4>3, <4>4, <4>6 DEF PanelMatchesPopup
    <3> QED
      BY <3>4, <3>5
  <2> QED
    BY <2>1, <2>2
<1> QED
  BY <1>1, AlwaysWhole, PTL
=============================================================================
