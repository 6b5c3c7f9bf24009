---------------------------- MODULE Notifications ---------------------------
(***************************************************************************)
(* The message of the app (Snackbar.tsx), set by whoever calls Message:    *)
(* its text, the bar that runs down beside it, and the timer of the        *)
(* library's Snackbar that takes it away.  The bar starts with every       *)
(* message; the timer only with an element that appears, and the element   *)
(* is keyed by the text.  Time passes in ticks of the bar.                 *)
(***************************************************************************)
EXTENDS Naturals

CONSTANTS
    Contents,       \* the texts of messages
    BarTicks,       \* what the bar counts down from: 100
    HideTicks,      \* autoHideDuration in ticks: 6000 / 52
    MaxPosts        \* bound: messages

NotificationsAssumption ==
    {BarTicks, HideTicks, MaxPosts} \subseteq Nat /\ BarTicks < HideTicks

VARIABLES
    messageOpen, content,
    progress,
    left,           \* the library's timer
    hovered,        \* the pointer is on the message: the timer rests
    posts,
    kept            \* history: the timer is older than the message, or was restarted

timer == <<left, hovered>>
vars == <<messageOpen, content, progress, timer, posts, kept>>

Init ==
    /\ messageOpen = FALSE /\ content \in Contents /\ progress = BarTicks
    /\ left = HideTicks /\ hovered = FALSE /\ posts = 0 /\ kept = FALSE

\* A wrong variant, to be refuted: the bar goes on where it was.
SetWithoutBar(c) ==
    /\ posts < MaxPosts /\ posts' = posts + 1
    /\ messageOpen' = TRUE /\ content' = c
    /\ IF messageOpen /\ c = content THEN UNCHANGED timer ELSE left' = HideTicks /\ hovered' = FALSE
    /\ kept' = (messageOpen /\ c = content)
    /\ UNCHANGED progress

\* setMessageIsOpen, through globalSetMessageIsOpen.  The same text in an open
\* message is the same element: its timer goes on.
SetMessageIsOpen(c) ==
    /\ posts < MaxPosts /\ posts' = posts + 1
    /\ progress' = BarTicks /\ messageOpen' = TRUE /\ content' = c
    /\ IF messageOpen /\ c = content THEN UNCHANGED timer ELSE left' = HideTicks /\ hovered' = FALSE
    /\ kept' = (messageOpen /\ c = content)

\* The interval's step.
TickBar == IF progress >= 1 THEN progress - 1 ELSE 0

\* The interval and the timer run by one clock; the timer is due at 0.
Tick ==
    /\ messageOpen /\ (hovered \/ left > 0)
    /\ progress' = TickBar
    /\ left' = IF hovered THEN left ELSE left - 1
    /\ UNCHANGED <<messageOpen, content, hovered, posts, kept>>

\* handleMessageClose
HandleMessageClose(reason) ==
    messageOpen /\ messageOpen' = (reason = "clickaway")

\* The library closes the message when its timer is due.
Autohide ==
    /\ left = 0 /\ ~hovered /\ HandleMessageClose("timeout")
    /\ UNCHANGED <<content, progress, timer, posts, kept>>

\* A click beside the message, on its cross, or Escape.
UserCloses ==
    /\ \E reason \in {"clickaway", "cross", "escapeKeyDown"} : HandleMessageClose(reason)
    /\ UNCHANGED <<content, progress, timer, posts, kept>>

\* The library: the pointer stops the timer; when it leaves half of the time is given.
Enter ==
    /\ messageOpen /\ ~hovered /\ hovered' = TRUE
    /\ UNCHANGED <<messageOpen, content, progress, left, posts, kept>>
Leave ==
    /\ messageOpen /\ hovered /\ hovered' = FALSE /\ left' = HideTicks \div 2 /\ kept' = TRUE
    /\ UNCHANGED <<messageOpen, content, progress, posts>>

Next ==
    \/ \E c \in Contents : SetMessageIsOpen(c)
    \/ Tick \/ Autohide \/ UserCloses \/ Enter \/ Leave

\* Clocks run; the pointer may stay for ever.
Progress == Tick \/ Autohide
Spec == Init /\ [][Next]_vars /\ WF_vars(Progress)

(***************************************************************************)
(* Properties.                                                             *)
(***************************************************************************)
\* Type invariant.
TypeOK ==
    /\ messageOpen \in BOOLEAN /\ content \in Contents /\ progress \in 0 .. BarTicks
    /\ left \in 0 .. HideTicks /\ hovered \in BOOLEAN /\ posts \in 0 .. MaxPosts
    /\ kept \in BOOLEAN

\* The bar tells the time that is left, two clocks in two components though they
\* are (Snackbar.tsx:38-51 and autoHideDuration): a message that goes by itself has
\* had its time and its bar has run down.  Not so when it repeats the text of the one
\* that is open, with whose timer it goes (Snackbar.tsx:61), or was pointed at.
BarTellsTime ==
    messageOpen /\ ~kept /\ ~hovered =>
        \/ progress + (HideTicks - BarTicks) = left
        \/ progress = 0 /\ left <= HideTicks - BarTicks

\* What comes again and again: the message goes, unless it is pointed at.
Settled == messageOpen => hovered
=============================================================================
