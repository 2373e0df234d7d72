--------------------------- MODULE CursorCapture ---------------------------
(***************************************************************************)
(* Confining and hiding the cursor (modules/input/cursor_capture.rs).      *)
(* Each operation holds the mutex from beginning to end, so that an        *)
(* operation is a step; any sequence of them is possible.  Windows keeps   *)
(* one clip rectangle for all programs, which they may change at any time, *)
(* and a display counter: the cursor shows while it is not negative.       *)
(***************************************************************************)
EXTENDS Integers

CONSTANTS
  Regions,  \* rectangles this program confines the cursor to
  Foreign,  \* rectangles others confine it to
  Screen,   \* the clip rectangle when nobody confines it
  NoRect,   \* Option::None in old_rect
  MaxHide,  \* MAX_HIDE_COUNT
  MaxShown, \* bound: how far others move the display counter
  MaxDrift  \* bound: captures that meet a positive counter

ASSUME RectAssumption ==
  /\ Regions \cap (Foreign \cup {Screen, NoRect}) = {}
  /\ NoRect \notin Foreign \cup {Screen}
ASSUME HideAssumption == {MaxHide, MaxShown} \subseteq Nat \ {0} /\ MaxDrift \in Nat

VARIABLES
  clip,   \* the clip rectangle of Windows
  count,  \* its display counter
  rect,   \* capture_rect
  old,    \* old_rect
  hides,  \* hide_count
  active, \* active
  shown,  \* history: the display counter as others have set it
  drift,  \* history: captures that met a positive counter
  stuck   \* history: a call that confines or frees the cursor failed

captureVars == <<clip, count, rect, old, hides, active, shown, drift, stuck>>

-----------------------------------------------------------------------------
Others == Foreign \cup {Screen}

CaptureTypeOK ==
  /\ clip \in Regions \cup Others /\ rect \in Regions
  /\ old \in Regions \cup Others \cup {NoRect}
  /\ count \in Int /\ shown \in -MaxShown..MaxShown
  /\ hides \in {0, MaxHide} /\ drift \in 0..MaxDrift
  /\ active \in BOOLEAN /\ stuck \in BOOLEAN

CaptureInit ==
  /\ clip \in Others /\ rect \in Regions /\ old = NoRect
  /\ shown \in {0, 1} /\ count = shown /\ hides = 0 /\ drift = 0
  /\ active = FALSE /\ stuck = FALSE

\* The loop of ShowCursor(false): it counts the calls that leave the counter
\* negative, and stops at the first that does not.
HideCursor ==
  IF count <= 0
  THEN /\ count' = count - MaxHide
       /\ hides' = hides + MaxHide
       /\ UNCHANGED drift
  ELSE /\ drift < MaxDrift
       /\ count' = count - 1
       /\ drift' = drift + 1
       /\ UNCHANGED hides

\* Mutant: hide_count survives the release.
ShowCursorAgain == count' = count + hides /\ UNCHANGED hides

\* ShowCursor(true), hide_count times.
ShowCursor == count' = count + hides /\ hides' = 0

-----------------------------------------------------------------------------
Idle == ~active

\* capture.  GetClipCursor may fail, and old_rect keeps what it had.
Capture ==
  /\ Idle
  /\ old' \in {clip, old}
  /\ clip' = rect
  /\ HideCursor
  /\ active' = TRUE
  /\ UNCHANGED <<rect, shown, stuck>>

\* ClipCursor fails: capture returns, with the old rectangle already replaced.
CaptureFails ==
  /\ Idle
  /\ old' \in {clip, old}
  /\ UNCHANGED <<clip, count, rect, hides, active, shown, drift, stuck>>

\* Mutant: a temporary release leaves the cursor confined.
ReleaseTemporarilyConfined ==
  /\ active
  /\ ShowCursor
  /\ active' = FALSE
  /\ UNCHANGED <<clip, rect, old, shown, drift, stuck>>

\* release_temporarily.  If ClipCursor fails nothing happens.
ReleaseTemporarily ==
  /\ active
  /\ clip' = Screen
  /\ ShowCursor
  /\ active' = FALSE
  /\ UNCHANGED <<rect, old, shown, drift, stuck>>

\* release, and Drop.  An error of ClipCursor is only warned of.
Release ==
  /\ active \/ old # NoRect \/ hides # 0
  /\ \/ clip' = (IF old # NoRect THEN old ELSE Screen) /\ UNCHANGED stuck
     \/ UNCHANGED clip /\ stuck' = TRUE
  /\ old' = NoRect
  /\ ShowCursor
  /\ active' = FALSE
  /\ UNCHANGED <<rect, shown, drift>>

\* update_rect.
UpdateRect ==
  /\ rect' \in Regions
  /\ IF active
     THEN \/ clip' = rect' /\ UNCHANGED stuck
          \/ UNCHANGED clip /\ stuck' = TRUE
     ELSE UNCHANGED <<clip, stuck>>
  /\ UNCHANGED <<count, old, hides, active, shown, drift>>

\* Other programs confine or free the cursor, and other code of this one shows
\* or hides it.
OthersClip ==
  /\ clip' \in Others
  /\ UNCHANGED <<count, rect, old, hides, active, shown, drift, stuck>>

OthersShow ==
  /\ \E d \in {-1, 1} :
       /\ shown + d \in -MaxShown..MaxShown
       /\ shown' = shown + d
       /\ count' = count + d
  /\ UNCHANGED <<clip, rect, old, hides, active, drift, stuck>>

CaptureNext ==
  \/ Capture \/ CaptureFails \/ ReleaseTemporarily \/ Release \/ UpdateRect
  \/ OthersClip \/ OthersShow

CaptureSpec == CaptureInit /\ [][CaptureNext]_captureVars

-----------------------------------------------------------------------------
\* The display counter is what others made it, less what the capture under way
\* has counted, less one for ever for each capture that found it positive: no
\* sequence of calls hides the cursor once more than it shows it again.
CursorBalanced ==
  /\ count = shown - hides - drift
  /\ ~active => hides = 0

\* Released, whether for good or for a time, the cursor is not left confined to
\* a region of this program, nor will a later release confine it to one, unless
\* a call of ClipCursor failed.
FreeWhenReleased ==
  ~stuck => /\ old \notin Regions
            /\ ~active => clip \notin Regions
=============================================================================
