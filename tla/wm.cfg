\* Two windows at a time on a screen of three lines.
SPECIFICATION WmSpec
CONSTANTS
  WM_MAX_WINDOWS = 2
  WM_EVENT_RING_SIZE = 3
  WM_TASKBAR_PX = 1
  Border = 0
  Height = 3
  Lines = {0, 1}
  Heights = {1, 2}
  Image = {1, 2}
  MaxId = 2
VIEW View
INVARIANTS OrderIsStrict FocusIsKnown ImagePagesAreOwned
PROPERTIES ChangesAreMarked
