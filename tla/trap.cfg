CONSTANTS
  Users = {u1, u2}
  Kernels = {idle, shell}
  Idle = idle
  Word = {0, 1}
  Zero = Zero
  UserStack = UserStack
SPECIFICATION Spec
INVARIANTS OwnKernelStack StatusMatchesContext
PROPERTIES ImplementsUserContexts
VIEW WithoutStaleFrames
