\* A first task, one more input of any kind and a detached call, fair scheduling.
CONSTANTS
  p1 = p1
  m1 = m1
  u1 = u1
  t1 = t1
  first = first
  Prompts = {p1}
  Messages = {m1}
  Updates = {u1}
  Tasks = {t1}
  FirstTask = first
SPECIFICATION FairOneComes
INVARIANTS
  NotesReachTheTurnOnce
  ReportedThenReleased
PROPERTIES
  NotesSurvive
  StopIsFinal
  WaitersAreReleased
