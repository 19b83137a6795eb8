\* Two tasks for the same agent, with a restart.
CONSTANTS
  None = None
  t1 = t1
  t2 = t2
  bridge = bridge
  ann = ann
  Messages = {t1, t2}
  Agents = {bridge}
  Owned = {bridge}
  Humans = {ann}
  Header <- MCHeader
  MaxSpawns = 2
  MaxRestarts = 1
SPECIFICATION Spec
INVARIANTS
  TypeOK
  SpawnedOnce
  OneSessionEach
  RowWillGo
PROPERTIES
  TableSpec
  TaskAnswered
CHECK_DEADLOCK FALSE
