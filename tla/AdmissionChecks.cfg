SPECIFICATION Spec
CONSTANTS
    Commands <- MCCommands
    Registries <- MCRegistries
    Worlds <- MCWorlds
    Datasets <- MCDatasets
    MaxChanges = 1
INVARIANTS TypeOK FlagsWin FirstObjectionIsReported AdmittedIsGraded RowsAreTheLines FirstBadLineIsReported LateFailureMeansChange
