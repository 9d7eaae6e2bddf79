\* Every length of CAN FD with its neighbours; dlc values from can_bytes_to_dlc and three others.
SPECIFICATION Spec
CONSTANTS
  Id <- Ids
  Order <- Ports
  Dlc <- Dlcs
  Length <- Lengths
INVARIANTS TypeOK EchoIsFaithful NoByteLost OnlyAskedIds
