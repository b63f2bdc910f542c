SPECIFICATION FairSpec
CONSTANTS
  Peers = {1, 2}
  Links = {11}
  Fds = {1, 2, 3}
  MaxClients = 2
  Requests = {"PING", "QUIT", "REPLICAOF"}
  Answers = {"PONG"}
  MaxRequests = 2
 
INVARIANT RepliesInOrder
PROPERTY GoneClientsAreClosed
CHECK_DEADLOCK FALSE
