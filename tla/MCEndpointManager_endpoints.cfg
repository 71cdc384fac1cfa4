\* One or two hosts and up to three endpoints, two connections.
SPECIFICATION FairSpec
CONSTANTS
  EndpointLists <- MCEndpointLists
  Addresses <- MCAddresses
  Answers <- MCAnswers
  Connections = 2
  Wrap <- MCWrap
INVARIANTS
  IndInv
  RequestsAreAnswered
PROPERTIES
  RoundRobin
  ConnectionsStart
