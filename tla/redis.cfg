SPECIFICATION FairSpec
CONSTANTS
  MaxRequests = 2
  SIZE_TMP_BUFF = 2
  Messages <- MCMessages
  Replies <- MCReplies
INVARIANT RedisSafe OwnReply CommandReceived
PROPERTY AnsweredInOrder RequestEnds
CHECK_DEADLOCK FALSE
