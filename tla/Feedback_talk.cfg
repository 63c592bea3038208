SPECIFICATION Spec
CONSTANTS
    Users = {u1, u2}
    Replies = {r1}
    None = None
    MaxStarts = 3
    MaxMessages = 3
    MaxReplies = 2
    MaxConversations = 2
INVARIANTS TypeOK OneMessagePerPrompt AnswersDelivered
