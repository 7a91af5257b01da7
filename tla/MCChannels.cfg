\* Two messages, each delivered up to twice, with two deliveries under
\* way at once; an answer is cut within a word and at a space.
SPECIFICATION Spec
CONSTANTS
    u1 = u1 u2 = u2 u3 = u3 u4 = u4
    a = a b = b x = x
    f1 = f1 f2 = f2
    Users = {u1, u2, u3, u4}
    Skills = {a, b, x}
    Catalogue = {a, b}
    Keyed = {"discord", "telegram", "whatsapp", "email"}
    Files = {f1, f2}
    Messages = {1, 2}
    ChannelOf <- MCChannelOf
    Posts <- MCPosts
    Texts <- MCTexts
    MaxLength = 2
    MaxDeliveries = 2
    MaxActive = 2
    None = None
INVARIANTS TypeOK OneIdentity ChoiceStands UploadsReachTurn AckedIsAnswered
CHECK_DEADLOCK FALSE
