SPECIFICATION PageSpec
CONSTANTS
    Owners = {ann, bob}  Readers = {}  MaxEpoch = 2  MaxEdits = 2  Artists = {ann, bob}
    MaxStrokes = 2  MaxErasures = 2  MaxOpenings = 2  Tabs = {ann}  MaxKeys = 2
    MaxSigns = 1  MaxQueue = 2  VideoCalls = {roomA, roomB}  Nothing = none  MaxTracks = 3
    Rooms = {roomA, roomB}  Federated = {roomA}  Nowhere = nowhere  Ttl = 4  Retry = 2
    MaxTime = 4  MaxClicks = 2  MaxFaults = 1  Chats = {roomA, roomB}  NoChat = nowhere
    MaxPins = 1  MaxPresses = 5  MaxReads = 3  People = {ann, bob}  MaxChanges = 1
    MaxLoads = 2  MaxDeletions = 1  MaxErrors = 1  Files = {f1}  Thumbs = {f2}
    MaxFetches = 4  MaxClears = 2  Conn = {a1, a2}  User = {ann}  UserOf <- OneUser
    QueueSize = 1  EphemeralLimit = 1  CallQueueSize = 1
    Windows = {a1, a2}  BrowserOf <- OneBrowser  MaxMade = 4  MaxReturns = 1  MaxDenials = 1
    Messages = {f1, f2}  Late = {f2}  MaxLists = 3  MaxFailures = 1
    SharedFiles = {f1, f2}  NoFile = none  MaxLinks = 3  MaxDialogs = 3  MaxLosses = 1
    Conversations = {roomA, roomB}  NoRoom = nowhere  MaxItems = 3  MaxMoves = 2
    MaxSends = 1  MaxPostFaults = 1  PageSize = 2  Fits = 1  OldFiles = 3
    MaxFileChanges = 1  MaxFolderOpenings = 2  MaxScrolls = 1  MaxRequestFaults = 1
    Talks = {notes, roomA, roomB}  Notes = notes  Groups = {roomB}  Doubtful = {roomA}
    CurrentTalk = roomB  NoTalk = nowhere  Cached <- KeptList  AtStart <- SmallStart  MaxEvents = 2  MaxMishaps = 1
    Suspended = {roomB}  Owned = {roomB}  Lively = {roomA}  MaxPosts = 1  MaxSelections = 2
    MaxWork = 2  MaxLoadFailures = 1
    roomA = roomA  roomB = roomB  notes = notes  nowhere = nowhere  ann = ann  bob = bob
    f1 = f1  f2 = f2  a1 = a1  a2 = a2  none = none
INVARIANTS PageTypeOK ConversationIsTheSelected FilesAreTheServers FilesStayInTheirConversation KeysAreOfTheirEpoch PreviewsAreKept CallControlsAreTrue DrawnIsCurrent OneSigningIdentity NoEventIsLostInSilence
PROPERTIES ClicksAreObeyed ChangesNeedConsent
\* Each part stops once its bounds are reached.
CHECK_DEADLOCK FALSE
