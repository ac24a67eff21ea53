SPECIFICATION Spec
CONSTANTS
  NULL = NULL
  Parts = {"posts", "inbox", "drafts", "body", "replies", "typeahead", "hover",
           "invites", "badges", "gates", "notices", "forms", "http", "bus",
           "posting", "stars", "prefs"}
  Member = {m1, m2}  Save = {i1, i2, i3}  NoticePage = 1  LastTime = 1
  Composer = {m1}  Draft = {m2}  DraftCall = {j1, j2}  LastEdit = 2
  Citable = {j1, j2}  Mentionable = {m1}  MaxPieces = 2  MaxImages = 1  MaxPicks = 2  FileDrop = {k1, k2}
  ReplyCall = {j1, j2}  LastText = 2
  LongQuery = {i1, i2, i3}  Fetch = {j1, j2}  CacheMax = 2
  Card = {k1, k2}  Author = {j1, j2}  SummaryFetch = {i1, i2, i3}  SummaryMax = 1
  Client = {j1, j2}  Request = {i1, i2, i3}
  Slip = {k1, k2}  Errand = {j1, j2}  LastElse = 1
  Title = {i1, i2, i3}  Act = {j1, j2}  MaxBadges = 3
  GateTab = {j1, j2}  Attempt = {i1, i2, i3}  MaxTries = 1
  Viewer = {k1, k2}  Stream = {j1, j2}  News = {i1, i2, i3}  MaxLive = 2  MaxWire = 2
  LastNotice = 2  InboxPage = 1  InboxCall = {j1, j2}
  FormTab = {m1}  SettingsRow = {k1, k2}  RowName = {l1, l2}  SaveCall = {j1, j2}
  PostTab = {m1}  Limits = {l1, l2}  DefaultLimits = l1  LimitRead = {k1}  LimitSave = {j1, j2}
  Button = {j1, j2}  StarCall = {i1, i2, i3}
  Widget = {k1, k2}  Topic = {j1, j2}  Fancied = {l1}
SYMMETRY Symmetry
INVARIANTS
  ForumKept
  WalksKept
  ComposerKept
  PagesKept
  HttpKept
  SettingsKept
  GatesKept
  BusKept
PROPERTIES
  DraftsStayGone
CHECK_DEADLOCK FALSE
