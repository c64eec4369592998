\* Packets say what they were built from; settings are taken apart whole.
CONSTANTS
    BUF_SIZE = 140
    Infos <- MCInfos
    Topics <- MCTopics
    Datas <- MCDatas
    Settings <- MCSettings
    FirstIds = {0, 254, 65534}
    MaxIds = 2
    MaxSegment = 2
SPECIFICATION Spec
INVARIANTS
    TypeOK
    PacketsReadBack
    IdsFresh
    SettingsTakenApart
