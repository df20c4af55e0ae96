CONSTANTS
    CodecBytes = {0, 32, 37, 43, 48, 65, 92, 97, 120, 117, 200}
    Spaces = {9, 10, 13, 32, 97, 169, 195}
    FormBytes = {37, 38, 43, 50, 61, 98}
SPECIFICATION Spec
INVARIANTS CodecsInvert WordsAgree SettingsAgree LookupsAgree RepliesInPieces TextsReadBack
CHECK_DEADLOCK FALSE
